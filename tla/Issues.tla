------------------------------- MODULE Issues -------------------------------
(***************************************************************************)
(* One issue and the requests that edit it, move it through its statuses,  *)
(* assign it and archive it (modules/issues/service.py).                   *)
(*                                                                         *)
(* Requests are PostgreSQL transactions at READ COMMITTED.  Each reads the *)
(* issue without a lock and decides on what it read; optimistic_update     *)
(* then compares the newest version with the one the client sent, under    *)
(* the row lock, which it keeps to the commit.                             *)
(***************************************************************************)
EXTENDS Integers

CONSTANTS
    Requests,     \* requests in flight
    NoRequest,
    People,       \* accounts an issue may be assigned to
    Nobody,       \* assignee_id IS NULL
    ClientsGuess, \* TRUE: a client may send a version it has not been shown
    MaxVersion    \* bound: clients send versions below it

ASSUME IssuesAssumption ==
    /\ NoRequest \notin Requests
    /\ Nobody \notin People
    /\ ClientsGuess \in BOOLEAN
    /\ MaxVersion \in Nat \ {0}

VARIABLES
    status,
    version,
    assignee,
    archived,    \* archived_at IS NOT NULL
    members,     \* the people who are active members of the organization
    rowLock,     \* the request that has updated the issue and not committed
    req,         \* req[q]: what request q is doing and has read
    replaced     \* replaced[v]: how many commits were based on version v

issue == <<status, version, assignee, archived>>
vars == <<issue, members, rowLock, req, replaced>>

Statuses == {"backlog", "todo", "in_progress", "done", "canceled"}

TRANSITIONS ==
    [backlog     |-> {"todo", "canceled"},
     todo        |-> {"backlog", "in_progress", "canceled"},
     in_progress |-> {"todo", "done", "canceled"},
     done        |-> {"in_progress"},
     canceled    |-> {"backlog"}]

Versions == 1 .. MaxVersion

\* The expected_version a client may send: one it was shown, or any number
\* that the schema lets through.
Expectable == IF ClientsGuess THEN 1 .. MaxVersion - 1
              ELSE {v \in 1 .. MaxVersion - 1 : v <= version}

Idle == [pc |-> "idle"]

Init ==
    /\ status = "backlog"
    /\ version = 1
    /\ assignee = Nobody
    /\ archived = FALSE
    /\ members \in SUBSET People
    /\ rowLock = NoRequest
    /\ req = [q \in Requests |-> Idle]
    /\ replaced = [v \in Versions |-> 0]

\* Plausible bug: the session of a request is not closed when it ends.
DoneKeepingLock(q) ==
    /\ req' = [req EXCEPT ![q] = Idle]
    /\ UNCHANGED rowLock

\* The transaction of q ends and its row lock is released.
Done(q) ==
    /\ req' = [req EXCEPT ![q] = Idle]
    /\ rowLock' = IF rowLock = q THEN NoRequest ELSE rowLock

-----------------------------------------------------------------------------
\* Plausible bug: the issue is loaded by its id alone.
EditReadArchived(q, expected) ==
    /\ req[q].pc = "idle"
    /\ req' = [req EXCEPT ![q] = [pc |-> "update", op |-> "edit",
                                  expected |-> expected, loaded |-> version]]
    /\ UNCHANGED <<issue, members, rowLock, replaced>>

\* update_issue: get_issue, which finds no archived issue.
EditRead(q, expected) ==
    /\ req[q].pc = "idle"
    /\ ~archived
    /\ req' = [req EXCEPT ![q] = [pc |-> "update", op |-> "edit",
                                  expected |-> expected, loaded |-> version]]
    /\ UNCHANGED <<issue, members, rowLock, replaced>>

\* change_status: get_issue and can_transition, on the status that was read.
StatusRead(q, expected, to) ==
    /\ req[q].pc = "idle"
    /\ ~archived
    /\ to \in TRANSITIONS[status]
    /\ req' = [req EXCEPT ![q] = [pc |-> "update", op |-> "status", expected |-> expected,
                                  loaded |-> version, from |-> status, to |-> to]]
    /\ UNCHANGED <<issue, members, rowLock, replaced>>

\* assign: validate_assignee, which wants an active member.  (Anybody else is
\* refused with nothing written.)
AssignValidate(q, expected, u) ==
    /\ req[q].pc = "idle"
    /\ u \in members \cup {Nobody}
    /\ req' = [req EXCEPT ![q] = [pc |-> "validated", expected |-> expected, to |-> u]]
    /\ UNCHANGED <<issue, members, rowLock, replaced>>

\* assign: get_issue.  The membership is not looked at again.
AssignRead(q) ==
    /\ req[q].pc = "validated"
    /\ \/ archived /\ Done(q)
       \/ /\ ~archived
          /\ req' = [req EXCEPT ![q] =
                        [pc |-> "update", op |-> "assign", expected |-> req[q].expected,
                         loaded |-> version, to |-> req[q].to]]
          /\ UNCHANGED rowLock
    /\ UNCHANGED <<issue, members, replaced>>

\* Plausible bug: the version is compared with the issue that was loaded, and
\* the UPDATE goes by the id only.
OptimisticUpdateLoaded(q) ==
    /\ req[q].pc = "update"
    /\ rowLock = NoRequest
    /\ \/ req[q].loaded = req[q].expected
          /\ rowLock' = q
          /\ req' = [req EXCEPT ![q].pc = "commit"]
       \/ req[q].loaded # req[q].expected /\ Done(q)
    /\ UNCHANGED <<issue, members, replaced>>

\* optimistic_update: UPDATE ... WHERE version = expected waits for the row if
\* that is its version; if it is not, or no longer, there is no row (409).
OptimisticUpdate(q) ==
    /\ req[q].pc = "update"
    /\ \/ /\ version = req[q].expected
          /\ rowLock = NoRequest
          /\ rowLock' = q
          /\ req' = [req EXCEPT ![q].pc = "commit"]
       \/ version # req[q].expected /\ Done(q)
    /\ UNCHANGED <<issue, members, replaced>>

\* The new values, version + 1, the audit event and the notification commit.
Commit(q) ==
    /\ req[q].pc = "commit"
    /\ version' = version + 1
    /\ status' = IF req[q].op = "status" THEN req[q].to ELSE status
    /\ assignee' = IF req[q].op = "assign" THEN req[q].to ELSE assignee
    /\ replaced' = [replaced EXCEPT ![req[q].expected] = @ + 1]
    /\ Done(q)
    /\ UNCHANGED <<archived, members>>

\* archive: get_issue.
ArchiveRead(q) ==
    /\ req[q].pc = "idle"
    /\ ~archived
    /\ req' = [req EXCEPT ![q] = [pc |-> "archive"]]
    /\ UNCHANGED <<issue, members, rowLock, replaced>>

\* archive: archived_at is written, by the primary key only.
ArchiveCommit(q) ==
    /\ req[q].pc = "archive"
    /\ rowLock = NoRequest
    /\ archived' = TRUE
    /\ Done(q)
    /\ UNCHANGED <<status, version, assignee, members, replaced>>

\* The client or the database goes away before the commit.
Rollback(q) ==
    /\ req[q].pc # "idle"
    /\ Done(q)
    /\ UNCHANGED <<issue, members, replaced>>

-----------------------------------------------------------------------------
\* An invitation is accepted, in a transaction of Organizations.
Join(u) ==
    /\ u \notin members
    /\ members' = members \cup {u}
    /\ UNCHANGED <<issue, rowLock, req, replaced>>

\* remove_member, in a transaction of Organizations; what is assigned to the
\* member stays so.
Leave(u) ==
    /\ u \in members
    /\ members' = members \ {u}
    /\ UNCHANGED <<issue, rowLock, req, replaced>>

-----------------------------------------------------------------------------
\* The steps of a request once it has begun.
Proceed(q) ==
    \/ AssignRead(q)
    \/ OptimisticUpdate(q)
    \/ Commit(q)
    \/ ArchiveCommit(q)

Next ==
    \/ \E u \in People : Join(u) \/ Leave(u)
    \/ \E q \in Requests :
           \/ \E v \in Expectable :
                  \/ EditRead(q, v)
                  \/ \E to \in Statuses : StatusRead(q, v, to)
                  \/ \E u \in People \cup {Nobody} : AssignValidate(q, v, u)
           \/ ArchiveRead(q)
           \/ Proceed(q)
           \/ Rollback(q)

\* The server runs every request on and PostgreSQL grants the row lock in the
\* order it was asked for (hence strong fairness).
Fairness == \A q \in Requests : SF_vars(Proceed(q))

Spec == Init /\ [][Next]_vars /\ Fairness

-----------------------------------------------------------------------------
Writes ==
    [pc : {"update", "commit"}, op : {"edit"}, expected : Versions, loaded : Versions]
    \cup [pc : {"update", "commit"}, op : {"status"}, expected : Versions,
          loaded : Versions, from : Statuses, to : Statuses]
    \cup [pc : {"update", "commit"}, op : {"assign"}, expected : Versions,
          loaded : Versions, to : People \cup {Nobody}]

Requested ==
    {Idle} \cup Writes
    \cup [pc : {"validated"}, expected : Versions, to : People \cup {Nobody}]
    \cup [pc : {"archive"}]

\* The variables hold values of their types, and the row is locked exactly by
\* the request that has updated it and not committed.
TypeOK ==
    /\ status \in Statuses
    /\ version \in Versions
    /\ assignee \in People \cup {Nobody}
    /\ archived \in BOOLEAN
    /\ members \in SUBSET People
    /\ rowLock \in Requests \cup {NoRequest}
    /\ req \in [Requests -> Requested]
    /\ replaced \in [Versions -> Nat]
    /\ \A q \in Requests : rowLock = q <=> req[q].pc = "commit"

\* Optimistic concurrency: every version but the newest was replaced by
\* exactly one request, the newest by none, so that no committed edit is
\* overwritten by a client that had not seen it.
OneWinnerPerVersion ==
    \A v \in Versions : replaced[v] = IF v < version THEN 1 ELSE 0

Assigns(q) == req[q].pc \in {"update", "commit"} /\ req[q].op = "assign"

\* The requests implement IssueLifecycle: each makes one change, in one piece,
\* to the version that its client sent, moving the status along TRANSITIONS
\* from where it is although can_transition looked before the row was locked,
\* or assigning somebody who was a member when the request looked, and may
\* have left since; once the issue is archived, only those that had begun go
\* on.
Lifecycle == INSTANCE IssueLifecycle WITH
    sent <- [q \in Requests |->
                IF req[q].pc \in {"update", "commit"} THEN req[q].expected ELSE 0],
    chosen <- [q \in Requests |->
                  IF req[q].pc = "validated" \/ Assigns(q) THEN {req[q].to} ELSE {}]

LifecycleSpec == Lifecycle!Spec

\* "test_status_audit_records_the_exact_transition"
\* (tests/integration/test_hardening.py:71): the status that change_status
\* writes into the audit event's "from" is the one it replaces.
AuditIsExact ==
    \A q \in Requests :
        req[q].pc = "commit" /\ req[q].op = "status" => req[q].from = status

\* An archived issue comes to rest: edits that had read it before are still
\* made (optimistic_update does not look at archived_at), but they end, and
\* after them nobody gets past get_issue again.
ArchivedComesToRest ==
    archived ~> [](\A q \in Requests : req[q].pc \in {"idle", "validated"})
=============================================================================
