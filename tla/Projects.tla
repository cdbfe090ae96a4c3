------------------------------ MODULE Projects ------------------------------
(***************************************************************************)
(* One project row, from its creation on, and the issues created in it:    *)
(* create_issue takes the next issue number from the row                   *)
(* (modules/issues/service.py), while set_archived and update_project      *)
(* change other columns of it (modules/projects/service.py).               *)
(*                                                                         *)
(* Requests are PostgreSQL transactions at READ COMMITTED.  Each reads the *)
(* row without a lock; its UPDATE then waits for the row lock, holds it to *)
(* the commit, and works on the newest version of the row.  SQLAlchemy     *)
(* writes the columns whose value differs from the one it loaded, and      *)
(* nothing at all when there is none.                                      *)
(***************************************************************************)
EXTENDS Integers, FiniteSets

CONSTANTS
    Requests,     \* requests in flight
    NoRequest,
    Names,        \* values of the columns that update_project may change
    NoName,
    MaxIssues     \* bound: issues of the project

ASSUME ProjectsAssumption ==
    /\ NoRequest \notin Requests
    /\ NoName \notin Names
    /\ IsFiniteSet(Requests)
    /\ MaxIssues \in Nat

VARIABLES
    counter,     \* next_issue_number
    archived,
    name,        \* NoName while the project has not been created
    rowLock,     \* the request that has written the row and not committed
    numbers,     \* the numbers of the committed issues
    audited,     \* what the last audit event of set_archived says
    crossed,     \* history: that request wrote nothing, and had been overtaken
    req          \* req[q]: what request q is doing and has read

row == <<counter, archived, name>>
audit == <<audited, crossed>>
vars == <<row, rowLock, numbers, audit, req>>

Idle == [pc |-> "idle"]

Init ==
    /\ counter = 1
    /\ archived = FALSE
    /\ name = NoName
    /\ rowLock = NoRequest
    /\ numbers = {}
    /\ audited = FALSE
    /\ crossed = FALSE
    /\ req = [q \in Requests |-> Idle]

\* Plausible bug: the session of a request is not closed when it ends.
DoneKeepingLock(q) ==
    /\ req' = [req EXCEPT ![q] = Idle]
    /\ UNCHANGED rowLock

\* The transaction of q ends and its row lock is released.
Done(q) ==
    /\ req' = [req EXCEPT ![q] = Idle]
    /\ rowLock' = IF rowLock = q THEN NoRequest ELSE rowLock

-----------------------------------------------------------------------------
Exists == name # NoName

\* create_project: the INSERT, which waits for another one of the same key to
\* commit or fail.  (Once the key is taken it is answered 409 and nothing is
\* written.)
ProjectInsert(q, to) ==
    /\ req[q].pc = "idle"
    /\ ~Exists
    /\ rowLock = NoRequest
    /\ rowLock' = q
    /\ req' = [req EXCEPT ![q] = [pc |-> "project", to |-> to]]
    /\ UNCHANGED <<row, numbers, audit>>

\* create_project: the project and its audit event commit.
ProjectCommit(q) ==
    /\ req[q].pc = "project"
    /\ name' = req[q].to
    /\ Done(q)
    /\ UNCHANGED <<counter, archived, numbers, audit>>

-----------------------------------------------------------------------------
\* Every creation in flight may still take a number.
Creating == {q \in Requests : req[q].pc \in {"allocate", "insert"}}

\* create_issue: get_project, which must not be archived, and the other
\* checks.
CreateRead(q) ==
    /\ req[q].pc = "idle"
    /\ Exists /\ ~archived
    /\ counter + Cardinality(Creating) <= MaxIssues
    /\ req' = [req EXCEPT ![q] = [pc |-> "allocate"]]
    /\ UNCHANGED <<row, rowLock, numbers, audit>>

\* create_issue: UPDATE projects SET next_issue_number = next_issue_number + 1
\* RETURNING next_issue_number - 1.
CreateAllocate(q) ==
    /\ req[q].pc = "allocate"
    /\ rowLock = NoRequest
    /\ rowLock' = q
    /\ req' = [req EXCEPT ![q] = [pc |-> "insert", number |-> counter]]
    /\ UNCHANGED <<row, numbers, audit>>

\* create_issue: the issue, its audit event and the notification commit with
\* the counter; were the number taken, the unique constraint on (project_id,
\* number) would refuse the row and everything be rolled back.
CreateCommit(q) ==
    /\ req[q].pc = "insert"
    /\ IF req[q].number \in numbers
       THEN UNCHANGED <<numbers, counter>>
       ELSE /\ numbers' = numbers \cup {req[q].number}
            /\ counter' = req[q].number + 1
    /\ Done(q)
    /\ UNCHANGED <<archived, name, audit>>

-----------------------------------------------------------------------------
\* set_archived: get_project.
ArchiveRead(q, to) ==
    /\ req[q].pc = "idle"
    /\ Exists
    /\ req' = [req EXCEPT ![q] = [pc |-> "archive", to |-> to,
                                 write |-> archived # to, overtaken |-> FALSE]]
    /\ UNCHANGED <<row, rowLock, numbers, audit>>

\* The request of q ends; if it changes the column, the other set_archived in
\* flight have read what it replaced.
Overtake(q) ==
    req' = [p \in Requests |->
               IF p = q THEN Idle
               ELSE IF req[p].pc = "archive" /\ archived' # archived
                    THEN [req[p] EXCEPT !.overtaken = TRUE]
                    ELSE req[p]]

\* The request of q has found nothing to change, and another one has changed
\* the column since.
Crosses(q) == req[q].overtaken /\ ~req[q].write

\* Plausible bug: the audit event is committed first, and the server dies
\* before the column is.
ArchiveCommitAudit(q) ==
    /\ req[q].pc = "archive"
    /\ audited' = req[q].to
    /\ crossed' = Crosses(q)
    /\ UNCHANGED <<row, rowLock, numbers>>
    /\ Overtake(q)

\* set_archived: the commit flushes the column if it differs from what was
\* loaded, waiting for the row, and the audit event in any case.
ArchiveCommit(q) ==
    /\ req[q].pc = "archive"
    /\ \/ ~req[q].write /\ UNCHANGED archived
       \/ req[q].write /\ rowLock = NoRequest /\ archived' = req[q].to
    /\ audited' = req[q].to
    /\ crossed' = Crosses(q)
    /\ Overtake(q)
    /\ UNCHANGED <<counter, name, rowLock, numbers>>

\* update_project: get_project.
UpdateRead(q, to) ==
    /\ req[q].pc = "idle"
    /\ Exists /\ name # to
    /\ req' = [req EXCEPT ![q] = [pc |-> "update", to |-> to, loaded |-> counter]]
    /\ UNCHANGED <<row, rowLock, numbers, audit>>

\* Plausible bug: the whole row is written back as it was loaded.
UpdateCommitRow(q) ==
    /\ req[q].pc = "update"
    /\ rowLock = NoRequest
    /\ name' = req[q].to
    /\ counter' = req[q].loaded
    /\ Done(q)
    /\ UNCHANGED <<archived, numbers, audit>>

\* update_project: only the columns that were set are written.
UpdateCommit(q) ==
    /\ req[q].pc = "update"
    /\ rowLock = NoRequest
    /\ name' = req[q].to
    /\ Done(q)
    /\ UNCHANGED <<counter, archived, numbers, audit>>

\* The client or the database goes away before the commit.
Rollback(q) ==
    /\ req[q].pc # "idle"
    /\ Done(q)
    /\ UNCHANGED <<row, numbers, audit>>

-----------------------------------------------------------------------------
\* The steps of a request once it has begun.
Proceed(q) ==
    \/ ProjectCommit(q)
    \/ CreateAllocate(q) \/ CreateCommit(q)
    \/ ArchiveCommit(q)
    \/ UpdateCommit(q)

Next ==
    \E q \in Requests :
        \/ \E to \in Names : ProjectInsert(q, to)
        \/ CreateRead(q)
        \/ \E to \in BOOLEAN : ArchiveRead(q, to)
        \/ \E to \in Names : UpdateRead(q, to)
        \/ Proceed(q)
        \/ Rollback(q)

\* The server runs every request on and PostgreSQL grants the row lock in the
\* order it was asked for (hence strong fairness).
Fairness == \A q \in Requests : SF_vars(Proceed(q))

Spec == Init /\ [][Next]_vars /\ Fairness

-----------------------------------------------------------------------------
Numbers == 1 .. MaxIssues

Requested ==
    {Idle}
    \cup [pc : {"project"}, to : Names]
    \cup [pc : {"allocate"}]
    \cup [pc : {"insert"}, number : Numbers]
    \cup [pc : {"archive"}, to : BOOLEAN, write : BOOLEAN, overtaken : BOOLEAN]
    \cup [pc : {"update"}, to : Names, loaded : 1 .. MaxIssues + 1]

\* The variables hold values of their types, and the row is locked exactly by
\* the request that has created it, or counted in it, and not committed.
TypeOK ==
    /\ counter \in 1 .. MaxIssues + 1
    /\ archived \in BOOLEAN
    /\ name \in Names \cup {NoName}
    /\ rowLock \in Requests \cup {NoRequest}
    /\ numbers \in SUBSET Numbers
    /\ audited \in BOOLEAN
    /\ crossed \in BOOLEAN
    /\ req \in [Requests -> Requested]
    /\ \A q \in Requests : rowLock = q <=> req[q].pc \in {"insert", "project"}

\* Issues are numbered 1, 2, 3 and so on without a gap, although creations are
\* abandoned between counting and committing and other requests write the
\* same row.
NumbersAreDense == numbers = 1 .. counter - 1

\* The project is archived exactly when the last audit event of set_archived
\* says so, with one exception: the request that wrote the event had found the
\* column as it was to be and wrote nothing, and another one had changed it
\* before the event was committed.  A request that did write the column, and
\* one whose column nobody changed in between, leave the two in agreement.
ArchivedAsAudited == ~crossed => archived = audited

\* Every request comes to an end: nobody keeps the row's lock.
EveryRequestEnds == \A q \in Requests : req[q].pc # "idle" ~> req[q].pc = "idle"

\* "Issues cannot be created in an archived project"
\* (modules/issues/service.py:54).
ArchivedTakesNoIssue == [][archived => numbers' = numbers]_vars
=============================================================================
