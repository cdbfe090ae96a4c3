------------------------------ MODULE Listing -------------------------------
(***************************************************************************)
(* Keyset pagination over rows that are created, edited and deleted        *)
(* meanwhile: list_ of modules/issues/router.py, which goes in either      *)
(* direction, and list_ of the comments, notifications and audit routers,  *)
(* which are the same query in descending order only.                      *)
(*                                                                         *)
(* A row is seen by others when its transaction commits; created_at is     *)
(* earlier.  Issues and comments are stamped with the server's clock when  *)
(* they are flushed (db/base.py), notifications and audit events with      *)
(* PostgreSQL's now(), the beginning of their transaction.  Issues are     *)
(* created under the lock of their project, whose counter create_issue has *)
(* updated before (modules/issues/service.py), the others under no lock.   *)
(* The servers' clocks are taken to be one; ids are random, in no relation *)
(* to time.                                                                *)
(***************************************************************************)
EXTENDS Integers, FiniteSets

CONSTANTS
    Rows,         \* ids of rows; bound: each is used once
    Projects,     \* places whose rows are issues
    Threads,      \* places whose rows are comments, notifications or events
    PageSize,     \* limit
    LastStamp,    \* bound: the clock stops stamping after LastStamp
    NoCursor

ASSUME ListingAssumption ==
    /\ Rows \subseteq Int
    /\ IsFiniteSet(Rows)
    /\ Projects \cap Threads = {}
    /\ PageSize \in Nat \ {0}
    /\ LastStamp \in Nat
    /\ NoCursor \notin [at : Nat, id : Rows]

Places == Projects \cup Threads

VARIABLES
    rows,      \* rows[r]: state, place and created_at of row r
    clock,     \* now, in units in which two rows may get the same created_at
    walk       \* a client that follows next_cursor from page to page

listingVars == <<rows, clock, walk>>

Unused == [state |-> "unused"]
NoWalk == [pc |-> "none", stayed |-> {}]

ListingInit ==
    /\ rows = [r \in Rows |-> Unused]
    /\ clock = 0
    /\ walk = NoWalk

InState(states) == {r \in Rows : rows[r].state \in states}

\* The transaction that creates the row is open.
Open == InState({"begun", "stamped"})
\* Committed rows that the query of a walk may return.
Shown == InState({"visible", "again"})

-----------------------------------------------------------------------------
\* Plausible bug: issues are numbered without a lock on the project.
BeginUnlocked(r, p) ==
    /\ rows[r].state = "unused"
    /\ rows' = [rows EXCEPT ![r] = [state |-> "begun", place |-> p]]
    /\ UNCHANGED <<clock, walk>>

\* create_issue: UPDATE projects, which waits for another creation in the
\* project to end.  comments.create, and the rows that create_issue and assign
\* add for others: nothing to wait for.
Begin(r, p) ==
    /\ rows[r].state = "unused"
    /\ p \in Projects => \A s \in Open : rows[s].place # p
    /\ rows' = [rows EXCEPT ![r] = [state |-> "begun", place |-> p]]
    /\ UNCHANGED <<clock, walk>>

\* created_at is set: in the flush of an issue or a comment, at the start of the
\* transaction of the others.  Some time may have passed, or too little to tell.
Stamp(r) ==
    /\ rows[r].state = "begun"
    /\ clock' \in {clock, clock + 1} \cap (0 .. LastStamp)
    /\ rows' = [rows EXCEPT ![r] =
                   [state |-> "stamped", place |-> rows[r].place, at |-> clock']]
    /\ UNCHANGED walk

\* The commit, which is later.
Commit(r) ==
    /\ rows[r].state = "stamped"
    /\ rows' = [rows EXCEPT ![r].state = "visible"]
    /\ clock' = IF clock = rows[r].at THEN clock + 1 ELSE clock
    /\ UNCHANGED walk

\* The transaction fails.  Nobody has seen the row: its id may as well be used
\* again.
RollbackRow(r) ==
    /\ r \in Open
    /\ rows' = [rows EXCEPT ![r] = Unused]
    /\ UNCHANGED <<clock, walk>>

\* An edit takes an issue out of the filter of the walk ("hidden"), or an issue
\* is archived or a comment deleted ("gone").
Leave(r, to) ==
    /\ \/ to = "gone" /\ r \in InState({"visible", "again", "hidden"})
       \/ to = "hidden" /\ r \in Shown /\ rows[r].place \in Projects
    /\ rows' = [rows EXCEPT ![r].state = to]
    /\ walk' = [walk EXCEPT !.stayed = @ \ {r}]
    /\ UNCHANGED clock

\* An edit of an issue brings it into the filter of the walk.
Return(r) ==
    /\ rows[r].state = "hidden"
    /\ rows[r].place \in Projects
    /\ rows' = [rows EXCEPT ![r].state = "again"]
    /\ UNCHANGED <<clock, walk>>

-----------------------------------------------------------------------------
Key(r) == [at |-> rows[r].at, id |-> r]

\* (created_at, id) of k is less than that of m.
Precedes(k, m) ==
    \/ k.at < m.at
    \/ k.at = m.at /\ k.id < m.id

\* m comes after k in the order of the listing.
Follows(m, k) == IF walk.asc THEN Precedes(k, m) ELSE Precedes(m, k)

\* Issues are listed for one project or the whole organization, in either
\* order; the others for one thread, the newest first.
WalkMayStart(asc, scope) ==
    \/ scope = Projects
    \/ \E p \in Projects : scope = {p}
    \/ ~asc /\ \E t \in Threads : scope = {t}

StartWalk(asc, scope) ==
    /\ walk.pc = "none"
    /\ WalkMayStart(asc, scope)
    /\ walk' = [pc |-> "open", asc |-> asc, scope |-> scope, cursor |-> NoCursor,
                listed |-> {}, twice |-> {},
                stayed |-> {r \in Shown : rows[r].place \in scope}]
    /\ UNCHANGED <<rows, clock>>

\* Plausible bug: the cursor is compared by created_at alone.
SelectedByTime ==
    {r \in Shown : /\ rows[r].place \in walk.scope
                   /\ walk.cursor # NoCursor =>
                          IF walk.asc THEN rows[r].at > walk.cursor.at
                          ELSE rows[r].at < walk.cursor.at}

\* The rows of the query: those of the scope that follow the cursor.
Selected ==
    {r \in Shown : /\ rows[r].place \in walk.scope
                   /\ walk.cursor # NoCursor => Follows(Key(r), walk.cursor)}

\* last is the last of the items, in the order of the listing.
LastOf(items, last) ==
    /\ last \in items
    /\ \A i \in items \ {last} : Follows(Key(last), Key(i))

\* list_: asking for one row more tells that there are more than limit.  The
\* first limit rows are returned, with the key of the last as next_cursor.
FullPage(items, last) ==
    /\ walk.pc = "open"
    /\ Cardinality(Selected) > PageSize
    /\ items \subseteq Selected
    /\ Cardinality(items) = PageSize
    /\ \A i \in items, r \in Selected \ items : Follows(Key(r), Key(i))
    /\ LastOf(items, last)
    /\ walk' = [walk EXCEPT !.cursor = Key(last),
                            !.listed = @ \cup items,
                            !.twice = @ \cup (items \cap walk.listed)]
    /\ UNCHANGED <<rows, clock>>

\* list_: there are no more than limit, and no next_cursor.
LastPage ==
    /\ walk.pc = "open"
    /\ Cardinality(Selected) <= PageSize
    /\ walk' = [walk EXCEPT !.pc = "done",
                            !.listed = @ \cup Selected,
                            !.twice = @ \cup (Selected \cap walk.listed)]
    /\ UNCHANGED <<rows, clock>>

\* What happens to the rows.  Bound: the model ends with the walk.
Change(r) ==
    /\ walk.pc # "done"
    /\ \/ \E p \in Places : Begin(r, p)
       \/ Stamp(r) \/ Commit(r) \/ RollbackRow(r)
       \/ (\E to \in {"hidden", "gone"} : Leave(r, to))
       \/ Return(r)

ListingNext ==
    \/ \E r \in Rows : Change(r)
    \/ \E asc \in BOOLEAN, scope \in SUBSET Places : StartWalk(asc, scope)
    \/ \E items \in SUBSET Rows, last \in Rows : FullPage(items, last)
    \/ LastPage

ListingSpec == ListingInit /\ [][ListingNext]_listingVars

-----------------------------------------------------------------------------
Written == {"visible", "hidden", "again", "gone"}

RowStates ==
    {Unused}
    \cup [state : {"begun"}, place : Places]
    \cup [state : {"stamped"} \cup Written, place : Places, at : Nat]

Walks ==
    {NoWalk}
    \cup [pc : {"open", "done"}, asc : BOOLEAN, scope : SUBSET Places,
          cursor : {NoCursor} \cup [at : Nat, id : Rows],
          listed : SUBSET Rows, twice : SUBSET Rows, stayed : SUBSET Rows]

\* The variables hold values of their types.
ListingTypeOK ==
    /\ rows \in [Rows -> RowStates]
    /\ clock \in Nat
    /\ walk \in Walks

\* When a walk ends, every row that was there throughout has been on one of its
\* pages, and no row on two.
WalkIsComplete ==
    walk.pc # "none" =>
        /\ walk.twice = {}
        /\ walk.pc = "done" => walk.stayed \subseteq walk.listed

\* A row that appears behind what a walk in ascending order has listed, so that
\* the walk never lists it, is stamped before a listed row of another project:
\* the issues of one project appear in the order of their stamps.  (Rows that
\* an edit has brought back are left aside.)
LateOnlyAcrossProjects ==
    walk.pc # "none" /\ walk.asc =>
        \A r \in InState({"visible"}) \ walk.listed, s \in walk.listed :
            rows[r].place \in walk.scope /\ Precedes(Key(r), Key(s)) =>
                \E x \in walk.listed :
                    rows[x].place # rows[r].place /\ Precedes(Key(r), Key(x))
=============================================================================
