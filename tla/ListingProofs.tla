--------------------------- MODULE ListingProofs ----------------------------
(***************************************************************************)
(* A walk through the pages lists what stays there exactly once, and in    *)
(* ascending order misses a late issue only because of another project's:  *)
(* for any number of rows, projects and threads and any page size.         *)
(*                                                                         *)
(* The invariant says of the rows that the creations of a project are      *)
(* stamped and committed in the same order (RowsInv), and of the walk that *)
(* everything listed is at or before the cursor and everything that has    *)
(* stayed and is not listed after it (WalkInv).                            *)
(***************************************************************************)
EXTENDS Listing, TLAPS

USE ListingAssumption

IsWritten(r) == rows[r].state \in Written

OneOpen ==
    \A r, s \in Open :
        rows[r].place = rows[s].place /\ rows[r].place \in Projects => r = s

Past ==
    \A r \in Rows :
        /\ IsWritten(r) => rows[r].at < clock
        /\ rows[r].state = "stamped" => rows[r].at <= clock

StampOrder ==
    \A r, s \in Rows :
        /\ rows[r].state = "stamped"
        /\ IsWritten(s)
        /\ rows[s].place = rows[r].place
        /\ rows[r].place \in Projects
        => rows[s].at < rows[r].at

RowsInv == OneOpen /\ Past /\ StampOrder

\* Everything listed is at or before the cursor, which is the key of a listed
\* row.
CursorIsLast ==
    IF walk.cursor = NoCursor
    THEN walk.listed = {}
    ELSE \E c \in walk.listed :
             /\ walk.cursor = Key(c)
             /\ \A s \in walk.listed \ {c} : Follows(walk.cursor, Key(s))

InScope ==
    /\ walk.asc => walk.scope \subseteq Projects
    /\ \A s \in walk.listed : IsWritten(s) /\ rows[s].place \in walk.scope
    /\ walk.stayed \subseteq {r \in Shown : rows[r].place \in walk.scope}

StillToCome ==
    \A r \in walk.stayed \ walk.listed :
        walk.cursor # NoCursor => Follows(Key(r), walk.cursor)

WalkInv ==
    walk.pc # "none" =>
        /\ InScope
        /\ walk.pc = "open" => CursorIsLast /\ StillToCome

ListingInv ==
    ListingTypeOK /\ RowsInv /\ WalkInv /\ WalkIsComplete /\ LateOnlyAcrossProjects

-----------------------------------------------------------------------------
(* The order of keys *)

Keys == [at : Nat, id : Rows]

\* Keys are totally ordered.
LEMMA KeyOrder ==
    /\ \A k \in Keys : ~Precedes(k, k)
    /\ \A k, m \in Keys : k # m => Precedes(k, m) \/ Precedes(m, k)
    /\ \A k, m \in Keys : ~(Precedes(k, m) /\ Precedes(m, k))
    /\ \A k, m, n \in Keys : Precedes(k, m) /\ Precedes(m, n) => Precedes(k, n)
<1>1. \A k, m \in Keys : k.at = m.at /\ k.id = m.id => k = m
  BY DEF Keys
<1>2. ASSUME NEW k \in Keys PROVE k.at \in Int /\ k.id \in Int
  <2>1. k.at \in Nat /\ k.id \in Rows
    BY DEF Keys
  <2>2. k.id \in Int
    BY <2>1, ListingAssumption, Zenon
  <2> QED BY <2>1, <2>2
<1>3. \A k \in Keys : ~Precedes(k, k)
  BY <1>2 DEF Precedes
<1>4. \A k, m \in Keys : k # m => Precedes(k, m) \/ Precedes(m, k)
  BY <1>1, <1>2 DEF Precedes
<1>5. \A k, m \in Keys : ~(Precedes(k, m) /\ Precedes(m, k))
  BY <1>2 DEF Precedes
<1>6. \A k, m, n \in Keys : Precedes(k, m) /\ Precedes(m, n) => Precedes(k, n)
  BY <1>2 DEF Precedes
<1> QED BY <1>3, <1>4, <1>5, <1>6

\* So they are in the direction of a walk.
LEMMA FollowsOrder ==
    /\ \A k \in Keys : ~Follows(k, k)
    /\ \A k, m \in Keys : k # m => Follows(k, m) \/ Follows(m, k)
    /\ \A k, m \in Keys : ~(Follows(k, m) /\ Follows(m, k))
    /\ \A k, m, n \in Keys : Follows(m, k) /\ Follows(n, m) => Follows(n, k)
BY KeyOrder DEF Follows

\* A row has the fields of its state.
LEMMA RowFields ==
    ASSUME ListingTypeOK, NEW r \in Rows
    PROVE  /\ rows[r].state = "begun" => rows[r] \in [state : {"begun"}, place : Places]
           /\ rows[r].state \in {"stamped"} \cup Written =>
                  /\ rows[r] \in [state : {"stamped"} \cup Written, place : Places, at : Nat]
                  /\ rows[r].place \in Places
                  /\ rows[r].at \in Nat
                  /\ Key(r) \in Keys
                  /\ Key(r) # NoCursor
<1>1. rows[r] \in RowStates
  BY DEF ListingTypeOK
<1>2. rows[r].state = "begun" => rows[r] \in [state : {"begun"}, place : Places]
  BY <1>1 DEF RowStates, Unused, Written
<1>3. ASSUME rows[r].state \in {"stamped"} \cup Written
      PROVE  rows[r] \in [state : {"stamped"} \cup Written, place : Places, at : Nat]
  BY <1>1, <1>3 DEF RowStates, Unused, Written
<1>4. ASSUME rows[r].state \in {"stamped"} \cup Written
      PROVE  /\ rows[r].place \in Places
             /\ rows[r].at \in Nat
             /\ Key(r) \in Keys
             /\ Key(r) # NoCursor
  <2>1. rows[r].place \in Places /\ rows[r].at \in Nat
    BY <1>3, <1>4
  <2>2. Key(r) \in Keys
    BY <2>1 DEF Key, Keys
  <2> QED BY <2>1, <2>2 DEF Keys
<1> QED BY <1>2, <1>3, <1>4

\* Different rows have different keys.
LEMMA KeysDiffer ==
    ASSUME NEW r, NEW s, r # s PROVE Key(r) # Key(s)
BY DEF Key

\* A walk that has begun has the fields of one.
LEMMA WalkFields ==
    ASSUME ListingTypeOK, walk.pc # "none"
    PROVE  /\ walk \in [pc : {"open", "done"}, asc : BOOLEAN, scope : SUBSET Places,
                        cursor : {NoCursor} \cup [at : Nat, id : Rows],
                        listed : SUBSET Rows, twice : SUBSET Rows, stayed : SUBSET Rows]
           /\ walk.listed \subseteq Rows /\ walk.twice \subseteq Rows
           /\ walk.stayed \subseteq Rows
           /\ walk.cursor # NoCursor => walk.cursor \in Keys
<1>1. walk \in [pc : {"open", "done"}, asc : BOOLEAN, scope : SUBSET Places,
                cursor : {NoCursor} \cup [at : Nat, id : Rows],
                listed : SUBSET Rows, twice : SUBSET Rows, stayed : SUBSET Rows]
  BY DEF ListingTypeOK, Walks, NoWalk
<1> QED BY <1>1 DEF Keys

-----------------------------------------------------------------------------
(* Steps of the rows *)

\* The invariant holds at first.
LEMMA ListingInitInv == ListingInit => ListingInv
<1> SUFFICES ASSUME ListingInit PROVE ListingInv
  OBVIOUS
<1>1. \A r \in Rows : rows[r] = Unused /\ rows[r].state = "unused"
  BY DEF ListingInit, Unused
<1>2. walk = NoWalk /\ walk.pc = "none"
  BY DEF ListingInit, NoWalk
<1>3. ListingTypeOK
  BY <1>2 DEF ListingInit, ListingTypeOK, RowStates, Walks
<1>4. RowsInv
  BY <1>1 DEF RowsInv, OneOpen, Past, StampOrder, Open, InState, IsWritten, Written
<1> QED BY <1>2, <1>3, <1>4
        DEF ListingInv, WalkInv, WalkIsComplete, LateOnlyAcrossProjects

\* What the walk relies on is kept by every step that leaves the walk alone and
\* written rows written, with their keys and places; a row that becomes visible
\* must not be stamped before a listed row of its own project.
LEMMA WalkKept ==
    ASSUME ListingInv, UNCHANGED walk,
           \A s \in Rows : IsWritten(s) =>
               /\ IsWritten(s)'
               /\ rows'[s].at = rows[s].at
               /\ rows'[s].place = rows[s].place
               /\ s \in Shown => s \in Shown',
           \A r \in Rows : rows'[r].state = "visible" =>
               \/ rows[r].state = "visible"
               \/ /\ ~IsWritten(r)
                  /\ rows'[r].at \in Nat
                  /\ \A s \in Rows : IsWritten(s) /\ rows[s].place = rows'[r].place
                                     /\ rows[s].place \in Projects
                                     => rows[s].at < rows'[r].at
    PROVE  WalkInv' /\ WalkIsComplete' /\ LateOnlyAcrossProjects'
<1>1. CASE walk.pc = "none"
  BY <1>1 DEF WalkInv, WalkIsComplete, LateOnlyAcrossProjects
<1>2. CASE walk.pc # "none"
  <2>1. /\ walk.listed \subseteq Rows /\ walk.stayed \subseteq Rows
        /\ \A s \in walk.listed : IsWritten(s) /\ rows[s].place \in walk.scope
        /\ walk.stayed \subseteq {r \in Shown : rows[r].place \in walk.scope}
        /\ walk.asc => walk.scope \subseteq Projects
    BY <1>2, WalkFields DEF ListingInv, WalkInv, InScope
  <2>2. \A s \in Shown : IsWritten(s) /\ s \in Rows
    BY DEF Shown, InState, IsWritten, Written
  <2>3. \A s \in Rows : IsWritten(s) => Key(s)' = Key(s)
    BY DEF Key
  <2>4. InScope'
    BY <2>1, <2>2 DEF InScope
  <2>5. walk.pc = "open" => (CursorIsLast /\ StillToCome)'
    <3> SUFFICES ASSUME walk.pc = "open" PROVE CursorIsLast' /\ StillToCome'
      OBVIOUS
    <3>1. CursorIsLast /\ StillToCome
      BY <1>2 DEF ListingInv, WalkInv
    <3>2. \A k, m : Follows(k, m)' = Follows(k, m)
      BY DEF Follows
    <3>3. CursorIsLast'
      <4>1. CASE walk.cursor = NoCursor
        BY <3>1, <4>1 DEF CursorIsLast
      <4>2. CASE walk.cursor # NoCursor
        <5>1. PICK c \in walk.listed :
                  /\ walk.cursor = Key(c)
                  /\ \A s \in walk.listed \ {c} : Follows(walk.cursor, Key(s))
          BY <3>1, <4>2 DEF CursorIsLast
        <5>2. walk'.cursor = Key(c)'
          BY <2>1, <2>3, <5>1
        <5>3. \A s \in walk.listed \ {c} : Follows(walk.cursor, Key(s)')
          BY <2>1, <2>3, <5>1
        <5> QED BY <4>2, <5>2, <5>3 DEF CursorIsLast, Follows
      <4> QED BY <4>1, <4>2
    <3>4. StillToCome'
      BY <2>1, <2>2, <2>3, <3>1 DEF StillToCome, Follows
    <3> QED BY <3>3, <3>4
  <2>6. WalkIsComplete'
    BY DEF ListingInv, WalkIsComplete
  <2>7. LateOnlyAcrossProjects'
    <3> SUFFICES ASSUME walk.asc,
                        NEW r \in Rows, rows'[r].state = "visible", r \notin walk.listed,
                        NEW s \in walk.listed,
                        rows'[r].place \in walk.scope, Precedes(Key(r)', Key(s)')
                 PROVE  \E x \in walk.listed :
                            /\ rows'[x].place # rows'[r].place
                            /\ Precedes(Key(r)', Key(x)')
      BY DEF LateOnlyAcrossProjects, InState
    <3>1. CASE rows[r].state = "visible"
      <4>1. IsWritten(r) /\ r \in InState({"visible"})
        BY <3>1 DEF IsWritten, Written, InState
      <4>3. rows[r].place \in walk.scope /\ Precedes(Key(r), Key(s))
        BY <2>1, <2>3, <4>1
      <4>2. PICK x \in walk.listed :
                rows[x].place # rows[r].place /\ Precedes(Key(r), Key(x))
        BY <1>2, <4>1, <4>3 DEF ListingInv, LateOnlyAcrossProjects
      <4> QED BY <2>1, <2>3, <4>1, <4>2
    <3>2. CASE rows[r].state # "visible"
      <4>1. CASE rows[s].place = rows'[r].place
        <5>1. rows[s].at < rows'[r].at
          BY <2>1, <3>2, <4>1
        <5>2. rows[s].at \in Nat /\ rows'[r].at \in Nat
          BY <2>1, <3>2, RowFields DEF ListingInv, IsWritten
        <5> QED BY <2>1, <2>3, <5>1, <5>2 DEF Precedes, Key
      <4>2. CASE rows[s].place # rows'[r].place
        BY <2>1, <4>2
      <4> QED BY <4>1, <4>2
    <3> QED BY <3>1, <3>2
  <2> QED BY <2>4, <2>5, <2>6, <2>7 DEF WalkInv
<1> QED BY <1>1, <1>2

\* A creation takes the lock of its project only when no other has it.
LEMMA BeginInv ==
    ASSUME ListingInv, NEW r \in Rows, NEW p \in Places, Begin(r, p)
    PROVE  ListingInv'
<1> DEFINE new == [state |-> "begun", place |-> p]
<1>1. /\ \A s \in Rows : rows'[s] = IF s = r THEN new ELSE rows[s]
      /\ rows' \in [Rows -> RowStates]
      /\ UNCHANGED <<clock, walk>>
      /\ rows[r].state = "unused"
  BY DEF Begin, ListingInv, ListingTypeOK, RowStates
<1>2. new.state = "begun" /\ new.place = p
  OBVIOUS
<1> HIDE DEF new
<1>3. ListingTypeOK'
  BY <1>1 DEF ListingInv, ListingTypeOK
<1>4. OneOpen'
  <2> SUFFICES ASSUME NEW s \in Rows, NEW t \in Rows, s # t,
                      rows'[s].state \in {"begun", "stamped"},
                      rows'[t].state \in {"begun", "stamped"},
                      rows'[s].place = rows'[t].place, rows'[s].place \in Projects
               PROVE  FALSE
    BY DEF OneOpen, Open, InState
  <2>1. p \in Projects => \A x \in Open : rows[x].place # p
    BY DEF Begin
  <2> QED BY <1>1, <1>2, <2>1 DEF ListingInv, RowsInv, OneOpen, Open, InState
<1>5. Past' /\ StampOrder'
  BY <1>1, <1>2 DEF ListingInv, RowsInv, Past, StampOrder, IsWritten, Written
<1>6. WalkInv' /\ WalkIsComplete' /\ LateOnlyAcrossProjects'
  BY <1>1, <1>2, WalkKept DEF IsWritten, Written, Shown, InState
<1> QED BY <1>3, <1>4, <1>5, <1>6 DEF ListingInv, RowsInv

\* The stamp is later than that of every committed row.
LEMMA StampInv ==
    ASSUME ListingInv, NEW r \in Rows, Stamp(r)
    PROVE  ListingInv'
<1> DEFINE new == [state |-> "stamped", place |-> rows[r].place, at |-> clock']
<1>0. rows[r].state = "begun" /\ rows[r].place \in Places
  BY RowFields DEF Stamp, ListingInv
<1>1. clock \in Nat /\ clock' \in Nat /\ clock <= clock'
  BY DEF Stamp, ListingInv, ListingTypeOK
<1>2. /\ \A s \in Rows : rows'[s] = IF s = r THEN new ELSE rows[s]
      /\ rows' \in [Rows -> RowStates]
      /\ UNCHANGED walk
  BY <1>0, <1>1 DEF Stamp, ListingInv, ListingTypeOK, RowStates
<1>3. new.state = "stamped" /\ new.place = rows[r].place /\ new.at = clock'
  OBVIOUS
<1> HIDE DEF new
<1>4. ListingTypeOK'
  BY <1>1, <1>2 DEF ListingInv, ListingTypeOK
<1>5. OneOpen'
  BY <1>0, <1>2, <1>3 DEF ListingInv, RowsInv, OneOpen, Open, InState
<1>6. \A s \in Rows :
          /\ IsWritten(s) => rows[s].at \in Nat /\ rows[s].at < clock
          /\ rows[s].state = "stamped" => rows[s].at \in Nat /\ rows[s].at <= clock
  BY RowFields DEF ListingInv, RowsInv, Past, IsWritten
<1>7. Past'
  BY <1>1, <1>2, <1>3, <1>6 DEF Past, IsWritten, Written
<1>8. StampOrder'
  <2> SUFFICES ASSUME NEW x \in Rows, NEW s \in Rows,
                      rows'[x].state = "stamped", IsWritten(s)',
                      rows'[s].place = rows'[x].place, rows'[x].place \in Projects
               PROVE  rows'[s].at < rows'[x].at
    BY DEF StampOrder
  <2>1. s # r /\ IsWritten(s) /\ rows'[s] = rows[s]
    BY <1>2, <1>3 DEF IsWritten, Written
  <2>2. CASE x = r
    <3>1. rows'[x].at = clock'
      BY <1>2, <1>3, <2>2
    <3>2. rows[s].at \in Nat /\ rows[s].at < clock
      BY <1>6, <2>1
    <3> QED BY <1>1, <2>1, <3>1, <3>2
  <2>3. CASE x # r
    BY <1>2, <2>1, <2>3 DEF ListingInv, RowsInv, StampOrder
  <2> QED BY <2>2, <2>3
<1>9. WalkInv' /\ WalkIsComplete' /\ LateOnlyAcrossProjects'
  BY <1>0, <1>2, <1>3, WalkKept DEF IsWritten, Written, Shown, InState
<1> QED BY <1>4, <1>5, <1>7, <1>8, <1>9 DEF ListingInv, RowsInv

\* The commit: the row's stamp is the latest of its project.
LEMMA CommitInv ==
    ASSUME ListingInv, NEW r \in Rows, Commit(r)
    PROVE  ListingInv'
<1>0. /\ rows[r].state = "stamped" /\ rows[r].place \in Places /\ rows[r].at \in Nat
      /\ rows[r] \in [state : {"stamped"} \cup Written, place : Places, at : Nat]
      /\ rows[r].at <= clock
  BY RowFields DEF Commit, ListingInv, RowsInv, Past
<1>1. clock \in Nat /\ clock' \in Nat /\ clock <= clock' /\ rows[r].at < clock'
  BY <1>0 DEF Commit, ListingInv, ListingTypeOK
<1>2. /\ \A s \in Rows \ {r} : rows'[s] = rows[s]
      /\ rows'[r].state = "visible"
      /\ rows'[r].place = rows[r].place
      /\ rows'[r].at = rows[r].at
      /\ rows' \in [Rows -> RowStates]
      /\ UNCHANGED walk
  <2>1. rows' = [rows EXCEPT ![r] = [rows[r] EXCEPT !.state = "visible"]]
    BY DEF Commit
  <2>2. [rows[r] EXCEPT !.state = "visible"] \in
            [state : {"stamped"} \cup Written, place : Places, at : Nat]
    BY <1>0 DEF Written
  <2>3. rows' \in [Rows -> RowStates]
    BY <2>1, <2>2 DEF ListingInv, ListingTypeOK, RowStates
  <2>4. rows'[r] = [rows[r] EXCEPT !.state = "visible"]
    BY <2>1 DEF ListingInv, ListingTypeOK
  <2>5. /\ rows'[r].state = "visible"
        /\ rows'[r].place = rows[r].place
        /\ rows'[r].at = rows[r].at
    BY <1>0, <2>4
  <2> QED BY <2>1, <2>3, <2>5 DEF Commit, ListingInv, ListingTypeOK
<1>3. ListingTypeOK'
  BY <1>1, <1>2 DEF ListingInv, ListingTypeOK
<1>4. OneOpen'
  <2>1. \A s \in Open' : s \in Open /\ rows'[s] = rows[s]
    BY <1>2 DEF Open, InState
  <2> QED BY <2>1 DEF ListingInv, RowsInv, OneOpen
<1>5. \A s \in Rows :
          /\ IsWritten(s) => rows[s].at \in Nat /\ rows[s].at < clock
          /\ rows[s].state = "stamped" => rows[s].at \in Nat /\ rows[s].at <= clock
  BY RowFields DEF ListingInv, RowsInv, Past, IsWritten
<1>6. Past'
  BY <1>1, <1>2, <1>5 DEF Past, IsWritten, Written
<1>7. \A s \in Rows \ {r} : rows[s].state = "stamped" /\ rows[s].place \in Projects
          => rows[s].place # rows[r].place
  BY <1>0 DEF ListingInv, RowsInv, OneOpen, Open, InState
<1>8. StampOrder'
  <2> SUFFICES ASSUME NEW x \in Rows, NEW s \in Rows,
                      rows'[x].state = "stamped", IsWritten(s)',
                      rows'[s].place = rows'[x].place, rows'[x].place \in Projects
               PROVE  rows'[s].at < rows'[x].at
    BY DEF StampOrder
  <2>1. x # r /\ rows'[x] = rows[x]
    BY <1>2
  <2>2. s # r
    BY <1>2, <1>7, <2>1
  <2>3. IsWritten(s) /\ rows'[s] = rows[s]
    BY <1>2, <2>2 DEF IsWritten
  <2> QED BY <2>1, <2>3 DEF ListingInv, RowsInv, StampOrder
<1>9. WalkInv' /\ WalkIsComplete' /\ LateOnlyAcrossProjects'
  <2>1. \A s \in Rows : IsWritten(s) =>
               /\ IsWritten(s)'
               /\ rows'[s].at = rows[s].at
               /\ rows'[s].place = rows[s].place
               /\ s \in Shown => s \in Shown'
    BY <1>0, <1>2 DEF IsWritten, Written, Shown, InState
  <2>2. ~IsWritten(r)
    BY <1>0 DEF IsWritten, Written
  <2>3. \A s \in Rows : IsWritten(s) /\ rows[s].place = rows[r].place
                        /\ rows[s].place \in Projects => rows[s].at < rows[r].at
    BY <1>0 DEF ListingInv, RowsInv, StampOrder
  <2> QED BY <1>0, <1>2, <2>1, <2>2, <2>3, WalkKept
<1> QED BY <1>3, <1>4, <1>6, <1>8, <1>9 DEF ListingInv, RowsInv

\* A creation that fails leaves nothing.
LEMMA RollbackInv ==
    ASSUME ListingInv, NEW r \in Rows, RollbackRow(r)
    PROVE  ListingInv'
<1>1. /\ \A s \in Rows : rows'[s] = IF s = r THEN Unused ELSE rows[s]
      /\ rows' \in [Rows -> RowStates]
      /\ UNCHANGED <<clock, walk>>
      /\ rows[r].state \in {"begun", "stamped"}
  BY DEF RollbackRow, ListingInv, ListingTypeOK, RowStates, Open, InState
<1>2. Unused.state = "unused"
  BY DEF Unused
<1>3. ListingTypeOK'
  BY <1>1 DEF ListingInv, ListingTypeOK
<1>4. OneOpen'
  BY <1>1, <1>2 DEF ListingInv, RowsInv, OneOpen, Open, InState
<1>5. Past' /\ StampOrder'
  BY <1>1, <1>2 DEF ListingInv, RowsInv, Past, StampOrder, IsWritten, Written
<1>6. WalkInv' /\ WalkIsComplete' /\ LateOnlyAcrossProjects'
  BY <1>1, <1>2, WalkKept DEF IsWritten, Written, Shown, InState
<1> QED BY <1>3, <1>4, <1>5, <1>6 DEF ListingInv, RowsInv

\* Leaving a filter and coming back into it keep keys and places.
LEMMA EditInv ==
    ASSUME ListingInv, NEW r \in Rows, NEW to \in {"hidden", "gone"},
           Leave(r, to) \/ Return(r)
    PROVE  ListingInv'
<1>0. /\ IsWritten(r)
      /\ rows[r] \in [state : {"stamped"} \cup Written, place : Places, at : Nat]
  BY RowFields DEF Leave, Return, Shown, InState, IsWritten, Written, ListingInv
<1>1. /\ \A s \in Rows \ {r} : rows'[s] = rows[s]
      /\ rows'[r].state \in {"hidden", "gone", "again"}
      /\ rows'[r].place = rows[r].place
      /\ rows'[r].at = rows[r].at
      /\ rows' \in [Rows -> RowStates]
      /\ clock' = clock
  <2>1. PICK st \in {"hidden", "gone", "again"} :
            rows' = [rows EXCEPT ![r] = [rows[r] EXCEPT !.state = st]]
    BY DEF Leave, Return
  <2>2. [rows[r] EXCEPT !.state = st] \in
            [state : {"stamped"} \cup Written, place : Places, at : Nat]
    BY <1>0 DEF Written
  <2>3. rows'[r] = [rows[r] EXCEPT !.state = st]
    BY <2>1 DEF ListingInv, ListingTypeOK
  <2>4. rows' \in [Rows -> RowStates]
    BY <2>1, <2>2 DEF ListingInv, ListingTypeOK, RowStates
  <2> QED BY <1>0, <2>1, <2>3, <2>4 DEF Leave, Return, ListingInv, ListingTypeOK
<1>2. RowsInv'
  <2>1. \A s \in Open' : s \in Open /\ rows'[s] = rows[s]
    BY <1>1 DEF Open, InState
  <2>2. OneOpen'
    BY <2>1 DEF ListingInv, RowsInv, OneOpen
  <2>3. \A s \in Rows : /\ IsWritten(s)' <=> IsWritten(s)
                        /\ rows'[s].place = rows[s].place /\ rows'[s].at = rows[s].at
    BY <1>0, <1>1 DEF IsWritten, Written
  <2>4. \A s \in Rows : rows'[s].state = "stamped" => rows[s].state = "stamped"
    BY <1>1
  <2>5. Past' /\ StampOrder'
    BY <1>1, <2>3, <2>4 DEF ListingInv, RowsInv, Past, StampOrder
  <2> QED BY <2>2, <2>5 DEF RowsInv
<1>3. CASE Return(r)
  <2>1. ListingTypeOK'
    BY <1>1, <1>3 DEF Return, ListingInv, ListingTypeOK
  <2>2. \A s \in Rows : IsWritten(s) =>
               /\ IsWritten(s)'
               /\ rows'[s].at = rows[s].at
               /\ rows'[s].place = rows[s].place
               /\ s \in Shown => s \in Shown'
    BY <1>0, <1>1, <1>3 DEF Return, IsWritten, Written, Shown, InState
  <2>3. WalkInv' /\ WalkIsComplete' /\ LateOnlyAcrossProjects'
    BY <1>1, <1>3, <2>2, WalkKept DEF Return
  <2> QED BY <1>2, <2>1, <2>3 DEF ListingInv
<1>4. CASE Leave(r, to)
  <2>1. walk' = [walk EXCEPT !.stayed = @ \ {r}]
    BY <1>4 DEF Leave
  <2>2. CASE walk.pc = "none"
    <3>1. walk = NoWalk
      BY <2>2 DEF ListingInv, ListingTypeOK, Walks
    <3>2. walk' = walk
      BY <2>1, <3>1 DEF NoWalk
    <3> QED BY <1>1, <1>2, <2>2, <3>2
            DEF ListingInv, ListingTypeOK, WalkInv, WalkIsComplete, LateOnlyAcrossProjects
  <2>3. CASE walk.pc # "none"
    <3>1. /\ walk'.pc = walk.pc /\ walk'.asc = walk.asc /\ walk'.scope = walk.scope
          /\ walk'.cursor = walk.cursor /\ walk'.listed = walk.listed
          /\ walk'.twice = walk.twice /\ walk'.stayed = walk.stayed \ {r}
          /\ walk' \in Walks
      BY <2>1, <2>3, WalkFields DEF ListingInv, Walks
    <3>2. ListingTypeOK'
      BY <1>1, <3>1 DEF ListingInv, ListingTypeOK
    <3>3. \A s \in Rows : IsWritten(s) =>
              IsWritten(s)' /\ Key(s)' = Key(s) /\ rows'[s].place = rows[s].place
      BY <1>0, <1>1 DEF IsWritten, Written, Key
    <3>4. /\ walk.listed \subseteq Rows /\ walk.stayed \subseteq Rows
          /\ \A s \in walk.listed : IsWritten(s) /\ rows[s].place \in walk.scope
          /\ walk.stayed \subseteq {s \in Shown : rows[s].place \in walk.scope}
          /\ walk.asc => walk.scope \subseteq Projects
      BY <2>3, WalkFields DEF ListingInv, WalkInv, InScope
    <3>5. \A s \in walk.stayed \ {r} : s \in Shown' /\ IsWritten(s)
      BY <1>1, <3>4 DEF Shown, InState, IsWritten, Written
    <3>6. InScope'
      BY <3>1, <3>3, <3>4, <3>5 DEF InScope
    <3>7. \A k, m : Follows(k, m)' = Follows(k, m)
      BY <3>1 DEF Follows
    <3>8. ASSUME walk.pc = "open" PROVE CursorIsLast'
      <4>1. CursorIsLast
        BY <2>3, <3>8 DEF ListingInv, WalkInv
      <4>2. CASE walk.cursor = NoCursor
        BY <3>1, <4>1, <4>2 DEF CursorIsLast
      <4>3. CASE walk.cursor # NoCursor
        <5>1. PICK c \in walk.listed :
                  /\ walk.cursor = Key(c)
                  /\ \A s \in walk.listed \ {c} : Follows(walk.cursor, Key(s))
          BY <4>1, <4>3 DEF CursorIsLast
        <5>2. walk'.cursor = Key(c)'
          BY <3>1, <3>3, <3>4, <5>1
        <5>3. \A s \in walk.listed \ {c} : Follows(walk'.cursor, Key(s)')
          BY <3>1, <3>3, <3>4, <5>1
        <5> QED BY <3>1, <3>7, <4>3, <5>2, <5>3 DEF CursorIsLast, Follows
      <4> QED BY <4>2, <4>3
    <3>9. ASSUME walk.pc = "open" PROVE StillToCome'
      <4>1. StillToCome
        BY <2>3, <3>9 DEF ListingInv, WalkInv
      <4> SUFFICES ASSUME NEW s \in walk.stayed \ {r}, s \notin walk.listed,
                          walk.cursor # NoCursor
                   PROVE  Follows(Key(s), walk.cursor)'
        BY <3>1 DEF StillToCome
      <4>2. Follows(Key(s), walk.cursor)
        BY <4>1 DEF StillToCome
      <4>3. Key(s)' = Key(s)
        BY <3>3, <3>4, <3>5
      <4> QED BY <3>1, <4>2, <4>3 DEF Follows
    <3>10. WalkIsComplete'
      BY <2>3, <3>1 DEF ListingInv, WalkIsComplete
    <3>11. LateOnlyAcrossProjects'
      <4> SUFFICES ASSUME walk.asc,
                          NEW s \in Rows, rows'[s].state = "visible", s \notin walk.listed,
                          NEW t \in walk.listed,
                          rows'[s].place \in walk.scope, Precedes(Key(s)', Key(t)')
                   PROVE  \E x \in walk.listed :
                              /\ rows'[x].place # rows'[s].place
                              /\ Precedes(Key(s)', Key(x)')
        BY <3>1 DEF LateOnlyAcrossProjects, InState
      <4>1. s \in InState({"visible"}) /\ IsWritten(s)
        BY <1>1 DEF InState, IsWritten, Written
      <4>2. rows[s].place \in walk.scope /\ Precedes(Key(s), Key(t))
        BY <3>3, <3>4, <4>1
      <4>3. PICK x \in walk.listed :
                rows[x].place # rows[s].place /\ Precedes(Key(s), Key(x))
        BY <2>3, <4>1, <4>2 DEF ListingInv, LateOnlyAcrossProjects
      <4> QED BY <3>3, <3>4, <4>1, <4>3
    <3> QED BY <1>2, <3>1, <3>2, <3>6, <3>8, <3>9, <3>10, <3>11 DEF ListingInv, WalkInv
  <2> QED BY <2>2, <2>3
<1> QED BY <1>3, <1>4

-----------------------------------------------------------------------------
(* Steps of the walk *)

\* A walk begins with nothing listed.
LEMMA StartWalkInv ==
    ASSUME ListingInv, NEW asc \in BOOLEAN, NEW scope \in SUBSET Places,
           StartWalk(asc, scope)
    PROVE  ListingInv'
<1> DEFINE new == [pc |-> "open", asc |-> asc, scope |-> scope, cursor |-> NoCursor,
                   listed |-> {}, twice |-> {},
                   stayed |-> {r \in Shown : rows[r].place \in scope}]
<1>1. walk' = new /\ UNCHANGED <<rows, clock>>
  BY DEF StartWalk
<1>2. /\ new.pc = "open" /\ new.asc = asc /\ new.scope = scope /\ new.cursor = NoCursor
      /\ new.listed = {} /\ new.twice = {}
      /\ new.stayed = {r \in Shown : rows[r].place \in scope}
      /\ new \in Walks
  BY DEF Walks, Shown, InState
<1> HIDE DEF new
<1>3. ListingTypeOK'
  BY <1>1, <1>2 DEF ListingInv, ListingTypeOK
<1>4. RowsInv'
  BY <1>1 DEF ListingInv, RowsInv, OneOpen, Past, StampOrder, Open, InState, IsWritten
<1>5. asc => scope \subseteq Projects
  BY DEF StartWalk, WalkMayStart
<1>6. Shown' = Shown
  BY <1>1 DEF Shown, InState
<1>7. WalkInv'
  BY <1>1, <1>2, <1>5, <1>6 DEF WalkInv, InScope, CursorIsLast, StillToCome
<1>8. WalkIsComplete' /\ LateOnlyAcrossProjects'
  BY <1>1, <1>2 DEF WalkIsComplete, LateOnlyAcrossProjects
<1> QED BY <1>3, <1>4, <1>7, <1>8 DEF ListingInv

\* What is on a page follows what has been listed.
LEMMA SelectedFollows ==
    ASSUME ListingInv, walk.pc = "open"
    PROVE  /\ Selected \subseteq Shown
           /\ Selected \subseteq Rows
           /\ \A i \in Selected : /\ IsWritten(i) /\ Key(i) \in Keys /\ Key(i) # NoCursor
                                  /\ rows[i].place \in walk.scope
           /\ \A i \in Selected, s \in walk.listed : Follows(Key(i), Key(s))
           /\ Selected \cap walk.listed = {}
<1>1. walk.pc # "none"
  OBVIOUS
<1>2. \A s \in Rows : IsWritten(s) => Key(s) \in Keys /\ Key(s) # NoCursor
  BY RowFields DEF ListingInv, IsWritten
<1>3. /\ Selected \subseteq Shown /\ Selected \subseteq Rows
      /\ \A i \in Selected : IsWritten(i) /\ rows[i].place \in walk.scope
  BY DEF Selected, Shown, InState, IsWritten, Written
<1>4. CursorIsLast /\ InScope
  BY <1>1 DEF ListingInv, WalkInv
<1>5. walk.listed \subseteq Rows
  BY <1>1, WalkFields DEF ListingInv
<1>6. ASSUME NEW i \in Selected, NEW s \in walk.listed PROVE Follows(Key(i), Key(s))
  <2>1. PICK c \in walk.listed :
            /\ walk.cursor = Key(c)
            /\ \A t \in walk.listed \ {c} : Follows(walk.cursor, Key(t))
    BY <1>4 DEF CursorIsLast
  <2>2. Key(c) \in Keys /\ Key(s) \in Keys /\ Key(i) \in Keys /\ Key(c) # NoCursor
    BY <1>2, <1>3, <1>4, <1>5 DEF InScope
  <2>3. Follows(Key(i), Key(c))
    BY <2>1, <2>2 DEF Selected
  <2>4. s = c \/ Follows(Key(c), Key(s))
    BY <2>1
  <2> QED BY <2>2, <2>3, <2>4, FollowsOrder
<1>7. Selected \cap walk.listed = {}
  BY <1>2, <1>3, <1>6, FollowsOrder
<1> QED BY <1>2, <1>3, <1>6, <1>7

\* A row the walk has left behind is before its cursor, and so before a listed
\* row of another project.
LEMMA LeftBehind ==
    ASSUME ListingInv, walk.pc = "open", walk.asc,
           NEW r \in InState({"visible"}) \ walk.listed,
           rows[r].place \in walk.scope, r \notin Selected
    PROVE  \E x \in walk.listed :
               rows[x].place # rows[r].place /\ Precedes(Key(r), Key(x))
<1>1. r \in Shown /\ r \in Rows /\ IsWritten(r)
  BY DEF Shown, InState, IsWritten, Written
<1>2. walk.cursor # NoCursor /\ ~Follows(Key(r), walk.cursor)
  BY <1>1 DEF Selected
<1>3. CursorIsLast /\ InScope /\ walk.listed \subseteq Rows
  BY WalkFields DEF ListingInv, WalkInv
<1>4. PICK c \in walk.listed : walk.cursor = Key(c)
  BY <1>2, <1>3 DEF CursorIsLast
<1>5. Key(r) \in Keys /\ Key(c) \in Keys /\ Key(r) # Key(c)
  BY <1>1, <1>3, RowFields, KeysDiffer DEF ListingInv, InScope, IsWritten
<1>6. Precedes(Key(r), Key(c))
  BY <1>2, <1>4, <1>5, KeyOrder DEF Follows
<1> QED BY <1>6 DEF ListingInv, LateOnlyAcrossProjects

\* Both kinds of pages list rows that come before the rest of the query.
LEMMA PageInv ==
    ASSUME ListingInv, walk.pc = "open", NEW items \in SUBSET Selected,
           \A i \in items, r \in Selected \ items : Follows(Key(r), Key(i)),
           UNCHANGED <<rows, clock>>,
           walk'.asc = walk.asc, walk'.scope = walk.scope, walk'.stayed = walk.stayed,
           walk'.listed = walk.listed \cup items,
           walk'.twice = walk.twice \cup (items \cap walk.listed),
           walk'.pc = "done" => items = Selected
    PROVE  RowsInv' /\ InScope' /\ WalkIsComplete' /\ LateOnlyAcrossProjects'
<1>1. RowsInv'
  BY DEF ListingInv, RowsInv, OneOpen, Past, StampOrder, Open, InState, IsWritten
<1>2. Shown' = Shown
  BY DEF Shown, InState
<1>3. InScope
  BY DEF ListingInv, WalkInv
<1>4. InScope'
  BY <1>2, <1>3, SelectedFollows DEF InScope, IsWritten
<1>5. WalkIsComplete'
  <2>1. walk'.twice = {}
    BY SelectedFollows DEF ListingInv, WalkIsComplete
  <2>2. ASSUME walk'.pc = "done" PROVE walk.stayed \subseteq walk.listed \cup Selected
    BY <1>3 DEF ListingInv, WalkInv, InScope, StillToCome, Selected
  <2> QED BY <2>1, <2>2 DEF WalkIsComplete
<1>6. LateOnlyAcrossProjects'
  <2> SUFFICES ASSUME walk.asc,
                      NEW r \in InState({"visible"}), r \notin walk.listed \cup items,
                      NEW s \in walk.listed \cup items,
                      rows[r].place \in walk.scope, Precedes(Key(r), Key(s))
               PROVE  \E x \in walk.listed \cup items :
                          rows[x].place # rows[r].place /\ Precedes(Key(r), Key(x))
    BY DEF LateOnlyAcrossProjects, InState, Key, Precedes
  <2>1. CASE r \notin Selected
    BY <2>1, LeftBehind
  <2>2. CASE r \in Selected
    <3>1. Follows(Key(r), Key(s))
      BY <2>2, SelectedFollows
    <3>2. Precedes(Key(s), Key(r))
      BY <3>1 DEF Follows
    <3>3. Key(r) \in Keys /\ Key(s) \in Keys
      BY <1>3, <2>2, SelectedFollows, RowFields, WalkFields
      DEF ListingInv, InScope, IsWritten
    <3> QED BY <3>2, <3>3, KeyOrder
  <2> QED BY <2>1, <2>2
<1> QED BY <1>1, <1>4, <1>5, <1>6

\* A page with a cursor keeps the invariant.
LEMMA FullPageInv ==
    ASSUME ListingInv, NEW items \in SUBSET Rows, NEW last \in Rows, FullPage(items, last)
    PROVE  ListingInv'
<1>0. walk.pc = "open" /\ items \in SUBSET Selected /\ last \in items
  BY DEF FullPage, LastOf
<1>1. /\ walk'.pc = "open" /\ walk'.asc = walk.asc /\ walk'.scope = walk.scope
      /\ walk'.stayed = walk.stayed /\ walk'.cursor = Key(last)
      /\ walk'.listed = walk.listed \cup items
      /\ walk'.twice = walk.twice \cup (items \cap walk.listed)
      /\ walk' \in Walks
      /\ UNCHANGED <<rows, clock>>
  <2>1. Key(last) \in [at : Nat, id : Rows]
    BY <1>0, SelectedFollows DEF Keys
  <2> QED BY <1>0, <2>1, WalkFields DEF FullPage, ListingInv, Walks
<1>2. ListingTypeOK'
  BY <1>1 DEF ListingInv, ListingTypeOK
<1>3. RowsInv' /\ InScope' /\ WalkIsComplete' /\ LateOnlyAcrossProjects'
  BY <1>0, <1>1, PageInv DEF FullPage
<1>4. \A s \in (walk.listed \cup items) \ {last} : Follows(Key(last), Key(s))
  BY <1>0, SelectedFollows DEF FullPage, LastOf
<1>5. Key(last) # NoCursor
  BY <1>0, SelectedFollows
<1>6. CursorIsLast'
  <2>1. \A s \in walk'.listed \ {last} : Follows(Key(last), Key(s))'
    BY <1>1, <1>4 DEF Follows, Key, Precedes
  <2> QED BY <1>0, <1>1, <1>5, <2>1 DEF CursorIsLast, Key
<1>7. StillToCome'
  <2> SUFFICES ASSUME NEW r \in walk.stayed, r \notin walk.listed \cup items
               PROVE  Follows(Key(r), Key(last))
    BY <1>1 DEF StillToCome, Follows, Key, Precedes
  <2>1. r \in Selected
    BY <1>0 DEF ListingInv, WalkInv, InScope, StillToCome, Selected
  <2> QED BY <1>0, <2>1 DEF FullPage
<1> QED BY <1>1, <1>2, <1>3, <1>6, <1>7 DEF ListingInv, WalkInv

\* The last page keeps the invariant.
LEMMA LastPageInv ==
    ASSUME ListingInv, LastPage
    PROVE  ListingInv'
<1>0. walk.pc = "open"
  BY DEF LastPage
<1>1. /\ walk'.pc = "done" /\ walk'.asc = walk.asc /\ walk'.scope = walk.scope
      /\ walk'.stayed = walk.stayed /\ walk'.cursor = walk.cursor
      /\ walk'.listed = walk.listed \cup Selected
      /\ walk'.twice = walk.twice \cup (Selected \cap walk.listed)
      /\ walk' \in Walks
      /\ UNCHANGED <<rows, clock>>
  BY <1>0, WalkFields, SelectedFollows DEF LastPage, ListingInv, Walks
<1>2. ListingTypeOK'
  BY <1>1 DEF ListingInv, ListingTypeOK
<1>3. RowsInv' /\ InScope' /\ WalkIsComplete' /\ LateOnlyAcrossProjects'
  BY <1>0, <1>1, PageInv
<1> QED BY <1>1, <1>2, <1>3 DEF ListingInv, WalkInv

-----------------------------------------------------------------------------
(* The theorems *)

\* The invariant of Listing.
THEOREM ListingInvariant == ListingSpec => []ListingInv
<1>1. ListingInv /\ [ListingNext]_listingVars => ListingInv'
  <2> SUFFICES ASSUME ListingInv, [ListingNext]_listingVars
               PROVE  ListingInv'
    OBVIOUS
  <2>1. CASE UNCHANGED listingVars
    <3>1. \A k, m : Follows(k, m)' = Follows(k, m)
      BY <2>1 DEF Follows, listingVars
    <3>2. ListingTypeOK' /\ RowsInv'
      BY <2>1 DEF listingVars, ListingInv, ListingTypeOK, RowsInv, OneOpen, Past,
                  StampOrder, Open, InState, IsWritten
    <3>3. WalkInv' /\ WalkIsComplete' /\ LateOnlyAcrossProjects'
      <4>1. UNCHANGED <<rows, walk>>
        BY <2>1 DEF listingVars
      <4> QED BY <4>1, WalkKept DEF IsWritten, Shown, InState
    <3> QED BY <3>2, <3>3 DEF ListingInv
  <2>2. ASSUME NEW r \in Rows, Change(r) PROVE ListingInv'
    BY <2>2, BeginInv, StampInv, CommitInv, RollbackInv, EditInv DEF Change
  <2> QED
    BY <2>1, <2>2, StartWalkInv, FullPageInv, LastPageInv DEF ListingNext
<1>2. QED
  BY <1>1, ListingInitInv, PTL DEF ListingSpec

\* Rows, clock and walk keep their types.
THEOREM ListingTypesHold == ListingSpec => []ListingTypeOK
<1>1. ListingInv => ListingTypeOK
  BY DEF ListingInv
<1>2. QED
  BY <1>1, ListingInvariant, PTL

\* A walk that has ended has listed every row that was there throughout, and
\* none twice.
THEOREM WalksAreComplete == ListingSpec => []WalkIsComplete
<1>1. ListingInv => WalkIsComplete
  BY DEF ListingInv
<1>2. QED
  BY <1>1, ListingInvariant, PTL

\* A late issue is missed only because of another project's.
THEOREM LateRowsAreOfOtherProjects == ListingSpec => []LateOnlyAcrossProjects
<1>1. ListingInv => LateOnlyAcrossProjects
  BY DEF ListingInv
<1>2. QED
  BY <1>1, ListingInvariant, PTL
=============================================================================
