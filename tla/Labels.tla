------------------------------- MODULE Labels -------------------------------
(***************************************************************************)
(* The labels of one organization and their issues                         *)
(* (modules/labels/service.py).  A request authorises itself, reads what   *)
(* it names, and writes and commits in one statement each: the commit step *)
(* is atomic, whatever happens between the reading and it.                 *)
(*                                                                         *)
(* update_ assigns both columns of the label it has loaded.  SQLAlchemy    *)
(* writes those that differ from what was loaded, by primary key.          *)
(***************************************************************************)
EXTENDS Integers

CONSTANTS
    Clients,     \* requests in flight
    LabelIds,    \* bound: each is given out once
    LabelNames,
    Colors,
    TaggedIssues

VARIABLES
    labels,     \* labels[l]: the row of label l, NotYet or Deleted
    tags,       \* issue_labels: pairs of an issue and a label
    archived,   \* issues that get_issue does not find
    client,     \* client[q]: what request q is doing and has read
    asked,      \* history: what the last request that set label l asked for
    mixed       \* history: columns the last update_ of a label did not write and
                \* another one has changed in the meantime

labelVars == <<labels, tags, archived, client, asked, mixed>>

NotYet == [state |-> "not yet"]
Deleted == [state |-> "deleted"]
Label(name, color) == [state |-> "there", name |-> name, color |-> color]
Columns == {"name", "color"}
Present == {l \in LabelIds : labels[l].state = "there"}

AtRest == [pc |-> "rest"]

LabelsInit ==
    /\ labels = [l \in LabelIds |-> NotYet]
    /\ tags = {}
    /\ archived = {}
    /\ client = [q \in Clients |-> AtRest]
    /\ asked = labels
    /\ mixed = {}

\* Request q has read what it names and goes on to write.
Reads(q, doing) ==
    /\ client[q] = AtRest
    /\ client' = [client EXCEPT ![q] = doing]
    /\ UNCHANGED <<labels, tags, archived, asked, mixed>>

Ends(q) == client' = [client EXCEPT ![q] = AtRest]

\* uq_labels_organization_id_name.
NameTaken(l, name) == \E m \in Present \ {l} : labels[m].name = name

-----------------------------------------------------------------------------
\* create: a name that is taken is answered 409 and rolled back.
CreateLabel(l, name, color) ==
    /\ labels[l] = NotYet
    /\ ~NameTaken(l, name)
    /\ labels' = [labels EXCEPT ![l] = Label(name, color)]
    /\ asked' = [asked EXCEPT ![l] = Label(name, color)]
    /\ UNCHANGED <<tags, archived, client, mixed>>

\* update_: get.
UpdateLabelRead(q, l, name, color) ==
    /\ l \in Present
    /\ Reads(q, [pc |-> "update", label |-> l, ask |-> Label(name, color),
                 loaded |-> labels[l], overtaken |-> {}])

\* The columns an update_ has found as they are to be, and will not write.
Unwritten(doing) == {c \in Columns : doing.ask[c] = doing.loaded[c]}

\* Request q ends and changes label l to a new row, under those that have read
\* it for an update_ too.
Overtake(l, q, new) ==
    LET changed == {c \in Columns : labels[l][c] # new[c]}
    IN  client' = [p \in Clients |->
                      IF p = q THEN AtRest
                      ELSE IF client[p].pc = "update" /\ client[p].label = l
                           THEN [client[p] EXCEPT
                                     !.overtaken = @ \cup (changed \cap Unwritten(client[p]))]
                           ELSE client[p]]

\* Plausible bug: the columns are committed one after the other, and the
\* server dies in between.
FlushedName(l, loaded, ask) ==
    Label(IF ask.name # loaded.name THEN ask.name ELSE labels[l].name,
          labels[l].color)

\* The row after the columns that differ from what was loaded are written.
Flushed(l, loaded, ask) ==
    Label(IF ask.name # loaded.name THEN ask.name ELSE labels[l].name,
          IF ask.color # loaded.color THEN ask.color ELSE labels[l].color)

\* update_: the commit.  A name that is taken, or a row that is gone although a
\* column has to be written, ends the request with an unhandled error and
\* changes nothing; with no column to write there is no statement to fail.
UpdateLabelCommit(q) ==
    LET doing == client[q]
        l     == doing.label
        new   == Flushed(l, doing.loaded, doing.ask)
    IN  /\ doing.pc = "update"
        /\ IF l \in Present /\ ~NameTaken(l, new.name)
           THEN /\ labels' = [labels EXCEPT ![l] = new]
                /\ asked' = [asked EXCEPT ![l] = doing.ask]
                /\ mixed' = (mixed \ ({l} \X Columns)) \cup ({l} \X doing.overtaken)
                /\ Overtake(l, q, new)
           ELSE /\ Ends(q)
                /\ UNCHANGED <<labels, asked, mixed>>
        /\ UNCHANGED <<tags, archived>>

\* delete_: get.
DeleteLabelRead(q, l) ==
    /\ l \in Present
    /\ Reads(q, [pc |-> "delete", label |-> l])

\* delete_: the DELETE takes the issue_labels of the label with it.
DeleteLabelCommit(q) ==
    /\ client[q].pc = "delete"
    /\ labels' = [labels EXCEPT ![client[q].label] = Deleted]
    /\ tags' = {t \in tags : t[2] # client[q].label}
    /\ asked' = [asked EXCEPT ![client[q].label] = Deleted]
    /\ mixed' = mixed \ ({client[q].label} \X Columns)
    /\ Ends(q)
    /\ UNCHANGED archived

-----------------------------------------------------------------------------
\* attach and detach: get_issue and get.
TagRead(q, pc, i, l) ==
    /\ i \notin archived
    /\ l \in Present
    /\ Reads(q, [pc |-> pc, issue |-> i, label |-> l])

\* attach: INSERT ... ON CONFLICT DO NOTHING; the foreign key refuses a label
\* that has been deleted, and the error is not handled.
AttachCommit(q) ==
    /\ client[q].pc = "attach"
    /\ tags' = IF client[q].label \in Present
               THEN tags \cup {<<client[q].issue, client[q].label>>}
               ELSE tags
    /\ Ends(q)
    /\ UNCHANGED <<labels, archived, asked, mixed>>

\* detach: DELETE.
DetachCommit(q) ==
    /\ client[q].pc = "detach"
    /\ tags' = tags \ {<<client[q].issue, client[q].label>>}
    /\ Ends(q)
    /\ UNCHANGED <<labels, archived, asked, mixed>>

\* modules/issues/service.py archive: elsewhere, at any time.
ArchiveIssue(i) ==
    /\ i \notin archived
    /\ archived' = archived \cup {i}
    /\ UNCHANGED <<labels, tags, client, asked, mixed>>

\* The client or the database goes away before the commit.
Abandon(q) ==
    /\ client[q] # AtRest
    /\ Ends(q)
    /\ UNCHANGED <<labels, tags, archived, asked, mixed>>

LabelsNext ==
    \/ \E l \in LabelIds, name \in LabelNames, color \in Colors :
           \/ CreateLabel(l, name, color)
           \/ \E q \in Clients : UpdateLabelRead(q, l, name, color)
    \/ \E q \in Clients :
           \/ \E l \in LabelIds : DeleteLabelRead(q, l)
           \/ \E pc \in {"attach", "detach"}, i \in TaggedIssues, l \in LabelIds :
                  TagRead(q, pc, i, l)
           \/ UpdateLabelCommit(q) \/ DeleteLabelCommit(q)
           \/ AttachCommit(q) \/ DetachCommit(q)
           \/ Abandon(q)
    \/ \E i \in TaggedIssues : ArchiveIssue(i)

LabelsSpec == LabelsInit /\ [][LabelsNext]_labelVars

-----------------------------------------------------------------------------
There == [state : {"there"}, name : LabelNames, color : Colors]

Doing ==
    {AtRest}
    \cup [pc : {"update"}, label : LabelIds, ask : There, loaded : There,
          overtaken : SUBSET Columns]
    \cup [pc : {"delete"}, label : LabelIds]
    \cup [pc : {"attach", "detach"}, issue : TaggedIssues, label : LabelIds]

\* The variables hold values of their types; an issue carries labels that exist.
LabelsTypeOK ==
    /\ labels \in [LabelIds -> {NotYet, Deleted} \cup There]
    /\ tags \in SUBSET (TaggedIssues \X Present)
    /\ archived \in SUBSET TaggedIssues
    /\ client \in [Clients -> Doing]
    /\ asked \in [LabelIds -> {NotYet, Deleted} \cup There]
    /\ mixed \in SUBSET (LabelIds \X Columns)

\* Each column of a label is what the last request that set the label asked
\* for, with one exception: an update_ that had loaded the column as it was to
\* be wrote nothing, and another one had changed it before the commit.  So a
\* column that an update_ did write, or that nobody changed under it, is never
\* another request's, although every update_ works on what it has loaded.
WholeUnlessOvertaken ==
    \A l \in Present, c \in Columns :
        <<l, c>> \notin mixed => labels[l][c] = asked[l][c]
=============================================================================
