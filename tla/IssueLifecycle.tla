--------------------------- MODULE IssueLifecycle ---------------------------
(***************************************************************************)
(* What the requests about one issue promise together: each makes its      *)
(* change in one piece, to the very version that its client had seen, or   *)
(* none at all; it assigns only somebody who was a member when it looked;  *)
(* and once the issue is archived, no more of them begin.                  *)
(***************************************************************************)
EXTENDS Integers

CONSTANTS
    Requests, People, Nobody,
    TRANSITIONS,  \* the statuses that may follow each status
    ClientsGuess, \* TRUE: the versions that clients send mean nothing
    MaxVersion

VARIABLES status, version, assignee, archived,
    members,      \* the people who may be assigned now
    sent,         \* sent[q]: the version the client of q sent; 0: none, or q has ended
    chosen        \* chosen[q]: whom q may assign, nobody but one who could be when it looked

vars == <<status, version, assignee, archived, members, sent, chosen>>

Init ==
    /\ status = "backlog" /\ version = 1 /\ assignee = Nobody /\ ~archived
    /\ members \in SUBSET People
    /\ sent = [q \in Requests |-> 0]
    /\ chosen = [q \in Requests |-> {}]

Choose(q, u) ==
    /\ sent[q] = 0 /\ chosen[q] = {}
    /\ u \in members \cup {Nobody}
    /\ chosen' = [chosen EXCEPT ![q] = {u}]
    /\ UNCHANGED <<status, version, assignee, archived, members, sent>>

Begin(q, v) ==
    /\ ~archived /\ sent[q] = 0
    /\ ClientsGuess \/ v <= version
    /\ sent' = [sent EXCEPT ![q] = v]
    /\ UNCHANGED <<status, version, assignee, archived, members, chosen>>

End(q) ==
    /\ sent[q] # 0 \/ chosen[q] # {}
    /\ sent' = [sent EXCEPT ![q] = 0]
    /\ chosen' = [chosen EXCEPT ![q] = {}]

\* The request fails, or changes nothing.
GiveUp(q) == End(q) /\ UNCHANGED <<status, version, assignee, archived, members>>

\* The one change of the request: to the text, the status or the assignee.
Change(q) ==
    /\ End(q)
    /\ sent[q] = version
    /\ version' = version + 1
    /\ \/ UNCHANGED <<status, assignee>>
       \/ (ClientsGuess \/ status' \in TRANSITIONS[status]) /\ UNCHANGED assignee
       \/ assignee' \in chosen[q] /\ UNCHANGED status
    /\ UNCHANGED <<archived, members>>

Archive ==
    /\ ~archived /\ archived'
    /\ UNCHANGED <<status, version, assignee, members, sent, chosen>>

ComeOrGo ==
    /\ members' \in SUBSET People
    /\ UNCHANGED <<status, version, assignee, archived, sent, chosen>>

Next ==
    \/ Archive \/ ComeOrGo
    \/ \E q \in Requests :
           \/ \E u \in People \cup {Nobody} : Choose(q, u)
           \/ \E v \in 1 .. MaxVersion : Begin(q, v)
           \/ GiveUp(q) \/ Change(q)

Spec == Init /\ [][Next]_vars
=============================================================================
