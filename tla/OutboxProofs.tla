---------------------------- MODULE OutboxProofs ----------------------------
(***************************************************************************)
(* Proofs about Outbox for any number of events and workers, any lease and *)
(* any limits: the lease protects its holder, a settled row is final, and  *)
(* the module implements AtLeastOnce.                                      *)
(*                                                                         *)
(* Each mail of an event is paid for by something that happened once       *)
(* (PaidFor), which bounds how often it can be repeated.                   *)
(***************************************************************************)
EXTENDS Outbox, WellFoundedInduction, TLAPS

USE OutboxAssumption

\* A batch that is not empty has an oldest event, and it is in the batch.
LEMMA OldestInBatch ==
    ASSUME NEW batch \in SUBSET Events, batch # {}
    PROVE  Oldest(batch) \in batch
<1>1. batch \subseteq Nat
  BY DEF Events
<1>2. \E e \in batch : \A f \in batch : ~(<<f, e>> \in OpToRel(<, Nat))
  BY <1>1, NatLessThanWellFounded, WFMin
<1>3. PICK e \in batch : \A f \in batch : ~(<<f, e>> \in OpToRel(<, Nat))
  BY <1>2
<1>4. \A f \in batch : e <= f
  <2> TAKE f \in batch
  <2>1. <<f, e>> \in Nat \X Nat
    BY <1>1
  <2>2. ~(f < e)
    BY <1>3, <2>1 DEF OpToRel
  <2> QED
    BY <1>1, <2>2
<1> QED
  BY <1>4 DEF Oldest

\* The delays of mark_failed are natural numbers.
LEMMA BackoffIsNat == \A n : Backoff(n) \subseteq Nat
  BY DEF Backoff

\* A claim takes only rows that the WHERE clause admits.
LEMMA BatchIsClaimable == ClaimBatch \subseteq {e \in Events : Claimable(e)}
  BY DEF ClaimBatch

-----------------------------------------------------------------------------
(* The inductive invariant.  What the rows say must agree with what the    *)
(* runs hold: a leased row is not settled (otherwise a stale finaliser     *)
(* could reopen it), a run that is about to record a delivery has mailed   *)
(* it, and two runs that hold the same event are not both within their     *)
(* leases.                                                                 *)

RowInv == \A e \in Events :
    /\ payload[e] = "none" =>
           /\ attempts[e] = 0 /\ ~failed[e] /\ ~processed[e]
           /\ lockedBy[e] = NoWorker /\ sends[e] = 0
    /\ lockedBy[e] # NoWorker => ~Settled(e)
    /\ processed[e] <=> payload[e] = "delivered"
    /\ processed[e] => sends[e] > 0 /\ ~failed[e]
    /\ failed[e] <=> attempts[e] = MaxAttempts

RunInv == \A w \in Workers :
    /\ \A e \in hand[w] : payload[e] # "none"
    /\ pc[w] = "record" => sends[Current(w)] > 0

FreshHoldersDiffer ==
    \A v, w \in Workers : v # w =>
        \A e \in hand[v] \cap hand[w] : held[v] > Lease \/ held[w] > Lease

LimitInv == LimitsEnforced => \A w \in Workers : held[w] <= TaskLimit

\* While the limits are in force, a single mail that nothing excuses is
\* recorded or is about to be.
MailInv == LimitsEnforced => \A e \in Events :
    /\ sends[e] > 1 => unconfirmed[e]
    /\ sends[e] = 1 /\ ~unconfirmed[e] =>
           \/ processed[e]
           \/ \E w \in Workers : pc[w] = "record" /\ e = Current(w)

IInv ==
    /\ TypeOK
    /\ RowInv
    /\ RunInv
    /\ LeaseProtects
    /\ FreshHoldersDiffer
    /\ LimitInv
    /\ MailInv

\* An initial state satisfies the inductive invariant.
LEMMA InitEstablishes == ASSUME Init PROVE IInv
<1>1. TypeOK
  BY DEF Init, TypeOK
<1>2. RowInv
  BY DEF Init, RowInv, Settled
<1>3. QED
  BY <1>1, <1>2 DEF Init, IInv, RunInv, LeaseProtects, FreshHoldersDiffer, LimitInv, MailInv

\* A run that is under way has a current event.
LEMMA CurrentInHand ==
    ASSUME TypeOK, NEW w \in Workers, pc[w] # "idle"
    PROVE  Current(w) \in hand[w] /\ Current(w) \in Events
<1>1. hand[w] \in SUBSET Events /\ hand[w] # {}
  BY DEF TypeOK
<1>2. QED
  BY <1>1, OldestInBatch DEF Current

\* The current event of a run depends on its own batch only.
LEMMA CurrentStable ==
    \A w \in Workers : hand'[w] = hand[w] => Current(w)' = Current(w)
  BY DEF Current

\* A new event is in nobody's hand.
LEMMA PublishStep ==
    ASSUME IInv, NEW e \in Events, Publish(e) PROVE IInv'
<1> USE DEF IInv, Publish, run, history
<1>1. TypeOK'
  BY DEF TypeOK
<1>2. RowInv'
  BY DEF TypeOK, RowInv, Settled
<1>3. RunInv'
  BY CurrentStable DEF TypeOK, RunInv
<1>4. LeaseProtects'
  BY CurrentStable DEF TypeOK, LeaseProtects
<1>5. FreshHoldersDiffer' /\ LimitInv'
  BY DEF FreshHoldersDiffer, LimitInv
<1>6. MailInv'
  BY CurrentStable DEF TypeOK, MailInv
<1> QED
  BY <1>1, <1>2, <1>3, <1>4, <1>5, <1>6

\* A claimed event was nobody's, or its lease was over.
LEMMA ClaimStep ==
    ASSUME IInv, NEW w \in Workers, Claim(w) PROVE IInv'
<1> USE DEF IInv, history
<1> DEFINE B == ClaimBatch
<1>0. B \subseteq {e \in Events : Claimable(e)}
  BY BatchIsClaimable
<1> HIDE DEF B
<1>a. /\ pc[w] = "idle" /\ hand[w] = {} /\ B # {}
      /\ lockedBy' = [e \in Events |-> IF e \in B THEN w ELSE lockedBy[e]]
      /\ age' = [e \in Events |-> IF e \in B THEN 0 ELSE age[e]]
      /\ hand' = [hand EXCEPT ![w] = B]
      /\ held' = [held EXCEPT ![w] = 0]
      /\ pc' = [pc EXCEPT ![w] = "deliver"]
      /\ UNCHANGED <<payload, processed, failed, attempts, wait, faults, sends, unconfirmed>>
  BY DEF Claim, B, TypeOK
<1>1. TypeOK'
  BY <1>0, <1>a DEF TypeOK
<1>2. RowInv'
  BY <1>0, <1>a DEF TypeOK, RowInv, Settled, Claimable
<1>c. \A v \in Workers : v # w => Current(v)' = Current(v)
  BY <1>a, CurrentStable DEF TypeOK
<1>3. RunInv'
  BY <1>0, <1>a, <1>c DEF TypeOK, RunInv, Claimable
\* An event in the hands of a run within its lease cannot be claimed.
<1>4. ASSUME NEW v \in Workers, NEW e \in hand[v] \cap B
      PROVE  held[v] > Lease
  BY <1>0, <1>4, <1>a DEF TypeOK, LeaseProtects, Claimable
<1>5. LeaseProtects'
  <2> SUFFICES ASSUME NEW v \in Workers, NEW e \in hand'[v], held'[v] <= Lease
               PROVE  \/ lockedBy'[e] = v /\ age'[e] = held'[v]
                      \/ pc'[v] = "report" /\ e = Current(v)' /\ processed'[e]
    BY DEF LeaseProtects
  <2>1. CASE v = w
    BY <2>1, <1>0, <1>a DEF TypeOK
  <2>2. CASE v # w
    <3>1. e \in hand[v] /\ held[v] <= Lease /\ e \in Events
      BY <2>2, <1>a DEF TypeOK
    <3>2. e \notin B
      BY <3>1, <1>4, <1>1 DEF TypeOK
    <3> QED
      BY <2>2, <3>1, <3>2, <1>a, <1>c DEF TypeOK, LeaseProtects
  <2> QED
    BY <2>1, <2>2
<1>6. FreshHoldersDiffer'
  BY <1>4, <1>a DEF TypeOK, FreshHoldersDiffer
<1>7. LimitInv'
  BY <1>a DEF TypeOK, LimitInv
<1>8. MailInv'
  BY <1>a, <1>c DEF TypeOK, MailInv
<1> QED
  BY <1>1, <1>2, <1>3, <1>5, <1>6, <1>7, <1>8

\* A delivery touches no row; it moves the run on to mark what it did.
LEMMA DeliverStep ==
    ASSUME IInv, NEW w \in Workers,
           Deliver(w) \/ DeliverRefused(w) \/ DeliverRaisesLate(w)
    PROVE  IInv'
<1> USE DEF IInv, row, run, history
<1> DEFINE c == Current(w)
<1>a. c \in hand[w] /\ c \in Events
  BY CurrentInHand DEF Deliver, DeliverRefused, DeliverRaisesLate
<1>b. /\ \A v \in Workers : Current(v)' = Current(v)
      /\ UNCHANGED <<row, hand, held, faults>>
      /\ pc[w] = "deliver"
  BY CurrentStable DEF Deliver, DeliverRefused, DeliverRaisesLate, Goto
<1> HIDE DEF c
\* What the three outcomes of deliver() have in common.
<1>e. \/ /\ pc' = [pc EXCEPT ![w] = "record"]
         /\ sends' = [sends EXCEPT ![c] = IF @ < SendCap THEN @ + 1 ELSE @]
         /\ unconfirmed' = unconfirmed
      \/ /\ pc' = [pc EXCEPT ![w] = "report"]
         /\ \/ sends' = sends /\ unconfirmed' = unconfirmed
            \/ /\ sends' = [sends EXCEPT ![c] = IF @ < SendCap THEN @ + 1 ELSE @]
               /\ unconfirmed' = [unconfirmed EXCEPT ![c] = TRUE]
  BY DEF Deliver, DeliverRefused, DeliverRaisesLate, Goto, Mailed, Lost, c
<1>f. \A e \in Events : sends'[e] >= sends[e] /\ (e # c => sends'[e] = sends[e])
  BY <1>a, <1>e DEF TypeOK
<1>1. TypeOK'
  <2>1. /\ sends' \in [Events -> 0 .. SendCap]
        /\ unconfirmed' \in [Events -> BOOLEAN]
    <3>1. unconfirmed' \in [Events -> BOOLEAN]
      BY <1>a, <1>e DEF TypeOK
    <3>2. sends \in [Events -> 0 .. SendCap] /\ SendCap \in Nat
      BY DEF TypeOK
    <3>3. (IF sends[c] < SendCap THEN sends[c] + 1 ELSE sends[c]) \in 0 .. SendCap
      BY <3>2, <1>a
    <3>4. \/ sends' = sends
          \/ sends' = [sends EXCEPT ![c] = IF sends[c] < SendCap THEN sends[c] + 1
                                           ELSE sends[c]]
      BY <1>e
    <3> QED
      BY <3>1, <3>2, <3>3, <3>4, <1>a
  <2>2. /\ pc' \in [Workers -> {"idle", "deliver", "record", "report"}]
        /\ \A v \in Workers : pc'[v] = "idle" <=> hand'[v] = {}
    BY <1>b, <1>e DEF TypeOK
  <2> QED
    BY <2>1, <2>2, <1>b DEF TypeOK
<1>2. RowInv'
  <2>1. \A e \in Events : payload[e] = "none" => e # c
    BY <1>a DEF RunInv
  <2>2. \A e \in Events : (payload[e] = "none" => sends'[e] = 0)
                          /\ (sends[e] > 0 => sends'[e] > 0)
    BY <2>1, <1>1, <1>f DEF TypeOK, RowInv
  <2>3. /\ payload' = payload /\ processed' = processed /\ failed' = failed
        /\ attempts' = attempts /\ lockedBy' = lockedBy
    BY <1>b
  <2> QED
    BY <2>2, <2>3 DEF RowInv, Settled
<1>3. RunInv'
  <2>1. ASSUME NEW v \in Workers, pc'[v] = "record" PROVE sends'[Current(v)'] > 0
    <3>1. CASE v = w
      BY <3>1, <2>1, <1>a, <1>b, <1>e DEF TypeOK, c
    <3>2. CASE v # w
      <4>1. pc[v] = "record" /\ Current(v) \in Events
        BY <3>2, <2>1, <1>e, CurrentInHand DEF TypeOK
      <4> QED
        BY <4>1, <1>b, <1>f, <1>1 DEF TypeOK, RunInv
    <3> QED
      BY <3>1, <3>2
  <2> QED
    BY <2>1, <1>b DEF RunInv
<1>4. LeaseProtects'
  BY <1>b, <1>e DEF TypeOK, LeaseProtects
<1>5. FreshHoldersDiffer' /\ LimitInv'
  BY <1>b DEF FreshHoldersDiffer, LimitInv
<1>6. MailInv'
  <2> SUFFICES ASSUME LimitsEnforced, NEW e \in Events PROVE
         /\ sends'[e] > 1 => unconfirmed'[e]
         /\ sends'[e] = 1 /\ ~unconfirmed'[e] =>
               \/ processed'[e]
               \/ \E v \in Workers : pc'[v] = "record" /\ e = Current(v)'
    BY DEF MailInv
  <2>1. CASE e # c
    BY <2>1, <1>a, <1>b, <1>e, <1>f DEF TypeOK, MailInv, c
  \* Nobody else is about to record c, and c is not processed.
  <2>2. ~processed[c] /\ \A v \in Workers : pc[v] = "record" => Current(v) # c
    <3>1. \A v \in Workers : held[v] <= Lease
      BY DEF LimitInv, TypeOK
    <3>2. ~processed[c]
      BY <3>1, <1>a, <1>b DEF TypeOK, LeaseProtects, RowInv, Settled
    <3>3. ASSUME NEW v \in Workers, pc[v] = "record", Current(v) = c PROVE FALSE
      <4>1. c \in hand[v] \cap hand[w] /\ v # w
        BY <3>3, <1>a, <1>b, CurrentInHand DEF TypeOK
      <4> QED
        BY <4>1, <3>1 DEF FreshHoldersDiffer, TypeOK
    <3> QED
      BY <3>2, <3>3
  <2>3. sends[c] = 0 \/ unconfirmed[c]
    BY <2>2, <1>a DEF MailInv, TypeOK
  <2>4. CASE e = c
    BY <2>4, <2>3, <1>a, <1>b, <1>e DEF TypeOK, MailInv, c
  <2> QED
    BY <2>1, <2>4
<1> QED
  BY <1>1, <1>2, <1>3, <1>4, <1>5, <1>6

\* The steps that record an outcome, or end the run without recording it.
Finish(w) ==
    \/ MarkProcessed(w) \/ MarkProcessedRaises(w) \/ MarkProcessedInDoubt(w)
    \/ MarkFailed(w) \/ MarkFailedRaises(w) \/ Crash(w)

\* What they do to the rows: nothing, or they settle or retry the current
\* event under its lease.
LEMMA FinishRow ==
    ASSUME NEW w \in Workers, Finish(w)
    PROVE  \/ UNCHANGED row
           \/ pc[w] = "record" /\ lockedBy[Current(w)] = w /\ SetProcessed(Current(w))
           \/ pc[w] = "report" /\ lockedBy[Current(w)] = w /\ SetFailed(Current(w))
  BY DEF Finish, MarkProcessed, MarkProcessedRaises, MarkProcessedInDoubt,
         MarkFailed, MarkFailedRaises, Crash, UpdateProcessed, RecordFailure

\* What they do to the run: it goes on to report the same event, or it has
\* done with that event, perhaps with all of them.
LEMMA FinishRun ==
    ASSUME TypeOK, NEW w \in Workers, Finish(w)
    PROVE  /\ \E h \in SUBSET hand[w], t \in {0, held[w]}, l \in {"idle", "deliver", "report"} :
                 /\ hand' = [hand EXCEPT ![w] = h]
                 /\ held' = [held EXCEPT ![w] = t]
                 /\ pc' = [pc EXCEPT ![w] = l]
                 /\ l = "idle" <=> h = {}
                 /\ \/ /\ l = "report" /\ h = hand[w] /\ t = held[w]
                       /\ pc[w] = "record" /\ ~MarkFailed(w) /\ ~MarkFailedRaises(w)
                    \/ /\ l # "report" /\ Current(w) \notin h
                       /\ t = held[w] \/ h = {}
           /\ pc[w] # "idle"
           /\ faults' \in 0 .. MaxFaults
<1>0. pc[w] # "idle" /\ faults' \in 0 .. MaxFaults
  BY DEF Finish, MarkProcessed, MarkProcessedRaises, MarkProcessedInDoubt,
         MarkFailed, MarkFailedRaises, Crash, TypeOK
<1>1. Current(w) \in hand[w] /\ hand[w] # {}
  BY <1>0, CurrentInHand
<1>2. CASE Advance(w)
  <2> DEFINE h == hand[w] \ {Current(w)}
  <2> DEFINE l == IF h = {} THEN "idle" ELSE "deliver"
  <2> DEFINE t == IF h = {} THEN 0 ELSE held[w]
  <2>1. /\ hand' = [hand EXCEPT ![w] = h]
        /\ hand'[w] = h
    BY <1>2 DEF Advance, TypeOK
  <2>2. /\ pc' = [pc EXCEPT ![w] = l]
        /\ held' = [held EXCEPT ![w] = t]
    BY <1>2, <2>1 DEF Advance
  <2>3. h \in SUBSET hand[w] /\ t \in {0, held[w]} /\ l \in {"idle", "deliver", "report"}
    OBVIOUS
  <2>4. (l = "idle" <=> h = {}) /\ l # "report" /\ Current(w) \notin h /\ (t = held[w] \/ h = {})
    OBVIOUS
  <2> HIDE DEF h, l, t
  <2> QED
    BY <1>0, <2>1, <2>2, <2>3, <2>4
<1>3. CASE Abandon(w)
  <2>1. /\ hand' = [hand EXCEPT ![w] = {}]
        /\ pc' = [pc EXCEPT ![w] = "idle"]
        /\ held' = [held EXCEPT ![w] = 0]
    BY <1>3 DEF Abandon
  <2>2. {} \in SUBSET hand[w] /\ 0 \in {0, held[w]} /\ Current(w) \notin {}
    OBVIOUS
  <2> QED
    BY <1>0, <2>1, <2>2
<1>4. CASE Goto(w, "report") /\ pc[w] = "record"
  <2>1. /\ hand' = [hand EXCEPT ![w] = hand[w]]
        /\ pc' = [pc EXCEPT ![w] = "report"]
        /\ held' = [held EXCEPT ![w] = held[w]]
    BY <1>4 DEF Goto, TypeOK
  <2>2. ~MarkFailed(w) /\ ~MarkFailedRaises(w)
    BY <1>4 DEF MarkFailed, MarkFailedRaises
  <2>3. hand[w] \in SUBSET hand[w] /\ held[w] \in {0, held[w]}
    OBVIOUS
  <2> QED
    BY <1>0, <1>1, <1>4, <2>1, <2>2, <2>3
<1> QED
  BY <1>2, <1>3, <1>4 DEF Finish, MarkProcessed, MarkProcessedRaises,
     MarkProcessedInDoubt, MarkFailed, MarkFailedRaises, Crash

\* What they do to the history: a mail that left is recorded or lost.
LEMMA FinishHistory ==
    ASSUME TypeOK, NEW w \in Workers, Finish(w), Current(w) \in Events
    PROVE  /\ sends' = sends
           /\ unconfirmed' = unconfirmed \/ Lost(Current(w))
           /\ pc[w] = "record" => processed'[Current(w)] \/ unconfirmed'[Current(w)]
  BY DEF Finish, MarkProcessed, MarkProcessedRaises, MarkProcessedInDoubt,
         MarkFailed, MarkFailedRaises, Crash, UpdateProcessed, SetProcessed,
         Lost, TypeOK, history

\* A run finalises only a row whose lease is still its own, and the ways to
\* finish differ only in what becomes of the rest of the batch.
LEMMA FinishStep ==
    ASSUME IInv, NEW w \in Workers, Finish(w) PROVE IInv'
<1> USE DEF IInv
<1> DEFINE c == Current(w)
<1>a. c \in hand[w] /\ c \in Events /\ pc[w] # "idle"
  BY FinishRun, CurrentInHand
<1>b. PICK h \in SUBSET hand[w], t \in {0, held[w]}, l \in {"idle", "deliver", "report"} :
         /\ hand' = [hand EXCEPT ![w] = h]
         /\ held' = [held EXCEPT ![w] = t]
         /\ pc' = [pc EXCEPT ![w] = l]
         /\ l = "idle" <=> h = {}
         /\ \/ /\ l = "report" /\ h = hand[w] /\ t = held[w]
               /\ pc[w] = "record" /\ ~MarkFailed(w) /\ ~MarkFailedRaises(w)
            \/ /\ l # "report" /\ c \notin h
               /\ t = held[w] \/ h = {}
  BY FinishRun
<1>c. \A v \in Workers : v # w => Current(v)' = Current(v)
  BY <1>b, CurrentStable DEF TypeOK
<1>d. l = "report" => Current(w)' = c
  BY <1>b, CurrentStable DEF TypeOK
<1>e. \/ UNCHANGED row
      \/ pc[w] = "record" /\ lockedBy[c] = w /\ SetProcessed(c)
      \/ pc[w] = "report" /\ lockedBy[c] = w /\ SetFailed(c)
  BY FinishRow
<1>f. /\ sends' = sends
      /\ unconfirmed' = unconfirmed \/ Lost(c)
      /\ pc[w] = "record" => processed'[c] \/ unconfirmed'[c]
  BY <1>a, FinishHistory
<1>g. pc[w] = "record" => sends[c] > 0
  BY DEF RunInv
<1>h. lockedBy[c] = w => payload[c] = "token" /\ ~processed[c] /\ ~failed[c] /\ attempts[c] < MaxAttempts
  BY <1>a DEF RowInv, TypeOK, Settled
<1>i. faults' \in 0 .. MaxFaults
  BY FinishRun
<1> HIDE DEF c
\* Only the row of c can change, and its lease is given back if it does.
<1>r. /\ \A e \in Events : e # c =>
            /\ payload'[e] = payload[e] /\ processed'[e] = processed[e]
            /\ failed'[e] = failed[e] /\ attempts'[e] = attempts[e]
            /\ lockedBy'[e] = lockedBy[e] /\ age'[e] = age[e]
      /\ UNCHANGED row \/ (lockedBy[c] = w /\ lockedBy'[c] = NoWorker)
  BY <1>a, <1>e DEF SetProcessed, SetFailed, TypeOK, row
<1>t. /\ payload' \in [Events -> {"none", "token", "delivered"}]
      /\ processed' \in [Events -> BOOLEAN]
      /\ failed' \in [Events -> BOOLEAN]
      /\ attempts' \in [Events -> 0 .. MaxAttempts]
      /\ lockedBy' \in [Events -> Workers \cup {NoWorker}]
      /\ age' \in [Events -> 0 .. Lease + 1]
      /\ wait' \in [Events -> Nat]
  <2>1. CASE UNCHANGED row
    BY <2>1 DEF TypeOK, row
  <2>2. CASE lockedBy[c] = w /\ SetProcessed(c)
    BY <2>2, <1>a DEF TypeOK, SetProcessed
  <2>3. CASE lockedBy[c] = w /\ SetFailed(c)
    <3>1. wait' \in [Events -> Nat]
      BY <2>3, <1>a, BackoffIsNat DEF TypeOK, SetFailed
    <3>2. attempts' \in [Events -> 0 .. MaxAttempts]
      <4>1. attempts[c] + 1 \in 0 .. MaxAttempts
        BY <1>a, <1>h, <2>3 DEF TypeOK
      <4> QED
        BY <4>1, <2>3, <1>a DEF TypeOK, SetFailed
    <3>3. failed' \in [Events -> BOOLEAN]
      BY <2>3, <1>a DEF TypeOK, SetFailed
    <3>4. /\ payload' = payload /\ processed' = processed
          /\ lockedBy' = [lockedBy EXCEPT ![c] = NoWorker]
          /\ age' = [age EXCEPT ![c] = 0]
      BY <2>3 DEF SetFailed
    <3> QED
      BY <3>1, <3>2, <3>3, <3>4, <1>a DEF TypeOK
  <2> QED
    BY <2>1, <2>2, <2>3, <1>e
<1>1. TypeOK'
  <2>1. /\ hand' \in [Workers -> SUBSET Events]
        /\ held' \in [Workers -> 0 .. Lease + 1]
    BY <1>b DEF TypeOK
  <2>2. /\ pc' \in [Workers -> {"idle", "deliver", "record", "report"}]
        /\ \A v \in Workers : pc'[v] = "idle" <=> hand'[v] = {}
    BY <1>b DEF TypeOK
  <2>3. sends' \in [Events -> 0 .. SendCap] /\ unconfirmed' \in [Events -> BOOLEAN]
    BY <1>f, <1>a DEF Lost, TypeOK
  <2> QED
    BY <2>1, <2>2, <2>3, <1>i, <1>t DEF TypeOK
<1>2. RowInv'
  <2>1. CASE UNCHANGED row
    BY <2>1, <1>f DEF RowInv, Settled, row
  <2>2. CASE pc[w] = "record" /\ lockedBy[c] = w /\ SetProcessed(c)
    BY <2>2, <1>a, <1>f, <1>g, <1>h DEF RowInv, Settled, SetProcessed, TypeOK
  <2>3. CASE lockedBy[c] = w /\ SetFailed(c)
    BY <2>3, <1>a, <1>f, <1>h DEF RowInv, Settled, SetFailed, TypeOK
  <2> QED
    BY <2>1, <2>2, <2>3, <1>e
<1>3. RunInv'
  <2>1. \A e \in Events : payload[e] # "none" => payload'[e] # "none"
    BY <1>e, <1>a DEF SetProcessed, SetFailed, row, TypeOK
  <2>2. \A v \in Workers : hand'[v] \subseteq hand[v] /\ (pc'[v] = "record" => v # w /\ pc[v] = "record")
    BY <1>b DEF TypeOK
  <2> QED
    BY <2>1, <2>2, <1>c, <1>f DEF RunInv, TypeOK
<1>4. LeaseProtects'
  <2> SUFFICES ASSUME NEW v \in Workers, NEW e \in hand'[v], held'[v] <= Lease
               PROVE  \/ lockedBy'[e] = v /\ age'[e] = held'[v]
                      \/ pc'[v] = "report" /\ e = Current(v)' /\ processed'[e]
    BY DEF LeaseProtects
  <2>0. e \in hand[v] /\ e \in Events /\ held'[v] = held[v]
    BY <1>b DEF TypeOK
  <2>1. \/ lockedBy[e] = v /\ age[e] = held[v]
        \/ pc[v] = "report" /\ e = Current(v) /\ processed[e]
    BY <2>0 DEF LeaseProtects
  <2>2. CASE v # w
    <3>1. pc'[v] = pc[v] /\ Current(v)' = Current(v)
      BY <2>2, <1>b, <1>c DEF TypeOK
    <3>2. e # c \/ UNCHANGED row
      BY <2>1, <2>2, <1>h, <1>r
    <3> QED
      BY <2>0, <2>1, <3>1, <3>2, <1>r DEF row
  <2>3. CASE v = w /\ e # c
    <3>1. lockedBy[e] = v /\ age[e] = held[v]
      BY <2>1, <2>3 DEF c
    <3> QED
      BY <3>1, <2>0, <2>3, <1>r
  <2>4. CASE v = w /\ e = c
    <3>1. l = "report" /\ pc[w] = "record" /\ pc'[w] = "report"
      BY <2>4, <1>b DEF TypeOK
    <3>2. lockedBy[e] = v /\ age[e] = held[v]
      BY <2>1, <2>4, <3>1
    <3>3. UNCHANGED row \/ processed'[c]
      BY <3>1, <1>e, <1>a DEF SetProcessed, TypeOK
    <3> QED
      BY <2>0, <2>4, <3>1, <3>2, <3>3, <1>d DEF row
  <2> QED
    BY <2>2, <2>3, <2>4
<1>5. FreshHoldersDiffer'
  <2>1. \A v \in Workers : \A e \in hand'[v] : e \in hand[v] /\ held'[v] = held[v]
    BY <1>b DEF TypeOK
  <2> QED
    BY <2>1 DEF FreshHoldersDiffer
<1>6. LimitInv'
  BY <1>b DEF LimitInv, TypeOK
<1>7. MailInv'
  <2> SUFFICES ASSUME LimitsEnforced, NEW e \in Events PROVE
         /\ sends'[e] > 1 => unconfirmed'[e]
         /\ sends'[e] = 1 /\ ~unconfirmed'[e] =>
               \/ processed'[e]
               \/ \E v \in Workers : pc'[v] = "record" /\ e = Current(v)'
    BY DEF MailInv
  <2>1. unconfirmed[e] => unconfirmed'[e]
    BY <1>f, <1>a DEF Lost, TypeOK
  <2>2. processed[e] => processed'[e]
    BY <1>e, <1>a DEF SetProcessed, SetFailed, row, TypeOK
  <2>3. ASSUME NEW v \in Workers, pc[v] = "record", e = Current(v),
               sends[e] = 1, ~unconfirmed'[e]
        PROVE  processed'[e] \/ (pc'[v] = "record" /\ e = Current(v)')
    <3>1. CASE v = w
      BY <3>1, <2>3, <1>f DEF c
    <3>2. CASE v # w
      BY <3>2, <2>3, <1>b, <1>c DEF TypeOK
    <3> QED
      BY <3>1, <3>2
  <2> QED
    BY <2>1, <2>2, <2>3, <1>f DEF MailInv
<1> QED
  BY <1>1, <1>2, <1>3, <1>4, <1>5, <1>6, <1>7

\* Time ages leases and runs together.
LEMMA TickStep == ASSUME IInv, Tick PROVE IInv'
<1> USE DEF IInv, Tick, history
<1> HIDE DEF Tick
<1>b. /\ \A w \in Workers : held'[w] = IF pc[w] = "idle" THEN 0 ELSE Older(held[w])
      /\ \A e \in Events : age'[e] = IF lockedBy[e] = NoWorker THEN 0 ELSE Older(age[e])
      /\ UNCHANGED <<payload, processed, failed, attempts, lockedBy, pc, hand, faults,
                     sends, unconfirmed>>
  BY DEF Tick
<1>c. \A w \in Workers : Current(w)' = Current(w)
  BY <1>b, CurrentStable
<1>1. TypeOK'
  <2>1. age' \in [Events -> 0 .. Lease + 1]
    <3>1. \A e \in Events : Older(age[e]) \in 0 .. Lease + 1
      BY DEF TypeOK, Older
    <3>2. age' = [e \in Events |-> IF lockedBy[e] = NoWorker THEN 0 ELSE Older(age[e])]
      BY DEF Tick
    <3> QED
      BY <3>1, <3>2
  <2>2. held' \in [Workers -> 0 .. Lease + 1]
    <3>1. \A w \in Workers : Older(held[w]) \in 0 .. Lease + 1
      BY DEF TypeOK, Older
    <3>2. held' = [w \in Workers |-> IF pc[w] = "idle" THEN 0 ELSE Older(held[w])]
      BY DEF Tick
    <3> QED
      BY <3>1, <3>2
  <2>3. wait' \in [Events -> Nat]
    BY DEF Tick, TypeOK
  <2> QED
    BY <2>1, <2>2, <2>3, <1>b DEF TypeOK
<1>2. RowInv' /\ RunInv'
  BY <1>b, <1>c DEF RowInv, RunInv, Settled
<1>3. LeaseProtects'
  <2> SUFFICES ASSUME NEW w \in Workers, NEW e \in hand'[w], held'[w] <= Lease
               PROVE  \/ lockedBy'[e] = w /\ age'[e] = held'[w]
                      \/ pc'[w] = "report" /\ e = Current(w)' /\ processed'[e]
    BY DEF LeaseProtects
  <2>1. e \in hand[w] /\ e \in Events /\ pc[w] # "idle"
    BY <1>b DEF TypeOK
  <2>2. held'[w] = Older(held[w]) /\ held[w] \in 0 .. Lease + 1
    BY <2>1, <1>b DEF TypeOK
  <2>3. held[w] <= Lease
    BY <2>2 DEF Older
  <2> QED
    BY <2>1, <2>2, <2>3, <1>b, <1>c DEF LeaseProtects, TypeOK
<1>4. FreshHoldersDiffer'
  <2>1. ASSUME NEW w \in Workers, NEW e \in hand[w], held[w] > Lease
        PROVE  held'[w] > Lease
    <3>1. held'[w] = Older(held[w]) /\ held[w] \in 0 .. Lease + 1
      BY <2>1, <1>b DEF TypeOK
    <3>2. held[w] = Lease + 1
      BY <2>1, <3>1
    <3> QED
      BY <3>1, <3>2 DEF Older
  <2> QED
    BY <2>1, <1>b DEF FreshHoldersDiffer
<1>5. LimitInv'
  <2> SUFFICES ASSUME LimitsEnforced, NEW w \in Workers PROVE held'[w] <= TaskLimit
    BY DEF LimitInv
  <2>1. CASE pc[w] = "idle"
    BY <2>1, <1>b
  <2>2. CASE pc[w] # "idle"
    <3>1. held[w] < TaskLimit /\ held[w] \in Nat
      BY <2>2 DEF Tick, TypeOK
    <3> QED
      BY <2>2, <3>1, <1>b DEF Older
  <2> QED
    BY <2>1, <2>2
<1>6. MailInv'
  BY <1>b, <1>c DEF MailInv
<1> QED
  BY <1>1, <1>2, <1>3, <1>4, <1>5, <1>6

\* Nothing changes.
LEMMA IdleStep == ASSUME IInv, UNCHANGED vars PROVE IInv'
<1>1. \A w \in Workers : Current(w)' = Current(w)
  BY CurrentStable DEF vars, run
<1> QED
  BY <1>1 DEF IInv, vars, row, run, history, TypeOK, RowInv, RunInv, LeaseProtects,
     FreshHoldersDiffer, LimitInv, MailInv, Settled

\* Every step is one of those above.
LEMMA NextCases ==
    ASSUME Next
    PROVE  \/ \E e \in Events : Publish(e)
           \/ \E w \in Workers : \/ Claim(w)
                                \/ Deliver(w) \/ DeliverRefused(w) \/ DeliverRaisesLate(w)
                                \/ Finish(w)
           \/ Tick
  BY DEF Next, Work, Finish

\* The inductive invariant holds in every reachable state.
THEOREM Inductive == Spec => []IInv
<1>1. Init => IInv
  BY InitEstablishes
<1>2. IInv /\ [Next]_vars => IInv'
  <2> SUFFICES ASSUME IInv, [Next]_vars PROVE IInv'
    OBVIOUS
  <2>1. CASE UNCHANGED vars
    BY <2>1, IdleStep
  <2>2. CASE Next
    BY <2>2, NextCases, PublishStep, ClaimStep, DeliverStep, FinishStep, TickStep
  <2> QED
    BY <2>1, <2>2
<1> QED
  BY <1>1, <1>2, PTL DEF Spec

\* Type correctness (all the columns and the state of the task runs).
THEOREM TypeCorrect == Spec => []TypeOK
<1>1. IInv => TypeOK
  BY DEF IInv
<1> QED
  BY <1>1, Inductive, PTL

\* A run that works within its lease keeps it, for any number of rival
\* workers: claim_events admits nobody and mark_failed frees nothing.
THEOREM LeaseIsKept == Spec => []LeaseProtects
<1>1. IInv => LeaseProtects
  BY DEF IInv
<1> QED
  BY <1>1, Inductive, PTL

\* With the time limits in force (and TaskLimit <= Lease, the assumption on
\* the constants) an event is in the hands of one run at a time.
THEOREM OneHolder == ASSUME LimitsEnforced PROVE Spec => []SingleHolder
<1>1. IInv => SingleHolder
  <2> SUFFICES ASSUME IInv, NEW v \in Workers, NEW w \in Workers, v # w
               PROVE  hand[v] \cap hand[w] = {}
    BY DEF SingleHolder
  <2>1. held[v] <= Lease /\ held[w] <= Lease
    BY DEF IInv, LimitInv, TypeOK
  <2> QED
    BY <2>1 DEF IInv, FreshHoldersDiffer, TypeOK
<1> QED
  BY <1>1, Inductive, PTL

\* An event that its row calls processed was mailed, whatever stale workers
\* report about it (mark_processed's predicate).
THEOREM ProcessedHolds == Spec => []ProcessedWasMailed
<1>1. IInv => ProcessedWasMailed
  BY DEF IInv, RowInv, ProcessedWasMailed
<1> QED
  BY <1>1, Inductive, PTL

\* A row has its token exactly until it is processed (mark_processed).
THEOREM TokenIsKept == Spec => []TokenUntilProcessed
<1>1. IInv => TokenUntilProcessed
  BY DEF IInv, RowInv, TokenUntilProcessed
<1> QED
  BY <1>1, Inductive, PTL

\* An event is given up with the failure that uses up its attempts, neither
\* earlier nor later (mark_failed), for any limit.
THEOREM FailuresAreCounted == Spec => []FailedIffExhausted
<1>1. IInv => FailedIffExhausted
  BY DEF IInv, RowInv, FailedIffExhausted
<1> QED
  BY <1>1, Inductive, PTL

-----------------------------------------------------------------------------
(* Action properties and refinement. *)

\* No step touches the row of a settled event.
LEMMA SettledStep ==
    ASSUME IInv, Next, NEW e \in Events, Settled(e) PROVE SameRow(e)
<1>a. /\ payload[e] # "none" /\ lockedBy[e] = NoWorker
      /\ NoWorker \notin Workers
  BY DEF IInv, RowInv, Settled, TypeOK
<1>1. ASSUME NEW f \in Events, Publish(f) PROVE SameRow(e)
  BY <1>1, <1>a DEF Publish, SameRow, IInv, TypeOK
<1>2. ASSUME NEW w \in Workers, Claim(w) PROVE SameRow(e)
  <2>1. e \notin ClaimBatch
    BY BatchIsClaimable DEF Claimable, Settled
  <2> QED
    BY <1>2, <2>1 DEF Claim, SameRow
<1>3. ASSUME NEW w \in Workers, Deliver(w) \/ DeliverRefused(w) \/ DeliverRaisesLate(w)
      PROVE  SameRow(e)
  BY <1>3 DEF Deliver, DeliverRefused, DeliverRaisesLate, row, SameRow
<1>4. ASSUME NEW w \in Workers, Finish(w) PROVE SameRow(e)
  <2>1. CASE UNCHANGED row
    BY <2>1 DEF row, SameRow
  <2>2. ASSUME lockedBy[Current(w)] = w, SetProcessed(Current(w)) \/ SetFailed(Current(w))
        PROVE  SameRow(e)
    <3>1. Current(w) # e
      BY <2>2, <1>a
    <3> QED
      BY <2>2, <3>1 DEF SetProcessed, SetFailed, SameRow, IInv, TypeOK
  <2> QED
    BY <1>4, <2>1, <2>2, FinishRow
<1>5. ASSUME Tick PROVE SameRow(e)
  BY <1>5 DEF Tick, SameRow
<1> QED
  BY <1>1, <1>2, <1>3, <1>4, <1>5, NextCases

\* A settled event is never claimed, retried or reopened, for any number of
\* stale workers and whatever the clocks do.
THEOREM SettledStays == Spec => SettledIsFinal
<1>1. IInv /\ [Next]_vars => [\A e \in Events : Settled(e) => SameRow(e)]_vars
  BY SettledStep
<1> QED
  BY <1>1, Inductive, PTL DEF Spec, SettledIsFinal

\* The stage of an event, one case at a time.
LEMMA StageOf ==
    ASSUME NEW e \in Events
    PROVE  /\ payload[e] = "none" => Stage(e) = "unborn"
           /\ payload[e] # "none" /\ processed[e] => Stage(e) = "processed"
           /\ payload[e] # "none" /\ ~processed[e] /\ failed[e] => Stage(e) = "dead"
           /\ payload[e] # "none" /\ ~processed[e] /\ ~failed[e] => Stage(e) = "pending"
  BY DEF Stage

\* Stage in the next state, by the columns of the next state.
LEMMA StageAfter ==
    ASSUME NEW e \in Events
    PROVE  /\ payload'[e] = "none" => Stage(e)' = "unborn"
           /\ payload'[e] # "none" /\ processed'[e] => Stage(e)' = "processed"
           /\ payload'[e] # "none" /\ ~processed'[e] /\ failed'[e] => Stage(e)' = "dead"
           /\ payload'[e] # "none" /\ ~processed'[e] /\ ~failed'[e] => Stage(e)' = "pending"
  BY DEF Stage

\* The stage of an event is a matter of its own row.
LEMMA StageLocal ==
    ASSUME NEW e \in Events, payload'[e] = payload[e], processed'[e] = processed[e],
           failed'[e] = failed[e]
    PROVE  Stage(e)' = Stage(e)
  BY DEF Stage

\* The initial rows are the initial state of AtLeastOnce.
LEMMA PromiseInit == ASSUME Init PROVE Promise!Init
<1>1. \A e \in Events : Stage(e) = "unborn" /\ sends[e] = 0 /\ payload[e] = "none"
  BY StageOf DEF Init
<1>2. attempts = [e \in Events |-> 0]
  BY DEF Init
<1> QED
  BY <1>1, <1>2 DEF Promise!Init

\* Every step of the outbox is a step of AtLeastOnce or leaves its variables
\* alone.
LEMMA PromiseStep ==
    ASSUME IInv, IInv', [Next]_vars PROVE [Promise!Next]_Promise!vars
<1>0. TypeOK /\ RowInv /\ RunInv /\ TypeOK' /\ RowInv'
  BY DEF IInv
<1>1. ASSUME UNCHANGED <<payload, processed, failed, attempts, sends>>
      PROVE  UNCHANGED Promise!vars
  BY <1>1 DEF Promise!vars, Stage
<1>2. ASSUME NEW e \in Events, Publish(e) PROVE Promise!Publish(e)
  <2>1. /\ payload[e] = "none" /\ payload' = [payload EXCEPT ![e] = "token"]
        /\ UNCHANGED <<processed, failed, attempts, sends>>
    BY <1>2 DEF Publish, history
  <2>2. ~processed[e] /\ ~failed[e]
    BY <1>0, <2>1 DEF RowInv
  <2>3. Stage(e) = "unborn" /\ Stage(e)' = "pending"
    BY <1>0, <2>1, <2>2, StageOf, StageAfter DEF TypeOK
  <2>4. \A f \in Events : f # e => Stage(f)' = Stage(f)
    BY <1>0, <2>1, StageLocal DEF TypeOK
  <2>5. {f \in Events : payload'[f] = "token"} = {f \in Events : payload[f] = "token"} \cup {e}
    BY <1>0, <2>1 DEF TypeOK
  <2> QED
    BY <2>1, <2>3, <2>4, <2>5 DEF Promise!Publish
<1>3. ASSUME NEW w \in Workers, Deliver(w) \/ DeliverRefused(w) \/ DeliverRaisesLate(w)
      PROVE  UNCHANGED Promise!vars \/ \E e \in Events : Promise!Mail(e)
  <2>0. Current(w) \in hand[w] /\ Current(w) \in Events
    BY <1>0, <1>3, CurrentInHand DEF Deliver, DeliverRefused, DeliverRaisesLate
  <2>1. PICK c \in Events : c = Current(w) /\ c \in hand[w]
    BY <2>0
  <2>2. CASE UNCHANGED sends
    BY <2>2, <1>1, <1>3 DEF Deliver, DeliverRefused, DeliverRaisesLate, row
  <2>3. CASE Mailed(Current(w)) /\ UNCHANGED row
    <3>1. {f \in Events : sends'[f] > 0} = {f \in Events : sends[f] > 0} \cup {c}
      BY <1>0, <2>1, <2>3 DEF Mailed, TypeOK
    <3>2. \A f \in Events : Stage(f)' = Stage(f)
      BY <2>3, StageLocal DEF row
    <3>3. Stage(c) # "unborn"
      BY <1>0, <2>1, StageOf DEF RunInv, TypeOK
    <3>4. UNCHANGED <<attempts, payload>>
      BY <2>3 DEF row
    <3> QED
      BY <2>1, <3>1, <3>2, <3>3, <3>4 DEF Promise!Mail
  <2> QED
    BY <1>3, <2>2, <2>3 DEF Deliver, DeliverRefused, DeliverRaisesLate, history
<1>4. ASSUME NEW w \in Workers, Finish(w)
      PROVE  \/ UNCHANGED Promise!vars
             \/ \E e \in Events : \/ Promise!Acknowledge(e)
                                  \/ Promise!Retry(e) \/ Promise!GiveUp(e)
  <2>0. Current(w) \in Events /\ sends' = sends
    BY <1>0, <1>4, FinishRun, CurrentInHand, FinishHistory
  <2>1. PICK c \in Events : c = Current(w) /\ sends' = sends
    BY <2>0
  <2>2. pc[w] = "record" => sends[c] > 0
    BY <1>0, <2>1 DEF RunInv
  <2>3. CASE UNCHANGED row
    BY <2>1, <2>3, <1>1 DEF row
  <2>4. lockedBy[c] = w => /\ payload[c] = "token" /\ ~processed[c] /\ ~failed[c]
                          /\ attempts[c] \in Nat /\ attempts[c] < MaxAttempts
                          /\ Stage(c) = "pending"
    <3> SUFFICES ASSUME lockedBy[c] = w
                 PROVE  /\ payload[c] = "token" /\ ~processed[c] /\ ~failed[c]
                        /\ attempts[c] \in Nat /\ attempts[c] < MaxAttempts
                        /\ Stage(c) = "pending"
      OBVIOUS
    <3>1. payload[c] = "token" /\ ~processed[c] /\ ~failed[c]
      BY <1>0, <2>1 DEF RowInv, TypeOK, Settled
    <3>2. attempts[c] \in Nat /\ attempts[c] < MaxAttempts
      <4>1. attempts[c] \in 0 .. MaxAttempts
        BY <1>0 DEF TypeOK
      <4>2. attempts[c] # MaxAttempts
        BY <1>0, <3>1 DEF RowInv
      <4> QED
        BY <4>1, <4>2
    <3> QED
      BY <2>1, <3>1, <3>2, StageOf
  <2>5. CASE pc[w] = "record" /\ lockedBy[c] = w /\ SetProcessed(c)
    <3>0. /\ payload'[c] = "delivered" /\ processed'[c]
          /\ \A f \in Events : f # c => /\ payload'[f] = payload[f]
                                       /\ processed'[f] = processed[f]
                                       /\ failed'[f] = failed[f]
      BY <1>0, <2>1, <2>5 DEF SetProcessed, TypeOK
    <3>1. Stage(c)' = "processed"
      BY <2>1, <3>0, StageAfter
    <3>2. \A f \in Events : f # c => Stage(f)' = Stage(f)
      BY <3>0, StageLocal
    <3>3. {f \in Events : payload'[f] = "token"} = {f \in Events : payload[f] = "token"} \ {c}
      BY <1>0, <2>1, <2>5 DEF SetProcessed, TypeOK
    <3>4. attempts' = attempts
      BY <2>5 DEF SetProcessed
    <3>5. Promise!Acknowledge(c)
      BY <2>1, <2>2, <2>4, <2>5, <3>1, <3>2, <3>3, <3>4 DEF Promise!Acknowledge
    <3> QED
      BY <3>5
  <2>6. CASE lockedBy[c] = w /\ SetFailed(c)
    <3>1. /\ attempts' = [attempts EXCEPT ![c] = attempts[c] + 1]
          /\ payload' = payload /\ processed' = processed
          /\ \/ attempts[c] + 1 >= MaxAttempts /\ failed' = [failed EXCEPT ![c] = TRUE]
             \/ attempts[c] + 1 < MaxAttempts /\ failed' = failed
      BY <1>0, <2>1, <2>6 DEF SetFailed, TypeOK
    <3>2. \A f \in Events : f # c => Stage(f)' = Stage(f)
      BY <1>0, <2>1, <3>1, StageLocal DEF TypeOK
    <3>3. CASE attempts[c] + 1 < MaxAttempts
      <4>1. \A f \in Events : Stage(f)' = Stage(f)
        BY <2>4, <2>6, <3>1, <3>3, StageLocal
      <4>2. Promise!Retry(c)
        BY <2>1, <2>4, <2>6, <3>1, <3>3, <4>1 DEF Promise!Retry
      <4> QED
        BY <4>2
    <3>4. CASE attempts[c] + 1 >= MaxAttempts
      <4>0. failed' = [failed EXCEPT ![c] = TRUE] /\ attempts[c] + 1 = MaxAttempts
        BY <2>4, <2>6, <3>1, <3>4
      <4>1. failed'[c] /\ attempts[c] + 1 = MaxAttempts
        BY <1>0, <2>1, <4>0 DEF TypeOK
      <4>2. Stage(c)' = "dead"
        BY <2>1, <2>4, <2>6, <3>1, <4>1, StageAfter
      <4>3. Promise!GiveUp(c)
        BY <2>1, <2>4, <2>6, <3>1, <3>2, <4>1, <4>2 DEF Promise!GiveUp
      <4> QED
        BY <4>3
    <3> QED
      BY <3>3, <3>4, <2>4, <2>6
  <2> QED
    <3>1. \/ UNCHANGED row
          \/ pc[w] = "record" /\ lockedBy[Current(w)] = w /\ SetProcessed(Current(w))
          \/ pc[w] = "report" /\ lockedBy[Current(w)] = w /\ SetFailed(Current(w))
      BY <1>4, FinishRow
    <3>2. lockedBy[Current(w)] = w /\ SetProcessed(Current(w)) => lockedBy[c] = w /\ SetProcessed(c)
      BY <2>1 DEF SetProcessed
    <3>3. lockedBy[Current(w)] = w /\ SetFailed(Current(w)) => lockedBy[c] = w /\ SetFailed(c)
      BY <2>1 DEF SetFailed
    <3> QED
      BY <3>1, <3>2, <3>3, <2>3, <2>5, <2>6
<1>5. CASE Next
  <2>1. ASSUME NEW w \in Workers, Claim(w) PROVE UNCHANGED Promise!vars
    BY <2>1, <1>1 DEF Claim, history
  <2>2. Tick => UNCHANGED Promise!vars
    BY <1>1 DEF Tick, history
  <2>4. \/ UNCHANGED Promise!vars
        \/ \E e \in Events : \/ Promise!Publish(e) \/ Promise!Mail(e) \/ Promise!Acknowledge(e)
                             \/ Promise!Retry(e) \/ Promise!GiveUp(e)
    BY <1>2, <1>3, <1>4, <1>5, <2>1, <2>2, NextCases
  <2> QED
    BY <2>4 DEF Promise!Next
<1>6. CASE UNCHANGED vars
  BY <1>6, <1>1 DEF vars, row, history
<1> QED
  BY <1>5, <1>6

\* The outbox implements at-least-once delivery, for every number of
\* workers, every lease, and whether or not the time limits are in force.
THEOREM Implements == Spec => PromiseSpec
<1>1. Init => Promise!Init
  BY PromiseInit
<1>2. IInv /\ IInv' /\ [Next]_vars => [Promise!Next]_Promise!vars
  BY PromiseStep
<1> QED
  BY <1>1, <1>2, Inductive, PTL DEF Spec, PromiseSpec, Promise!Spec

-----------------------------------------------------------------------------
(* How often a mail can be repeated.  Every mail of an event is paid for:  *)
(* by a failure that its row counts, by a crash or error of the database,  *)
(* or by what is owed, the one record or report that is still to come or   *)
(* has made the row processed.                                             *)

Owed(e) ==
    \/ processed[e]
    \/ \E w \in Workers : pc[w] \in {"record", "report"} /\ Current(w) = e

PaidFor ==
    \A e \in Events : sends[e] <= attempts[e] + faults + (IF Owed(e) THEN 1 ELSE 0)

\* With the limits in force, a run that is under way has its lease.
LEMMA HoldsLease ==
    ASSUME IInv, LimitsEnforced, NEW w \in Workers, pc[w] # "idle"
    PROVE  \/ lockedBy[Current(w)] = w
           \/ pc[w] = "report" /\ processed[Current(w)]
<1>1. Current(w) \in hand[w]
  BY CurrentInHand DEF IInv
<1>2. held[w] <= Lease
  BY DEF IInv, LimitInv, TypeOK
<1> QED BY <1>1, <1>2 DEF IInv, LeaseProtects

\* Nothing is owed yet for the event that a run is about to deliver.
LEMMA NothingOwed ==
    ASSUME IInv, LimitsEnforced, NEW w \in Workers, pc[w] = "deliver"
    PROVE  ~Owed(Current(w))
<1>1. Current(w) \in hand[w] /\ Current(w) \in Events /\ lockedBy[Current(w)] = w
  BY CurrentInHand, HoldsLease DEF IInv
<1>2. ~processed[Current(w)]
  BY <1>1 DEF IInv, TypeOK, RowInv, Settled
<1>3. ASSUME NEW v \in Workers, pc[v] \in {"record", "report"}, Current(v) = Current(w)
      PROVE  FALSE
  <2>1. Current(v) \in hand[v] /\ v # w
    BY <1>3, CurrentInHand DEF IInv
  <2>2. held[v] <= Lease /\ held[w] <= Lease
    BY DEF IInv, LimitInv, TypeOK
  <2> QED BY <1>1, <1>3, <2>1, <2>2 DEF IInv, FreshHoldersDiffer, TypeOK
<1> QED BY <1>2, <1>3 DEF Owed

\* A delivery is owed for from then on.
LEMMA DeliverIsPaid ==
    ASSUME IInv, LimitsEnforced, PaidFor, NEW w \in Workers,
           Deliver(w) \/ DeliverRefused(w) \/ DeliverRaisesLate(w)
    PROVE  PaidFor'
<1>1. /\ pc[w] = "deliver" /\ UNCHANGED <<attempts, faults, processed>>
      /\ \A v \in Workers : Current(v)' = Current(v)
      /\ pc' = [pc EXCEPT ![w] = "record"] \/ pc' = [pc EXCEPT ![w] = "report"]
      /\ UNCHANGED sends \/ Mailed(Current(w))
  BY CurrentStable DEF Deliver, DeliverRefused, DeliverRaisesLate, Goto, row, history
<1>2. Current(w) \in Events /\ ~Owed(Current(w))
  BY <1>1, CurrentInHand, NothingOwed DEF IInv
<1>3. /\ pc \in [Workers -> {"idle", "deliver", "record", "report"}]
      /\ faults \in Nat /\ \A e \in Events : attempts[e] \in Nat /\ sends[e] \in Nat
      /\ sends \in [Events -> 0 .. SendCap]
  BY DEF IInv, TypeOK
<1>4. ASSUME NEW e \in Events
      PROVE  sends'[e] <= attempts'[e] + faults' + (IF Owed(e)' THEN 1 ELSE 0)
  <2>1. sends[e] <= attempts[e] + faults + (IF Owed(e) THEN 1 ELSE 0)
    BY DEF PaidFor
  <2>2. CASE e = Current(w)
    <3>1. Owed(e)'
      BY <1>1, <1>3, <2>2 DEF Owed
    <3>2. sends'[e] <= sends[e] + 1
      BY <1>1, <1>3, <2>2 DEF Mailed
    <3>3. sends'[e] \in Nat
      BY <1>1, <1>3, <2>2 DEF Mailed
    <3> QED BY <1>1, <1>2, <1>3, <2>1, <2>2, <3>1, <3>2, <3>3
  <2>3. CASE e # Current(w)
    <3>1. Owed(e) => Owed(e)'
      BY <1>1, <1>3, <2>3 DEF Owed
    <3>2. sends'[e] = sends[e]
      BY <1>1, <1>3, <2>3 DEF Mailed
    <3> QED BY <1>1, <1>3, <2>1, <3>1, <3>2
  <2> QED BY <2>2, <2>3
<1> QED BY <1>4 DEF PaidFor

\* What a run owed for is recorded, counted as a failure, or excused by a
\* crash or an error.
LEMMA FinishIsPaid ==
    ASSUME IInv, LimitsEnforced, PaidFor, NEW w \in Workers, Finish(w)
    PROVE  PaidFor'
<1>1. /\ pc[w] # "idle" /\ Current(w) \in Events /\ sends' = sends
      /\ TypeOK
  BY FinishRun, CurrentInHand, FinishHistory DEF IInv
<1>2. /\ \A v \in Workers : v # w => pc'[v] = pc[v] /\ Current(v)' = Current(v)
      /\ faults' \in 0 .. MaxFaults
  BY <1>1, FinishRun, CurrentStable DEF TypeOK
<1>3. \/ lockedBy[Current(w)] = w
      \/ pc[w] = "report" /\ processed[Current(w)]
  BY <1>1, HoldsLease
<1>4. \/ UNCHANGED row
      \/ SetProcessed(Current(w))
      \/ SetFailed(Current(w))
  BY FinishRow
<1>5. /\ faults \in Nat /\ \A e \in Events : attempts[e] \in Nat /\ sends[e] \in Nat
      /\ faults' \in Nat /\ faults' >= faults
  BY <1>1, <1>2 DEF TypeOK, Finish, MarkProcessed, MarkProcessedRaises, MarkProcessedInDoubt,
                    MarkFailed, MarkFailedRaises, Crash
<1>6. \A e \in Events : /\ processed[e] => processed'[e]
                        /\ attempts'[e] \in Nat /\ attempts'[e] >= attempts[e]
  BY <1>1, <1>4, <1>5 DEF SetProcessed, SetFailed, row, TypeOK
\* Whatever becomes of the current event, one of the three pays for it.
<1>7. \/ faults' = faults + 1
      \/ processed'[Current(w)]
      \/ attempts'[Current(w)] = attempts[Current(w)] + 1
  BY <1>1, <1>3, <1>6
  DEF Finish, MarkProcessed, MarkProcessedRaises, MarkProcessedInDoubt, MarkFailed,
      MarkFailedRaises, Crash, UpdateProcessed, SetProcessed, RecordFailure, SetFailed, TypeOK
<1>8. ASSUME NEW e \in Events
      PROVE  sends'[e] <= attempts'[e] + faults' + (IF Owed(e)' THEN 1 ELSE 0)
  <2>1. sends[e] <= attempts[e] + faults + (IF Owed(e) THEN 1 ELSE 0)
    BY DEF PaidFor
  <2>2. CASE e = Current(w)
    <3>1. processed'[e] => Owed(e)'
      BY DEF Owed
    <3>2. sends[e] <= attempts[e] + faults + 1
      BY <1>5, <2>1
    <3>3. attempts'[e] \in Nat /\ attempts'[e] >= attempts[e] /\ sends'[e] = sends[e]
      BY <1>1, <1>6
    <3> QED BY <1>5, <1>7, <2>2, <3>1, <3>2, <3>3
  <2>3. CASE e # Current(w)
    <3>1. Owed(e) => Owed(e)'
      BY <1>2, <1>6, <2>3 DEF Owed
    <3> QED BY <1>1, <1>5, <1>6, <2>1, <3>1
  <2> QED BY <2>2, <2>3
<1> QED BY <1>8 DEF PaidFor

\* Publishing, claiming and the clock change nothing about it.
LEMMA OthersArePaid ==
    ASSUME IInv, PaidFor,
           \/ \E e \in Events : Publish(e)
           \/ \E w \in Workers : Claim(w)
           \/ Tick
           \/ UNCHANGED vars
    PROVE  PaidFor'
<1>1. /\ UNCHANGED <<processed, attempts, faults, sends>>
      /\ \A v \in Workers : pc[v] \in {"record", "report"} =>
             pc'[v] = pc[v] /\ hand'[v] = hand[v]
  BY DEF IInv, TypeOK, Publish, Claim, Tick, vars, row, run, history
<1>2. \A e \in Events : Owed(e) => Owed(e)'
  BY <1>1, CurrentStable DEF Owed
<1>3. faults \in Nat /\ \A e \in Events : attempts[e] \in Nat /\ sends[e] \in Nat
  BY DEF IInv, TypeOK
<1> QED BY <1>1, <1>2, <1>3 DEF PaidFor

\* With the limits in force, however often workers crash and rows are claimed
\* again, a mail is repeated only after a crash or an error between its
\* delivery and the record of it, and at most once for each recorded failure,
\* crash or database error (dispatch_outbox, mark_failed).
THEOREM RepeatsExcused == ASSUME LimitsEnforced PROVE Spec => []RepeatsAreExcused
<1>1. ASSUME Init PROVE PaidFor
  BY <1>1 DEF Init, PaidFor, Owed
<1>2. ASSUME IInv, PaidFor, [Next]_vars PROVE PaidFor'
  BY <1>2, NextCases, DeliverIsPaid, FinishIsPaid, OthersArePaid
<1>3. ASSUME IInv, PaidFor PROVE RepeatsAreExcused
  <2>1. faults \in Nat /\ \A e \in Events : attempts[e] \in Nat /\ sends[e] \in Nat
    BY <1>3 DEF IInv, TypeOK
  <2>2. \A e \in Events : sends[e] <= attempts[e] + faults + 1
    BY <1>3, <2>1 DEF PaidFor
  <2>3. \A e \in Events : sends[e] > 1 => unconfirmed[e]
    BY <1>3 DEF IInv, MailInv
  <2> QED BY <2>2, <2>3 DEF RepeatsAreExcused
<1> QED BY <1>1, <1>2, <1>3, Inductive, PTL DEF Spec
=============================================================================
