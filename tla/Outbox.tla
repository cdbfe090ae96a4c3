------------------------------- MODULE Outbox -------------------------------
(***************************************************************************)
(* The transactional outbox: rows of outbox_events, the dispatch task that *)
(* claims a batch of them under a lease, mails each event outside any      *)
(* transaction and records the outcome in a transaction of its own         *)
(* (infrastructure/outbox.py, infrastructure/tasks.py).                    *)
(*                                                                         *)
(* Time is relative: a row carries the age of its lease and the time until *)
(* it is available, a worker the time since it claimed, and Tick moves all *)
(* of them.  Ages saturate just above Lease, where nothing in the code can *)
(* tell them apart any more.  An event's number is its rank in the         *)
(* (occurred_at, id) order of the claim query; occurred_at is the start of *)
(* the publishing transaction, so commits come in any order.               *)
(***************************************************************************)
EXTENDS Integers, FiniteSets

CONSTANTS
    NumEvents,       \* events are 1 .. NumEvents
    Workers,         \* identities "<host>:<task id>" that runs of the task use
    NoWorker,        \* locked_by IS NULL
    BatchSize,       \* batch_size of dispatch_outbox
    Lease,           \* outbox_claim_seconds
    TaskLimit,       \* task_time_limit
    LimitsEnforced,  \* FALSE: a stalled host lets a task outlive TaskLimit
    MaxAttempts,     \* outbox_max_attempts
    MaxBackoff,      \* the 3600 seconds of mark_failed
    Undeliverable,   \* events that deliver() always refuses
    MaxFaults,       \* bound: crashes and database errors of one behaviour
    SendCap          \* bound: sends are counted up to here

Events == 1 .. NumEvents

ASSUME OutboxAssumption ==
    /\ NumEvents \in Nat
    /\ NoWorker \notin Workers
    /\ BatchSize \in Nat \ {0}
    /\ Lease \in Nat
    /\ TaskLimit \in Nat
    /\ TaskLimit <= Lease
    /\ LimitsEnforced \in BOOLEAN
    /\ MaxAttempts \in Nat \ {0}
    /\ MaxBackoff \in Nat
    /\ Undeliverable \subseteq Events
    /\ MaxFaults \in Nat
    /\ SendCap \in Nat \ {0, 1}

VARIABLES
    payload,      \* payload[e]: "none" before the row exists, "token", "delivered"
    processed,    \* processed_at IS NOT NULL
    failed,       \* failed_at IS NOT NULL
    attempts,     \* the attempts column
    lockedBy,     \* the locked_by column
    age,          \* now - locked_at, up to Lease + 1
    wait,         \* available_at - now, 0 once the row is available
    pc,           \* pc[w]: what the task run of w does next
    hand,         \* hand[w]: the claimed events it has not finished
    held,         \* held[w]: time since it claimed them, up to Lease + 1
    faults,       \* faults so far
    sends,        \* sends[e]: mails of e that left, up to SendCap
    unconfirmed   \* unconfirmed[e]: a mail of e left and was never recorded

row == <<payload, processed, failed, attempts, lockedBy, age, wait>>
run == <<pc, hand, held>>
history == <<sends, unconfirmed>>
vars == <<row, run, faults, history>>

Init ==
    /\ payload = [e \in Events |-> "none"]
    /\ processed = [e \in Events |-> FALSE]
    /\ failed = [e \in Events |-> FALSE]
    /\ attempts = [e \in Events |-> 0]
    /\ lockedBy = [e \in Events |-> NoWorker]
    /\ age = [e \in Events |-> 0]
    /\ wait = [e \in Events |-> 0]
    /\ pc = [w \in Workers |-> "idle"]
    /\ hand = [w \in Workers |-> {}]
    /\ held = [w \in Workers |-> 0]
    /\ faults = 0
    /\ sends = [e \in Events |-> 0]
    /\ unconfirmed = [e \in Events |-> FALSE]

-----------------------------------------------------------------------------
\* The business transaction that adds the event commits.
Publish(e) ==
    /\ payload[e] = "none"
    /\ payload' = [payload EXCEPT ![e] = "token"]
    /\ UNCHANGED <<processed, failed, attempts, lockedBy, age, wait,
                   run, faults, history>>

\* Plausible bug: the retry path forgets that a leased row is taken.
ClaimableIgnoringLease(e) ==
    /\ payload[e] # "none"
    /\ ~processed[e]
    /\ ~failed[e]
    /\ wait[e] = 0

\* Plausible bug: a lease is never taken over, "stale leases are reclaimable"
\* is forgotten.
ClaimableOnce(e) ==
    /\ payload[e] # "none"
    /\ ~processed[e]
    /\ ~failed[e]
    /\ wait[e] = 0
    /\ lockedBy[e] = NoWorker

\* The WHERE clause of claim_events.
Claimable(e) ==
    /\ payload[e] # "none"
    /\ ~processed[e]
    /\ ~failed[e]
    /\ wait[e] = 0
    /\ lockedBy[e] = NoWorker \/ age[e] > Lease

\* ORDER BY occurred_at, id LIMIT batch_size.  SKIP LOCKED needs no step of
\* its own: a row it skips is one that another transaction is changing, and
\* the claim that runs after that transaction sees the row not claimable.
ClaimBatch ==
    LET open == {e \in Events : Claimable(e)}
    IN  {e \in open : Cardinality({f \in open : f < e}) < BatchSize}

Claim(w) ==
    /\ pc[w] = "idle"
    /\ ClaimBatch # {}
    /\ lockedBy' = [e \in Events |-> IF e \in ClaimBatch THEN w ELSE lockedBy[e]]
    /\ age' = [e \in Events |-> IF e \in ClaimBatch THEN 0 ELSE age[e]]
    /\ hand' = [hand EXCEPT ![w] = ClaimBatch]
    /\ held' = [held EXCEPT ![w] = 0]
    /\ pc' = [pc EXCEPT ![w] = "deliver"]
    /\ UNCHANGED <<payload, processed, failed, attempts, wait, faults, history>>

-----------------------------------------------------------------------------
\* The loop of dispatch_outbox takes the batch in the order of the query.
Oldest(batch) == CHOOSE e \in batch : \A f \in batch : e <= f

Current(w) == Oldest(hand[w])

\* The loop goes on to the next event, or the run of the task is over.
Advance(w) ==
    /\ hand' = [hand EXCEPT ![w] = @ \ {Current(w)}]
    /\ pc' = [pc EXCEPT ![w] = IF hand'[w] = {} THEN "idle" ELSE "deliver"]
    /\ held' = [held EXCEPT ![w] = IF hand'[w] = {} THEN 0 ELSE @]

\* The run ends with the rest of its batch still leased.
Abandon(w) ==
    /\ hand' = [hand EXCEPT ![w] = {}]
    /\ pc' = [pc EXCEPT ![w] = "idle"]
    /\ held' = [held EXCEPT ![w] = 0]

Goto(w, label) ==
    /\ pc' = [pc EXCEPT ![w] = label]
    /\ UNCHANGED <<hand, held>>

Mailed(e) == sends' = [sends EXCEPT ![e] = IF @ < SendCap THEN @ + 1 ELSE @]

Lost(e) == unconfirmed' = [unconfirmed EXCEPT ![e] = TRUE]

\* deliver() returns: the mail server took the message.
Deliver(w) ==
    /\ pc[w] = "deliver"
    /\ Current(w) \notin Undeliverable
    /\ Mailed(Current(w))
    /\ Goto(w, "record")
    /\ UNCHANGED <<row, faults, unconfirmed>>

\* deliver() raises: the payload or the topic is refused, or SMTP fails,
\* or the soft time limit strikes, before the message was taken.
DeliverRefused(w) ==
    /\ pc[w] = "deliver"
    /\ Goto(w, "report")
    /\ UNCHANGED <<row, faults, history>>

\* deliver() raises although the message was taken (the connection breaks
\* after DATA, or the soft time limit strikes).
DeliverRaisesLate(w) ==
    /\ pc[w] = "deliver"
    /\ Current(w) \notin Undeliverable
    /\ Mailed(Current(w))
    /\ Lost(Current(w))
    /\ Goto(w, "report")
    /\ UNCHANGED <<row, faults>>

-----------------------------------------------------------------------------
\* The values mark_processed writes, and what the loop does not see of them.
SetProcessed(e) ==
    /\ processed' = [processed EXCEPT ![e] = TRUE]
    /\ payload' = [payload EXCEPT ![e] = "delivered"]
    /\ lockedBy' = [lockedBy EXCEPT ![e] = NoWorker]
    /\ age' = [age EXCEPT ![e] = 0]
    /\ UNCHANGED <<failed, attempts, wait>>

\* Plausible bug: the UPDATE of mark_processed is not restricted to the lease.
UpdateProcessedAnyway(e, w) ==
    SetProcessed(e) /\ UNCHANGED unconfirmed

\* Plausible bug: the payload is left as it was.
UpdateProcessedKeepingToken(e, w) ==
    \/ /\ lockedBy[e] = w
       /\ processed' = [processed EXCEPT ![e] = TRUE]
       /\ lockedBy' = [lockedBy EXCEPT ![e] = NoWorker]
       /\ age' = [age EXCEPT ![e] = 0]
       /\ UNCHANGED <<payload, failed, attempts, wait, unconfirmed>>
    \/ lockedBy[e] # w /\ Lost(e) /\ UNCHANGED row

\* Plausible bug: processed_at is forgotten.
UpdateProcessedUnstamped(e, w) ==
    \/ /\ lockedBy[e] = w
       /\ lockedBy' = [lockedBy EXCEPT ![e] = NoWorker]
       /\ age' = [age EXCEPT ![e] = 0]
       /\ UNCHANGED <<payload, processed, failed, attempts, wait, unconfirmed>>
    \/ lockedBy[e] # w /\ Lost(e) /\ UNCHANGED row

\* UPDATE ... WHERE id = e AND locked_by = w: no row when the lease is gone.
UpdateProcessed(e, w) ==
    \/ lockedBy[e] = w /\ SetProcessed(e) /\ UNCHANGED unconfirmed
    \/ lockedBy[e] # w /\ Lost(e) /\ UNCHANGED row

\* mark_processed commits and the loop goes on.
MarkProcessed(w) ==
    /\ pc[w] = "record"
    /\ UpdateProcessed(Current(w), w)
    /\ Advance(w)
    /\ UNCHANGED <<faults, sends>>

\* mark_processed raises, its transaction rolled back: the except clause
\* reports a failed delivery of a message that left.
MarkProcessedRaises(w) ==
    /\ pc[w] = "record"
    /\ faults < MaxFaults
    /\ faults' = faults + 1
    /\ Lost(Current(w))
    /\ Goto(w, "report")
    /\ UNCHANGED <<row, sends>>

\* mark_processed raises although its transaction committed (the connection
\* broke while the answer was on its way).
MarkProcessedInDoubt(w) ==
    /\ pc[w] = "record"
    /\ faults < MaxFaults
    /\ faults' = faults + 1
    /\ UpdateProcessed(Current(w), w)
    /\ Goto(w, "report")
    /\ UNCHANGED sends

-----------------------------------------------------------------------------
\* min(3600, 2 ** attempts) and a jitter of up to a fifth of it.
Backoff(n) ==
    LET base == IF 2 ^ n < MaxBackoff THEN 2 ^ n ELSE MaxBackoff
    IN  {d \in 0 .. 2 * MaxBackoff : base <= d /\ d <= base + base \div 5}

\* Plausible bug: the limit is compared before the failure is counted.
SetFailedOffByOne(e) ==
    /\ attempts' = [attempts EXCEPT ![e] = @ + 1]
    /\ lockedBy' = [lockedBy EXCEPT ![e] = NoWorker]
    /\ age' = [age EXCEPT ![e] = 0]
    /\ \/ /\ attempts[e] >= MaxAttempts
          /\ failed' = [failed EXCEPT ![e] = TRUE]
          /\ UNCHANGED wait
       \/ /\ attempts[e] < MaxAttempts
          /\ \E d \in Backoff(attempts[e] + 1) : wait' = [wait EXCEPT ![e] = d]
          /\ UNCHANGED failed
    /\ UNCHANGED <<payload, processed>>

\* What mark_failed writes into the row it locked.
SetFailed(e) ==
    /\ attempts' = [attempts EXCEPT ![e] = @ + 1]
    /\ lockedBy' = [lockedBy EXCEPT ![e] = NoWorker]
    /\ age' = [age EXCEPT ![e] = 0]
    /\ \/ /\ attempts'[e] >= MaxAttempts
          /\ failed' = [failed EXCEPT ![e] = TRUE]
          /\ UNCHANGED wait
       \/ /\ attempts'[e] < MaxAttempts
          /\ \E d \in Backoff(attempts'[e]) : wait' = [wait EXCEPT ![e] = d]
          /\ UNCHANGED failed
    /\ UNCHANGED <<payload, processed>>

\* Plausible bug: mark_failed locks the row by its id only.
RecordFailureAnyway(e, w) == SetFailed(e)

\* mark_failed returns early when the row is no longer leased to w.
RecordFailure(e, w) ==
    \/ lockedBy[e] = w /\ SetFailed(e)
    \/ lockedBy[e] # w /\ UNCHANGED row

MarkFailed(w) ==
    /\ pc[w] = "report"
    /\ RecordFailure(Current(w), w)
    /\ Advance(w)
    /\ UNCHANGED <<faults, history>>

\* mark_failed raises inside the except clause: nothing catches it, and the
\* task run ends.  Its transaction may have committed or not.
MarkFailedRaises(w) ==
    /\ pc[w] = "report"
    /\ faults < MaxFaults
    /\ faults' = faults + 1
    /\ UNCHANGED row \/ RecordFailure(Current(w), w)
    /\ Abandon(w)
    /\ UNCHANGED history

\* The worker process is killed (hard time limit, deployment, lost host).
\* Celery runs the task again, which is a Claim like any other.
Crash(w) ==
    /\ pc[w] # "idle"
    /\ faults < MaxFaults
    /\ faults' = faults + 1
    /\ \/ pc[w] = "record" /\ Lost(Current(w))
       \/ pc[w] # "record" /\ UNCHANGED unconfirmed
    /\ Abandon(w)
    /\ UNCHANGED <<row, sends>>

-----------------------------------------------------------------------------
Older(n) == IF n <= Lease THEN n + 1 ELSE n

\* One unit of time.  With the limits enforced, no task run is older than
\* TaskLimit: it has ended or has been killed by then.
Tick ==
    /\ LimitsEnforced => \A w \in Workers : pc[w] # "idle" => held[w] < TaskLimit
    /\ age' = [e \in Events |-> IF lockedBy[e] = NoWorker THEN 0 ELSE Older(age[e])]
    /\ wait' = [e \in Events |-> IF wait[e] = 0 THEN 0 ELSE wait[e] - 1]
    /\ held' = [w \in Workers |-> IF pc[w] = "idle" THEN 0 ELSE Older(held[w])]
    /\ UNCHANGED <<payload, processed, failed, attempts, lockedBy,
                   pc, hand, faults, history>>

\* What a task run does unless something kills it.
Work(w) ==
    \/ Deliver(w) \/ DeliverRefused(w) \/ DeliverRaisesLate(w)
    \/ MarkProcessed(w) \/ MarkProcessedRaises(w) \/ MarkProcessedInDoubt(w)
    \/ MarkFailed(w) \/ MarkFailedRaises(w)

Next ==
    \/ \E e \in Events : Publish(e)
    \/ \E w \in Workers : Claim(w) \/ Work(w) \/ Crash(w)
    \/ Tick

\* Beat keeps sending the task (every five seconds), a run that is not killed
\* goes on (SMTP has a timeout of ten seconds), and time passes.  Nothing is
\* assumed of publishers, of the outcome of a delivery or of crashes, except
\* that there are at most MaxFaults of the latter.
Fairness ==
    /\ WF_vars(Tick)
    /\ \A w \in Workers : WF_vars(Claim(w)) /\ WF_vars(Work(w))

Spec == Init /\ [][Next]_vars /\ Fairness

-----------------------------------------------------------------------------
\* The variables hold values of their types, and an idle worker has no batch.
TypeOK ==
    /\ payload \in [Events -> {"none", "token", "delivered"}]
    /\ processed \in [Events -> BOOLEAN]
    /\ failed \in [Events -> BOOLEAN]
    /\ attempts \in [Events -> 0 .. MaxAttempts]
    /\ lockedBy \in [Events -> Workers \cup {NoWorker}]
    /\ age \in [Events -> 0 .. Lease + 1]
    /\ wait \in [Events -> Nat]
    /\ pc \in [Workers -> {"idle", "deliver", "record", "report"}]
    /\ hand \in [Workers -> SUBSET Events]
    /\ held \in [Workers -> 0 .. Lease + 1]
    /\ faults \in 0 .. MaxFaults
    /\ sends \in [Events -> 0 .. SendCap]
    /\ unconfirmed \in [Events -> BOOLEAN]
    /\ \A w \in Workers : pc[w] = "idle" <=> hand[w] = {}

Settled(e) == processed[e] \/ failed[e]

\* A row says "processed" only if its mail really left, whoever finalised it,
\* and never both "processed" and "failed" (mark_processed, mark_failed).
ProcessedWasMailed ==
    \A e \in Events : processed[e] => sends[e] > 0 /\ ~failed[e]

\* The raw token is in the row exactly from publication until the row is
\* processed ("Successful delivery removes raw token material").
TokenUntilProcessed ==
    \A e \in Events : payload[e] = "delivered" <=> processed[e]

\* An event is given up exactly when its recorded failures reach
\* outbox_max_attempts, whatever stale workers report about it.
FailedIffExhausted ==
    \A e \in Events : failed[e] <=> attempts[e] = MaxAttempts

\* While a run is within the lease it took, it holds that lease for every
\* event it has still to finish: nobody else can claim or finalise them.
\* The one exception is an event whose mark_processed committed and raised.
LeaseProtects ==
    \A w \in Workers : \A e \in hand[w] :
        held[w] <= Lease =>
            \/ lockedBy[e] = w /\ age[e] = held[w]
            \/ pc[w] = "report" /\ e = Current(w) /\ processed[e]

\* With the task time limits in force (60 s against a lease of 120 s), no
\* event is in the hands of two runs at once.
SingleHolder ==
    \A v, w \in Workers : v # w => hand[v] \cap hand[w] = {}

\* With the limits in force, a mail is repeated only if an earlier one left
\* and its run crashed or raised before that was recorded; and an event whose
\* delivery keeps failing or killing its worker is mailed no more than once
\* for each recorded failure, crash or database error, and once more.
RepeatsAreExcused ==
    \A e \in Events : /\ sends[e] > 1 => unconfirmed[e]
                      /\ sends[e] <= attempts[e] + faults + 1

SameRow(e) ==
    /\ payload'[e] = payload[e] /\ processed'[e] = processed[e]
    /\ failed'[e] = failed[e] /\ attempts'[e] = attempts[e]
    /\ lockedBy'[e] = lockedBy[e]

\* A settled row is never written again: not claimed, not retried, not
\* reopened by a worker that comes back after its lease was taken over.
SettledIsFinal == [][\A e \in Events : Settled(e) => SameRow(e)]_vars

\* Under Fairness, every committed event is eventually processed or given up, although
\* workers crash, leases are left behind and the database fails at times.
EventuallySettled ==
    \A e \in Events : payload[e] = "token" ~> Settled(e)

\* The stage of an event as AtLeastOnce sees it.
Stage(e) ==
    CASE payload[e] = "none" -> "unborn"
      [] payload[e] # "none" /\ processed[e] -> "processed"
      [] payload[e] # "none" /\ ~processed[e] /\ failed[e] -> "dead"
      [] payload[e] # "none" /\ ~processed[e] /\ ~failed[e] -> "pending"

Promise == INSTANCE AtLeastOnce WITH
    MaxTries <- MaxAttempts,
    stage <- [e \in Events |-> Stage(e)],
    tries <- attempts,
    mailed <- {e \in Events : sends[e] > 0},
    secret <- {e \in Events : payload[e] = "token"}

\* The outbox implements at-least-once delivery: every step of publishers,
\* workers, crashes and clocks is a step of AtLeastOnce or none.
PromiseSpec == Promise!Spec
=============================================================================
