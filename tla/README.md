# A TLA+ development of the Workstream API

Workstream is a multi-tenant project and issue tracker: a FastAPI application
over PostgreSQL, a Redis rate limiter, and Celery workers that mail what a
transactional outbox holds. Nothing in it is a long algorithm; what is hard is
that every endpoint is a transaction of several statements at READ COMMITTED,
that many of them run at once, and that workers crash and outlive their
leases. The modules here describe those steps, TLC explores their
interleavings on small instances, and TLAPS proves the properties that matter
for instances of every size.

All paths below are relative to the repository; `service.py` and the like are
under `src/workstream/`.

## 1. Inventory

| part | state | operations | what is hard |
|---|---|---|---|
| outbox (`infrastructure/outbox.py`, `tasks.py`, `celery_app.py`) | `outbox_events`: payload, attempts, lease (`locked_at`, `locked_by`), `available_at`, `processed_at`, `failed_at` | publish (with any business commit), claim a batch, deliver, mark processed, mark failed | mail leaves outside any transaction; crashes between mail and mark; leases that run out under a slow worker; retries at the limit |
| sessions (`modules/auth/router.py`, `api/dependencies.py`) | `auth_sessions`: family, `rotated_at`, `revoked_at`, `expires_at` | login, refresh (rotation, reuse detection), logout, revoke one, revoke all, the revocation in a password reset | two refreshes of one token; an UPDATE that revokes a family while a refresh adds a row to it; deadlock of two reuse detections |
| accounts and one-time tokens (`modules/auth/router.py`) | `users`, `one_time_tokens` | register, verify, resend, request reset, reset | a token used twice; a login racing a reset |
| organizations (`modules/organizations/service.py`) | `organizations`, `memberships` | create, rename, change role, remove member | the last owner; authority that changes between the check and the lock; a stale object in the identity map |
| invitations (same file) | `invitations` | invite, revoke, accept | accept against revoke, accept against accept, a used invitation after a removal |
| projects (`modules/projects/service.py`) | `projects`: name, `archived`, `next_issue_number` | create, update, archive, unarchive | the counter under rollbacks and under other writers of the row |
| issues (`modules/issues/service.py`, `policies.py`) | `issues`: status, version, assignee, `archived_at` | create, update, change status, assign, archive | decisions on a row read before the lock; optimistic concurrency |
| labels (`modules/labels/service.py`) | `labels`, `issue_labels` | create, update, delete, attach, detach | updates that overlap; deletes between a check and an insert |
| comments, notifications | their rows | create, edit, delete; mark read | little: single statements |
| lists (`api/pagination.py` and the routers) | none | keyset pages over `(created_at, id)` | rows that commit out of the order of their `created_at`, or leave and enter the filter between two pages |
| rate limiter (`infrastructure/redis.py`, `api/rate_limit.py`) | one counter per key and window | hit | the edges of a window; failing closed |
| audit log | append-only `audit_events` | written in the others' transactions | what it says must be what happened |
| the rest: `main.py`, `observability.py`, `core/`, `seed.py`, schemas, migrations | none that the others read | probes, metrics, settings, encodings | nothing a model checker reaches |

The parts meet in the database. Every request has one session
(`db/session.py`); it commits once or not at all, and its row locks end with
it. Accounts and invitations hand work to the outbox by inserting an event in
the transaction that makes the token. Issues take their number from the
project's row; role changes, invitations and their audit events meet at the
organization's row, because a foreign key needs a key-share lock on it.

What makes each part correct:

- outbox: an event that was committed is mailed at least once before it is
  marked processed, or is given up after exactly `outbox_max_attempts`
  reported failures; the token is kept until then; a settled row stays settled;
  a mail is repeated only when a run died or raised before recording it; every
  event is settled in the end.
- sessions: one usable token per family; a revoked family is dead; no token is
  exchanged twice or after revocation; nobody waits for ever.
- organizations and invitations: an owner remains; admins do not remove
  owners; an invitation admits once.
- projects and issues: numbers 1, 2, 3 without a gap; one winner per version;
  statuses along the policy and audited as they happened; a project is
  archived exactly when the audit log says so; an archived issue comes to rest.
- rate limiter: a bounded number of requests gets through, whatever is lost on
  the way to Redis, and nobody is refused for ever.
- labels: a label is what one request asked for; tags refer to labels that
  exist.
- lists: a client that follows `next_cursor` sees every row that stays, once.

`PROJECT.json` lists the hazards one by one, with the line at which each bites
and the property that would show it.

## 2. Modules

| module | models | instances |
|---|---|---|
| `AtLeastOnce` | what the outbox promises, with no workers, leases or clocks | refined by `Outbox` |
| `Outbox` | `infrastructure/outbox.py`, `tasks.py` | `MCOutbox` |
| `SessionChain` | what a session is to who holds its tokens: a chain of which only the newest token is exchanged, accepted while it is neither revoked nor expired, and which revocations cut | refined by `Sessions` |
| `Sessions` | refresh, login and the revocations of `modules/auth/router.py` | `MCSessions` |
| `AccountContract` | what one-time tokens, resets and logins of an account come to, with no requests or locks | refined by `Accounts` |
| `Accounts` | the other operations of `modules/auth/router.py` on `users` and `one_time_tokens`, and `login`'s password check | `MCAccounts` |
| `Roster` | what an organization promises about who belongs to it: every change by a manager's mandate, used once, or by an invitation, used once; no locks and no reads | refined by `Organizations` |
| `Organizations` | `modules/organizations/service.py` | `MCOrganizations` |
| `Projects` | `create_issue` and `modules/projects/service.py` | `MCProjects` |
| `IssueLifecycle` | each request makes one change to the version its client sent, or none; none assigns somebody who was no member when it looked; none begins once the issue is archived | refined by `Issues` |
| `Issues` | the other operations of `modules/issues/service.py` | `MCIssues` |
| `RateLimit` | `infrastructure/redis.py`, `api/rate_limit.py` | `MCServices` |
| `Labels` | `modules/labels/service.py` | `MCServices` |
| `Listing` | `api/pagination.py`, `list_` of the issue, comment, notification and audit routers | `MCServices` |
| `...Proofs` | theorems about the module of that name; `ServicesProofs` about `RateLimit`, `Labels` and their composition with `Listing` in `MCServices` | TLAPS |

### How a transaction is modelled

A request is a process `q`. Each of its statements that can block, or after
which others can commit, is an action; statements between which nothing
relevant can change are one action, and the comment says why. Committed data
are variables of the module; what a request has read and not yet written back
is in its own record (`req[q]`, or `pc`, `kind`, `scope`, `todo` in
`Sessions`). Row locks are variables that name their holder. `SELECT ... FOR
UPDATE` and `UPDATE` are enabled when the lock is free and then see the newest
committed row, as PostgreSQL does at READ COMMITTED; a blocked request is one
whose next action is disabled. `Done` ends the transaction and releases its
locks; `Rollback` may end it at any point.

### Outbox

`payload`, `processed`, `failed`, `attempts`, `lockedBy`, `age` (of
`locked_at`) and `wait` (until `available_at`) are the row; `pc`, `hand` and
`held` a run of `dispatch_outbox`. Time is relative and moves with `Tick`; ages
saturate just above the lease, where `locked_at < stale_before` no longer
distinguishes them, so the state space stays finite without a clock. `Claim` is
`claim_events` (the whole transaction: `SKIP LOCKED` makes the choice of rows
and the write of the lease one step); `Deliver`, `DeliverRefused` and
`DeliverRaisesLate` are the outcomes of `deliver`, the last one a mail that
left although an exception was raised; `MarkProcessed...` and `MarkFailed...`
are the finalising transactions with their three outcomes (committed, rolled
back and raised, committed and raised); `Crash` is a killed worker.
`LimitsEnforced` says whether Celery's time limit really ends a run in time;
when it is FALSE a run outlives its lease at will.

### Sessions

A row is `<<f, g>>`, the `g`-th token of family `f`. A revoking `UPDATE` is
three steps: `UpdateBegin` fixes the rows, those committed at that moment;
`UpdateLock` locks them one by one in any order; `UpdateCommit` writes and
commits. `DeadlockVictim` is PostgreSQL's deadlock detector. `missed` and
`raced` are history variables: `missed[q]` has the families of which a token was
exchanged while the UPDATE of `q` ran, and `raced` those whose last revocation
had missed one. A later revocation that missed none takes a family out of
`raced` again, so `SurvivorsWereRaced` speaks of the last revocation only.

`refresh` looks at `expires_at` when it has locked the row, and not again. So
in `SessionChain` an exchange is accepted before it is made (`Accept`,
`Exchange`; a refresh that has the row is `InExchange`): a chain that has
expired accepts none, and an exchange accepted before may still be completed.

### Accounts

One account. `password` counts the passwords it has had, 0 before it is
registered, so that a login that proved an older one can be told from a login
that proved the current one; `opened[s]` is the password login `s` proved. A
token is a model value with its `purpose`; `used` and `expired` are the tokens
with `used_at` and those past `expires_at`. A reset is four steps: the token is
locked and judged (`Present`), the new password is flushed, which locks the
account's row (`ResetFlush`), the UPDATE of `auth_sessions` finds the sessions
committed by then (`ResetRevoke`), and all of it commits (`ResetCommit`).
`late` is a history variable: the logins that checked a password before a reset
committed and committed themselves after it had looked for sessions. `Login`
takes place in both `Sessions` and `Accounts`; the first follows what becomes of
the session, the second what the session proves. The model also has what no document rules
out: a reset leaves other reset tokens usable, and a resend that looked at
`email_verified_at` before a verification committed issues one more token.

### Organizations

One organization, from its creation on: `founded` says that its row has been
committed, `role` holds the memberships, `orgLock` the organization's row lock
(which the creating transaction has on a row that only it sees). A second
creation of the same slug waits for the first at the unique index and is then
refused. The authorisation (`require_membership`) is a step before the lock, as
in the code. `RoleRead` is `lock_member`'s `db.get`: SQLAlchemy's identity map
returns the object already loaded in this session as long as something refers
to it, which is the case exactly in `remove_member` about oneself. The name is
abstracted: `UpdateCommit` only waits for the row and ends.

`accept` inserts its audit event, whose foreign key needs a key-share lock on
the organization, and then the membership, whose primary key may belong to
another acceptance of the same account that has not committed. `AcceptInsert`
waits for both; `AcceptCommit` ends the transaction. Between the two the
acceptance is one of the `KeySharers`, for which `lock_member` waits in turn.

`Roster` makes explicit what authority means here. `require_membership` looks at
the actor once, at the beginning; nothing that happens to the actor later takes
the request back. So a request in flight is a mandate (`MandateOf`): who was let
in, as what, for one use. `Roster!Permitted` is what a mandate allows in the state
in which it is used, and `RosterSpec` says that the code, with its locks, its
early reads and its identity map, allows no more: in particular an owner ends
only by the mandate of an owner that leaves another one, or by leaving under
the mandate of the admin they were, which is the finding `FinalOwner`.

### Projects and Issues

A project begins with `ProjectInsert`, which holds the key in the unique index
until `ProjectCommit`. `CreateAllocate` is `UPDATE ... RETURNING`; `rowLock` is
held to the commit, so a rollback gives the number back. `set_archived` and
`update_project` write only the columns that differ from what they loaded, so
a `set_archived` that another one overtook may find nothing to write and still
leave its audit event. `audited` (what the last audit event says) and `crossed`
(the request of that event wrote nothing, and another one had changed the column
since it looked) are history variables for `ArchivedAsAudited`: every
`set_archived` that writes the column, overtaken or not, must leave it as its
event says. In `Issues`, `Expectable` is the set of versions a client
may send: those it was shown, or with `ClientsGuess` any number the schema
accepts. `members` are the people an issue may be assigned to; they come and go
at any moment (`Join`, `Leave`: `accept` and `remove_member`, which share no lock
with an issue). `assign` looks at them first (`AssignValidate`) and then loads the
issue (`AssignRead`), so it may assign somebody who has left; that it assigns
nobody who was not a member when it looked is a part of `LifecycleSpec`.

### RateLimit

One Redis key: `count`, and `ttl` in ticks. `Script` is the Lua script, which
Redis runs as one step; `Hit` and `ReplyLost` are a call whose reply arrives
and one whose reply is lost. The count saturates just above the limit, where
the code no longer tells counts apart. `watch` and `admitted` belong to an
observer who begins to count at any moment, for as long as a window, so that
`AtMostTwiceTheLimit` speaks of every interval and not only of the key's own
windows.

### Labels

A row is `NotYet`, a name and a colour, or `Deleted`. Each request is a step
that reads and a step that writes and commits. `Flushed` is SQLAlchemy's flush:
of the two columns `update_` assigns, those that differ from what was loaded
are written. `asked` and `mixed` are history variables: what the last request
that set the label asked for, and which columns of it that request did not
write although another one had changed them since it looked. Every other column
must be as asked for (`WholeUnlessOvertaken`).

### Listing

`rows` are issues, in `Projects`, or rows of another list, in `Threads`
(a user's notifications, an issue's comments, an organization's audit events:
the four routers build the same query, and only the one of issues has a
direction and filters). A row is begun, stamped with `created_at`, and visible
when it commits; it may leave the filter, come back into it, or go for good.
`clock` advances between the stamp and the commit, so a committed row is older
than now, but two rows may have one stamp. `walk` is a client that follows
`next_cursor` in one direction to the end: `FullPage` returns `limit` rows and
the key of the last, `LastPage` what is left. `stayed` is a history variable,
the rows that were there when the walk began and have not left since.

## 3. Runs

| run | instance | question |
|---|---|---|
| `outbox_limits` | 3 events (one never deliverable), 2 workers, batches of 2, lease 1, 2 attempts, 1 fault, limits in force | two hands? unexcused repeats, or more of them than failures and faults allow? does every event settle? |
| `outbox_stalled` | 2 events, 2 workers that may outlive the lease, 1 fault | do late writes stay harmless? is at-least-once delivery implemented? |
| `sessions_races` | 1 family of up to 3 tokens, 2 requests; refresh, logout (an UPDATE of unrevoked rows), reset (an UPDATE of all rows) | one usable token? do only raced families survive? is `SessionChain` implemented? does every request end? |
| `sessions_revocation` | up to 2 tokens; refresh and logout | **violated**: revocation ends a session |
| `accounts_races` | 3 tokens, 2 logins, 2 requests | is `AccountContract` implemented: does a token work once, and whole? is there one password for each reset token used, and one more? which sessions outlive a reset? does every request end? |
| `organizations_races` | 2 users, 2 requests, 2 invitations | last owner, audit, standstill; is `Roster` implemented: is every change of the members made by a manager's mandate, or by an invitation, each used once? |
| `organizations_owner` | 2 users, 2 requests, 1 invitation | **violated**: an owner remains |
| `projects_races` | 3 requests, 3 issues, 2 names | numbering under rollbacks and other writers; is what is audited true? |
| `projects_archived` | 2 requests, 2 issues | **violated**: no issue in an archived project |
| `issues_races` | 2 requests, versions to 4, 1 person who joins and leaves | one winner per version; audit; is `IssueLifecycle` implemented: one change each, along the policy, and only members assigned? do requests about an archived issue end? |
| `issues_guess` | 2 requests, versions to 3, clients guess | **violated**: the audit's "from" is exact |
| `services_races` | limiter: limit 2, window 3 ticks; labels: 2 labels, 2 names, 2 colours, 1 issue, 2 requests; listing: 3 rows, 2 projects, 1 thread, pages of 1, stamps 0 to 2 | how many get through? does refusal end? whose is a label? does a walk see every row once, and which late rows does it miss? |

The bounds are the smallest at which each hazard occurs: two requests (or
workers) on one row, a third token so that one can be reused while the newest
is refreshed, two invitations so that two acceptances meet at the primary key,
a third event so that a batch is left over, three tokens so that an
account is verified and reset twice, three requests in `Projects` so
that two wait for the lock a third one holds, two names and two colours so that
overlapping updates of a label can mix and collide, a window of
several ticks so that an interval lies across two windows, and three rows on
pages of one so that a walk has a page between the first and the last while a
third row changes. The proofs of section 5 remove
these bounds for the safety properties. TLC also evaluates the modules'
assumptions.

`RateLimit`, `Labels` and `Listing` share no state, and one run checks all
three: in `MCServices` the variable `part` names, once and for all, the one
that moves, and the other two stay in their initial states. So the run explores
the sum of their state spaces and not the product, and its next-state relation
contains every action of each.

Deadlock is checked except in `Organizations`, `Issues` and `MCServices`: an
organization that has lost its last owner and its managers, an archived issue,
labels that have all been deleted and a walk that has ended accept no further
request, so those systems really may stop.

Symmetry is used only in `organizations_races`, which has no liveness
property.

`MCOutboxLimits.cfg` caps the mails of an event the run distinguishes at
`SendCap` = 5, above the 2 + 1 + 1 that `RepeatsAreExcused` allows, so that an
excess would be seen.

Each property has a mutant of a mapped definition (the operators commented
"Plausible bug") under which TLC finds it violated.

### What the violated properties show

- `RevocationEndsSession`: the revoking UPDATE does not see the successor row
  of a refresh that commits while it waits. `SurvivorsWereRaced` says that this
  is the only way to survive.
- `FinalOwner`: `remove_member` about oneself goes on with the role loaded
  before the lock. An admin whose self-removal waits, and who is made the only
  owner meanwhile, leaves the organization without one.
  `LastOwnerLeavesOnlyStale` says that this is the only way.
- `ArchivedTakesNoIssue`: `project.archived` is read before the row is locked.
- `AuditIsExact` with guessing clients: `change_status` judges the status it
  read before the UPDATE compared versions. With clients that send versions
  they were shown the property holds (`issues_races`).

## 4. Fairness

Safety properties assume none. `EventuallySettled` assumes that beat goes on
sending the task (weak fairness of `Claim`), that a run which is not killed
goes on (SMTP has a timeout; weak fairness of `Work`) and that time passes;
crashes and database errors are bounded by `MaxFaults`, for without a bound no
event need ever be settled. `EveryRequestEnds` assumes strong fairness of a
request's steps: the server runs every request on and PostgreSQL queues lock
requests, so a waiting statement is not passed over for ever; and that the
deadlock detector runs. `ArchivedComesToRest` assumes the same. `RefusalEnds`
assumes only that time passes (weak fairness of `Tick`), and holds although
clients may go on trying at every moment. No request has to be sent, no rollback to happen.

## 5. Proofs

TLAPS checks the theorems of the modules named `...Proofs` for every value of
the constants that satisfies the named assumption of the module (distinct
"no such" values, finite sets where a cardinality is taken, positive bounds).
Each proof has the same plan: an inductive invariant `IInv` that contains the
type invariant, `InitEstablishes`, one lemma per action (or per group of
actions that change the same things), `StepPreserves`, `Inductive`
(`Spec => []IInv`), and then the properties as consequences of `IInv`, or of
`IInv` and one step. A refinement adds `Init => Abstract!Init` and one lemma per
action that says which abstract step it is, or that it is a stutter.

| module | theorems | why the invariant needs strengthening |
|---|---|---|
| `OutboxProofs` | `TypeOK`, `LeaseProtects`, `SingleHolder`, `RepeatsAreExcused`, `ProcessedWasMailed`, `TokenUntilProcessed`, `FailedIffExhausted`, `SettledIsFinal`, and that `Outbox` implements `AtLeastOnce` | what a run holds is tied to the row's `lockedBy` and to the age of the lease; with the limits in force a run's age bounds that of its leases, so a row that can be claimed is in nobody's hand. For the number of repeats, every mail is charged to a recorded failure, a fault, the final mark, or the one run that holds the event and has still to record it (`PaidFor`, `Owed`) |
| `SessionsProofs` | `TypeOK`, `OneTip`, `RevokedOnRequest`, `SurvivorsWereRaced`, `RotationIsEarned`, `RevokedTipIsFinal`, `StuckOnlyInCircles`, and that `Sessions` implements `SessionChain` | the row a refresh holds locked is still its family's usable tip (`Presented`); an UPDATE that was not raced has revoked, locked or still to lock every row of its families (`Covering`); a family so revoked is dead for good (`Settled`). For the refinement, what is revoked in a family, and what an UPDATE in flight will add to it, is a beginning of the family (`RevokedIsCut`), although an UPDATE locks its rows in any order. A refresh that has been accepted has exactly one row until it commits (`Holding`), which makes it the one exchange of its chain that is under way. That requests stand still only in circles needs this too, and that a smallest set of requests which all wait for one another is a circle: a minimum, which the library's well-founded orderings give without an induction on the length of the circle (`WaitersHaveCircle`) |
| `AccountsProofs` | `TypeOK`, `TokensAreOneTime`, `OldPasswordsAreLate`, `EffectsAreAccounted`, and that `Accounts` implements `AccountContract` | a token that a request has locked is still unused at its commit (`Held`); a registration in flight is the first (`First`); a reset that has looked for sessions has seen all that are not late (`Seen`). For the refinement, what a request in flight goes by is still so: the sessions a reset has found were opened, the password a login proved was once the account's, the account of a resend exists (`Grounded`). For the count of passwords, what was used had been issued, and nothing is issued before there is an account (`Accounted`) |
| `OrganizationsProofs` | `TypeOK`, `AuditedRoleIsCurrent`, `LastOwnerLeavesOnlyStale`, `AdminsRemoveNoOwner`, `AdmissionUsesInvitation`, `WaitingIsShort`, `SomebodyProceeds`, and that `Organizations` implements `Roster` | an organization in creation is not there yet (`Founding`); what the checks after `lock_member` found stays true until the commit, in particular that another owner exists (`Checked`); an acceptance is alone with its invitation (`Admitting`); an invitation is created once (`Inviting`) and is there when it is revoked (`Revoking`); a request to change a role was let in for an owner (`Asked`); nothing but the creation happens before the organization is there (`FoundedFirst`); an acceptance that has inserted its rows keeps `lock_member` out and is alone with the key of its membership (`Joining`). For the refinement, the mandate a request was given and what its checks have found are together what `Roster` permits (`WriteIsPermitted`). Absence of deadlock needs the type invariant's part about locks only: each is held exactly between its statement and the commit |
| `ProjectsProofs` | `TypeOK`, `NumbersAreDense`, `NumberIsFree`, `ArchivedAsAudited`, `OverrunIsBounded` | a number in flight is the counter itself, for its request has the row locked; a `set_archived` under which nobody changed the column still has it as loaded; `RoomLeft` only serves the bound `MaxIssues` |
| `ServicesProofs` | that `MCServices` implements its three parts; its `TypeOK`; `LimiterTypeOK`, `AtMostTwiceTheLimit`, `WindowsAreFixed`; `LabelsTypeOK`, `WholeUnlessOvertaken` | what the observer has counted is bounded by what the current window has let through and, if the observer began before it, by one window more; a column that nobody changed under an update is still as that update loaded it (`Fresh`) |
| `ListingProofs` | `ListingTypeOK`, `WalkIsComplete`, `LateOnlyAcrossProjects` | one creation per project is open, so the stamps of a project are in the order of its commits (`OneOpen`, `StampOrder`); committed rows are older than now (`Past`); every listed row is up to the cursor, every row that stayed and is not listed beyond it (`CursorIsLast`, `StillToCome`) |
| `IssuesProofs` | `TypeOK`, `OneWinnerPerVersion`; with `~ClientsGuess` also `AuditIsExact` and `TransitionsAreAllowed`; and, whatever clients send, that `Issues` implements `IssueLifecycle` | a version stands for one status, so a request that read the version it replaces read the status it replaces (`Snapshot`); an honest client's version is not ahead of what its request read (`Shown`); who is about to be assigned is one of the people (`Asked`) |

The theorems about `RateLimit`, `Labels` and `Listing` are about each module's
own specification (`LimiterSpec`, `LabelsSpec`, `ListingSpec`). `PartsImplement`
(`Spec => LimiterSpec /\ LabelsSpec /\ ListingSpec`) carries them over to the
specification of `MCServices`, which is what the run checks.

### Theorems beyond the runs

Some theorems state properties that no run lists, because a run's instance
shows nothing of them or another property of the run implies them:

- `RevokedOnRequest` (no request revokes a family it is not about) needs two
  families; the theorem covers any number. `NumberIsFree` (a number in flight
  is no issue's) is part of the argument for `NumbersAreDense`.
- `RotationIsEarned`, `TokensAreOneTime`, `AdminsRemoveNoOwner`,
  `AdmissionUsesInvitation` and `TransitionsAreAllowed` say of single steps what
  the refinements `ChainSpec`, `ContractSpec`, `RosterSpec` and `LifecycleSpec`
  say of whole behaviours. The runs check the refinements. `RotationIsEarned`
  tells acceptance, of the newest token of a family, neither revoked nor
  expired, from the exchange itself, of a token accepted before and not revoked
  since.
- `WindowsAreFixed` (the time to live of a limiter key only runs down, and its
  count falls only when the key expires) is the safety half of `RefusalEnds`:
  trying again does not prolong a refusal.
- `WaitingIsShort` and `SomebodyProceeds`: `SomebodyProceeds` is the first
  conjunct of `NoStandstill`, `WaitingIsShort` the lock order it follows from:
  the invitation, then the organization or the key of the membership. An
  acceptance that has inserted waits for nobody, so a chain of waiting requests
  has at most two links.
- `StuckOnlyInCircles` is the safety half of `EveryRequestEnds` of `Sessions`:
  whatever the requests and however many, while none of them can go on
  (`CanGoOn`, the guards of `Proceed`) some wait in a circle of which
  `DeadlockVictim` can choose one. That one can always go on would be wrong: two
  reuse detections do deadlock.

Five theorems bound what the findings of section 3 can do:
`SurvivorsWereRaced` and `RevokedTipIsFinal` (a revocation misses at most what
a racing refresh adds, and one that reached the newest token is final),
`LastOwnerLeavesOnlyStale` (the last owner is lost only by a stale
self-removal), `OverrunIsBounded` (an archived project gains at most the issues
whose creation had looked before) and `AuditIsExact` under `~ClientsGuess`.

## 6. Only model-checked

`EventuallySettled`, `EveryRequestEnds` (of `Sessions`, `Projects` and
`Accounts`), `ArchivedComesToRest` and `RefusalEnds` are liveness under
fairness, and the second conjunct of `NoStandstill` (a request under way waits
for a lock exactly if its next step is not enabled) speaks of `ENABLED`. Both
are out of TLAPS's reach and rest on the instances of section 3. Every other
property of a passing run is proved.

## 7. Not modelled

Encodings, hashes, JWTs and schemas are identities or input ranges. The
authority of the actor is not modelled in `Projects`, `Issues` and `Labels`,
where no operation changes it: each request there is one that
`require_membership` has let in, as in `Organizations`. Health probes, metrics, settings, the seed script and
migrations have no state that the other parts read.

Of the parts that are modelled:

- comments: editing the body (the last writer wins, and nothing else depends on
  it); notifications: the read marks, which are single idempotent statements.
- lists: the filters one by one (a row is in the filter or not), the search,
  clocks of several servers that disagree, and a walk that changes its filter
  between pages. Rows that an edit brings back into the filter are outside
  `LateOnlyAcrossProjects`: an ascending walk may miss them.
- rate limiter: the rounding of `Retry-After`, and Redis losing a key by
  eviction or restart, which lets a client begin a new window.
- labels: what the client is told (a taken name is 409 in `create` and an
  unhandled error in `update_`, a tag for a label just deleted likewise); the
  model has their effect, which is none.

## 8. What is left

1. A composition of `Accounts` with `Sessions` (what a late login's session can
   do until it is revoked) and of `Accounts` with `AtLeastOnce` (a token reaches
   its owner only by a mail, and may reach them twice).
2. A composition of `Issues` with `Projects` for creation in an archived
   project, and of both with `Roster` for requests of actors who have left.
3. A fault model that tells one event's crashes from another's, so that a
   delivery that kills its worker can be told from bad luck.
