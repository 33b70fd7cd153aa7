# Ferrum Nexus in TLA+

Ferrum Nexus is an API portal in front of the Ferrum Edge gateway. The portal's
database says who may call which API; the gateway enforces it. The two are
separate systems with no common transaction, several portal instances write to
both, and either can fail in the middle. This project models the part of the
portal that keeps them in agreement, checks it with TLC on small instances and
proves what it rests on with TLAPS.

Paths below are relative to `src/server/src/`.

## 1. The system

### Components

| Part | State | Operations | What makes it correct |
|---|---|---|---|
| Keyed critical sections (`lib/keyed-serializer.ts`, `lib/lease-fence.ts`) | promise chain per key and process; lease rows in the database; the leases the async context carries | `serializePerKey`, `takeLease`, `underLease`, renewal, release; `fenceTransactionBody` around every transaction | no committed update is computed from data another holder has changed; every waiter is answered |
| Access (`access/service.ts`) | access requests, grants, `access_gateway_jobs` | `request`, `cancel`, `deny`, `approve`, `revoke`, `relinquish`, tool requests, `recoverGatewayJob` | a group on the gateway has a grant or a job that owes its removal; a grant has its group; requests, grants and jobs agree |
| Access gateway worker (`access/gateway-job-worker.ts`) | claims on the job rows | poll, recover, reschedule, release stale claims | every job is settled |
| Consumer ACL round trip (`credentials/consumers.ts`) | the Edge consumer's groups and its entity tag | `ensureConsumer`, `mutateAclGroups` | a whole-list replacement never loses another writer's group |
| Account lifecycle (`users/service.ts`, `admin/god-service.ts`) | account status, `gateway_teardown_jobs` | `update`, god-mode `disableUser`, `revokeAllForUser` | a disabled account loses its access, an enabled one has it back |
| Gateway teardown and rebuild (`credentials/service.ts`, `credentials/teardown-worker.ts`) | claims on the teardown row | `runGatewayTeardown`, `restoreGatewayAccess`, worker poll, cancel, release | a teardown never strips an enabled account; a rebuild replays active grants only |
| Credentials (`credentials/service.ts`, `credentials/account-recovery.ts`) | credential rows, entries on the consumer by index, recovery jobs | issue, rotate, revoke, reconcile, reclaim of an unacknowledged append, account recovery | a working secret has a row or a note; a revoked row has no working secret; a delete by index takes the key it means |
| Applications (`applications/service.ts`, `ensureConsumer`) | application row, consumer mapping, the consumer itself, deletion records | provision, issue, disable, delete | a deletion leaves no working key nobody tracks, and is on record |
| Email outbox (`email/outbox-worker.ts`) and `releaseAddress` (`users/service.ts`) | outbox rows with a claim and its generation; the mail-handoff lease | deliver, authorize, mark sent, park, release stale claims; release of an address | no mail follows a released address; parked rather than duplicated when that can be known; the queue drains |
| Authentication (`auth/`), SSO (`sso/`) | users, sessions, single-use tokens, identities, settings | register, sign in, reset, change password, change role or status, link, deprovision, save settings | one founder, a super admin stays, links work once, sessions die with what opened them |
| Publishing (`publishing/`) | API rows, specifications, two recovery journals, Edge proxies and their plugins | publish, update, convert, restore, remove, plugin palette, notices | no open proxy on the public path, no proxy nobody knows of, a deployed row is served as it says |
| Store (`db/`) | four adapters of one contract; transaction queue and retry; migrations | repositories, `transaction`, leases, migrations | bodies are atomic and re-runnable |
| Settings, messaging, mass email, catalog, usage, audit, routes, web client | rows, caches | reads and appends; budgets | budgets hold, paired settings are read together |

### How they interact

A handler of the access or user service runs inside one or more keyed sections,
always nested in the order proxy, consumer, lifecycle. Inside, it alternates
database transactions (each fenced by every lease the handler holds) with Edge
calls (fenced by nothing except the consumer's entity tag). What a handler may
not get to finish is recorded in a job row in the transaction that decided it;
two polling workers claim such rows, re-check them and finish the work. A claim
is a generation on the row: an owner that stalls is released as stale and finds
itself superseded.

### What is hard

Two handlers on two instances when a lease lapses under one of them; an Edge
write that fails, applies with its answer lost, or lands after the caller gave
up; a transaction whose commit is not acknowledged; a process that stops between
the database and the gateway; a worker that takes over the job of an owner still
alive; an account disabled and enabled while all that is under way; credentials
that have a position and no name; compensations that fail in their turn; and
transactions of two instances that overlap with nothing but a keyed section or a
conditional write between them. `hazards` in
`PROJECT.json` lists them at the lines where they bite.

## 2. The modules

| Module | Models |
|---|---|
| `Turns` | abstract specification: at each key the sections of a process take turns in the order they asked |
| `KeyedSerializer` | keyed sections, lease rows and the transaction fence |
| `KeyedSerializerProofs` | theorems about `KeyedSerializer` |
| `AccessGrants` | requests, grants, jobs, the ACL round trip, the recovery worker |
| `AccountLifecycle` | extends `AccessGrants` with disable, sweep, teardown, enable, rebuild |
| `Outbox` | the email queue, its workers, and the release of an account's address |
| `Credentials` | the keys of one consumer: issue, rotate, revoke, reconcile, teardown, account recovery |
| `Applications` | provisioning of an application's consumer against its deletion |
| `Publishing` | one API, its proxy, the plugins that gate it, the recovery journals |
| `Accounts` | founder, super admins, sign-in of both kinds, resets, sessions, settings saves |
| `AccessGrantsProofs`, `AccountLifecycleProofs`, `OutboxProofs`, `ApplicationsProofs`, `AccountsProofs`, `CredentialsProofs`, `PublishingProofs` | theorems about the module each is named after |
| `MC...` | one instance for TLC beside each of them, two for `AccessGrants`; several configurations of some |

The modules meet where one takes for granted what another shows. `KeyedSerializer`
shows that a fenced transaction never acts on another holder's data;
`AccessGrants`, `AccountLifecycle` and `Applications` then use the fence as a
guard and let leases be taken over, `Credentials`, `Publishing` and `Accounts`
use exclusive sections. `AccountLifecycle` extends `AccessGrants` and steps
interleave with all of its. `Credentials` refines the step of the teardown that
`AccountLifecycle` shows as "credentials gone or not".

Definitions whose comment starts with *Slip* are plausible mistakes in the
definition that follows them. No specification uses them; `mutants` in
`PROJECT.json` says which property each of them breaks.

### KeyedSerializer

`queue` is the promise chain of each key in each serializer, `owner` and
`expired` the lease rows, `depth` how far a section has nested into its `Plan`.
`Enqueue`, `Acquire`, `WaitTimeout` and `AcquireError` are `serializePerKey` and
`takeLease`; `Renew` is the timer of `underLease`; `Expire` is time passing;
`Exit` is the `finally` of `underLease` with its best-effort delete; `Crash`
stops one process. `Read` and `Commit` stand for what a caller's function does:
read what a key guards and commit something computed from it, under
`FencesHold`, which is `assertLeaseFences`. The fence locks the rows it verifies,
so verification and commit are one step. `db` records which updates the stored
data reflects, `applied` which transactions were acknowledged.

`Turns` is what a caller has to know of the serializer: one line per key and
process, joined at the end, entered and left at its head only. Leases, tokens and
deadlines do not occur in it. `Inside` maps a section to the keys it is inside of,
and `ImplementsTurns` says that every step is a turn or nothing to `Turns`. It is
not about data: a waiter whose deadline ran from the call instead of from its turn
would leave its place while another section is running, which breaks nothing that
`NoLostUpdate` or the exclusion say, and breaks the order.

### AccessGrants

One identity (one Edge consumer), some APIs, some requests. Every handler is a
process that moves from `await` to `await` (`pc`), holding leases (`held`) and
what it has read (`memo`). A grant is named by the request it came from. The
keyed sections appear at the level `KeyedSerializer` justifies: a key is taken
when it is free or its holder is dead, or, as a fault, while its holder is
running; every transaction is guarded by `FencesHold`.

* approval: `ApproveStart`, `TakeProxy`, `ApproveAdmit`, `ApproveClaim`,
  `EnterConsumer`, `CheckActive`, `Get`, `GuardApproval`, `PutGroup`,
  `GrantCommit`; its unwinding: `UnwindApproval`, `GuardUnwind`,
  `TakeOffGroup`, `SettleRequest`, `SettleJob`
* revocation: `RevokeStart`, `RevokeClaim`, `GuardRevocation`, `TakeOffGroup`,
  `SettleJob`; its rollback: `RollbackEnter`, `RollbackGet`,
  `RollbackLifecycle`, `RestoreCommit`, `RestoreFails`
* recovery: `WorkerClaim`, `RecoverApproval`, `GuardReconcile`,
  `PutReconciled`, `WorkerComplete`, `ReleaseStale`

Faults (`AllFaults`, at most `MaxFaults` per behaviour): an Edge or lock call
refused, a PUT applied with its answer lost, a PUT landing late, a transaction
failed, a commit whose answer is lost, a lease taken over from a running holder,
a job released under a running owner, a crash. The Edge consumer carries an
entity tag; `fresh[p]` says that the tag `p` read is still the row's, so a PUT
with `If-Match` succeeds exactly when `fresh[p]` holds. Edge is external and
modelled from how `mutateAclGroups` uses it.

### AccountLifecycle

`FlipStart`, `TakeLifecycle`, `FlipCommit` are the status change of
`users.update` and of the god-mode disable; `SweepList`, `SweepClaim`,
`SweepPut` are `revokeAllForUser`; `InlineClaim`, `TeardownClaimDue`,
`TeardownOwner`, `TeardownPut`, `TeardownCredentials`, `TeardownDone`,
`TeardownFails`, `CancelJob`, `ReleaseStaleTeardown` are the teardown run inline
and by its worker; `RebuildGrants` and `RebuildPut` are `restoreGatewayAccess`.
`rebuilt` is a history variable: a rebuild has completed since the last enable.
Administrators act again and again, so the account flips without bound.

### Outbox

All messages go to one address, which an account holds at first. `Bound`
messages name the account, the others (written before rows carried a recipient)
the address only. `row[m]` is the `email_outbox` row; a claim's generation is
named by the worker that made it, which has one claim in hand at a time.

* a tick: `Tick` (stale claims released first, then the relay's settings looked
  up), `Claim` one row at a time up to the batch size, `EndTick`
* an attempt: `EnterHandoff` (`deliver`), `Authorize` / `AuthorizeFails` (the
  transaction under the handoff and lifecycle leases; nothing else of the model
  contends for the lifecycle lease, so it is one step), then the send window:
  `HandoffExpired`, `SealUnreadable`, `RelayAccepts`, `RelayRefuses`, `CutOff`;
  then the settling write, `Settle` or `SettleFails`, and `Leave`
* the release: `ReleaseStart`, `ReleaseKeys`, `ReleaseCommit`, `ReleaseFails`;
  `Reregister` gives the address to somebody else

`copies` counts what the relay accepted; it is not the portal's state. Settling
writes are single statements outside any transaction, so no fence guards them:
`Owns`, their `WHERE generation = ? AND status = 'sending'`, is all they have.
Time is `due` and `old`. A row does not grow old inside its send window, because
the window is 60 seconds from the row's last refresh, is enforced at every step
of the SMTP exchange, and the stale threshold is five minutes; it may grow old at
any other await of a living worker, which counts as a lapse. The relay's settings
only ever become complete: clearing them stops ticks from starting and nothing
else.

### Credentials

One consumer, one credential type. `entries` is the gateway's array of nameless
secrets, `row[c]` the `credential_metadata` row of secret `c`; the index a delete
uses is computed from the rows (`Index`), never read. `shown` is chosen at the
start: reads of the consumer show the entries of the type, or, for basicauth, do
not. Every operation runs inside the consumer's section.

* entry: `Begin`, `Enter`, `Check` (the re-reads inside the section), `Get`,
  `SettleLostRetirement`, `Place` (the comparison of rows and array)
* retirement: `Intent` (the row says `retiring` first), `Delete`, `Probe`,
  `WithdrawRetirement`, `Retired`, `Close`
* append: `Pend` (basicauth writes its row first), `AppendEntry`, `Unpend`,
  `Mirror`; its unwinding: `Reclaim`, `Withdraw`, `Reread`, `Unlist`,
  `Reactivate`, `Note` (the audit row `credential.append_rollback`); `Rotated`
* reconcile: `Wipe`, `ClearRows`
* recovery after a password reset: `Reset`, `Claim`, `List`, `RevokeNext`,
  `Barrier`, `Finish`, `Fail`, `ReleaseStale`; `Blocks` is what holds issuing
  back until the recovery's attempts are used up
* `Disable`, `Enable`, `Crash`

A revocation a runner or a teardown makes is the same operation a client's
request makes, with another caller. `blind` and `withdrawn` are history variables:
secrets whose operation died or could not even leave a note, and rows that were
made active again since the last reset.

### Applications

One application. Its consumer lives at an id derived from the application's, so
it can be found without its mapping row, and not at all once the application's
row is gone. `StartIssue`, `TakeName`, `Ensure`, `CreateConsumer`, `MapConsumer`
are `ensureConsumer` under the provisioning name's key; `TakeId`, `Check`, `Get`,
`AppendKey`, `Mirror`, `Withdraw` the issue under the consumer's;
`StartRemove`, `Reload`, `Find`, `RecordStart`, `Look`, `DeleteConsumer`, `Drop`
are `remove` with its start and completion records; `Toggle` disables and enables.
Both leases can be taken over from a running holder. `Lands` is a creation that
timed out and is applied afterwards.

### Publishing

One API (`row`), at most one proxy per operation (`gw`), a configuration named by
the operation that minted it and its plugin. `HandlerOf` says which compensation
a failing step falls into.

* publish and the build of a restore: `CreateStaged`, `Attach`, `Associate`,
  `Stamp`, `Cutover`, then the commit, `Stamped` or `Adopt`; compensation
  `Withdraw`, or `Salvage`, `Purge`, `Close` with the journal `cleanup`
* update: `Enter` and then `Plug`, `Join`, `Detach`, `Drop` (the authentication
  swap and the ACL), `Respec`, `Save`; compensation `Unwind`, `Unwound`, `Note`
* enforcement conversion: `Plan`, `Authority`, `Strike`, `Send`, `Ack`,
  `Attempt`, `Build`, `Look`, `Reattach`, `Rejoin`, `Recut`, `Finish`;
  compensation `Judge`, `Partial`, `Report`; journal `conv`. `Recover`,
  `Relapse` are the restore that finds such a journal
* remove: `Custody`, `Delete`, `Erase`; reconciliation: `Flag`
* `Settle` applies a removal whose sender timed out; `Lose` is an operator who
  deletes the proxy behind the portal's back

### Accounts

Every operation is `Start` (reads with nothing held), `Begin` (keys taken, reads
again inside the transaction) and `Commit`. Transactions of two instances overlap
under READ COMMITTED, so between `Begin` and `Commit` anything may change that no
key and no predicate of a conditional write protects. Registration and the
password change issue their session after the commit (`IssueRegister`,
`IssueChange`). `era` and `off` name the last event that ended an account's
sessions and the last disable, `redeemed` which link set which password; they
exist for the properties. `Visit` is the check of a session on a request, which
deletes one that is no longer good. Keys are taken at once and never lapse.
`Workloads` says which operations run together, and whether one instance serves
them (`OneStore`): its store object then queues transaction bodies (`StoreFree`), so
no other body lies between the `Begin` and the `Commit` of one. Everything but
`CutOffEndsSessions` is checked, and proved, without that.

## 3. What is checked

Passing runs:

| Run | Instance | Shows |
|---|---|---|
| `keyed_serializer` | two processes, three sections, two of them nested, 282,677 states | `NoLostUpdate`, `NoStaleDecision`, `NoOverlapInSerializer`, `EveryWaitEnds`, and that the sections implement `Turns` |
| `access_grants` | two requests for one API, one approval, two revocations, worker, all eight faults, three at a time; 258,963 states | `NoStrandedAccess`, `HistoryMatchesGrant`, `DecisionsAreFinal`, `OnlyOwnRollback` |
| `access_two_apis` | two APIs on one consumer, two faults at a time, fair; 233,902 states | `Converges`: every job is settled, and the gateway ends with exactly the groups of the active grants, although every PUT replaces the whole list |
| `account_lifecycle` | disable and enable for ever, one request, approval, revocation, both workers, a crash, fair; 572,225 states | `GroupsAccountedFor`, `GrantsAreServed`, `EnabledConverges` |
| `account_sweep` | god-mode disable for ever, all eight faults, one at a time, fair; 132,495 states | `DisabledIsStripped` |
| `outbox` | two workers, a security mail bound to the account and a row that names the address, one release, a crash, stall or takeover, a failed statement or cut-off send; 640,160 states, fair | `NoMailAfterRelease`, `CopiesAreAccountedFor`, `SettledIsFinal`, `QueueDrains` |
| `credentials` | two keys and room for two, any two requests, a reset with its runner or a disable, two faults; 2,385,879 states | `RevokedIsDead`, `NoLiveKeyLost`, `SecretsAreAccountedFor`, `RecoveryRevokesAll`, `TornDownHoldsNothing` |
| `applications` | four issues and deletions, two faults, a disable; 451,603 states | `KeysHaveAnOwner`, `RemovalIsOnRecord` |
| `publishing` | three operations of any kind on an API that is new, gated or open, two faults; 931,453 states | `OpenIsReported`, `ProxiesAreAccountedFor`, `DeployedRunsItsGate`, `UnconfirmedIsLeftAlone` |
| `accounts` | two super admins and a member, or nobody yet; a trusted and a lower-trust provider; any two operations, or three of a kind that meets on one account, of several instances; three that open or end the sessions of an identity, of one; 1,554,042 states | `SeatIsKept`, `SessionsAreCurrent`, `ResetLinksAreFresh`, `AuthorityIsCurrent`, `CutOffEndsSessions` |

Type invariants are checked in `keyed_serializer`, `account_lifecycle` (which
includes that of `AccessGrants`), `outbox`, `credentials`, `publishing` and
`accounts`. Two runs refute what a comment or a document
says (section 5): `wiped_basic` and `sweep_and_enable`.

**Bounds.** A race in this code needs two writers of one consumer and a third
party that decides in between. In `access_grants` two requests for one API give
the decision races, and two revokers the rollback of a revocation that was
superseded, which takes three faults. With its one approval the API is granted once;
a regrant (a removal held up while the API is granted again, a recovery that finds
another request granted) is in no passing run. It is in the theorems, which have any number
of approvals: `NoAccessIsStranded`, `HistoryStaysTrue`, `GrantsStayServed`. With two
approvals the run takes too long to keep (2,296,675 states; it passes). Two APIs
give whole-list overwrites. Three faults allow for example a lost answer, a
takeover and a crash in one behaviour. Symmetry is used where processes play the same part (`access_grants`, `credentials`,
`publishing`, `accounts`, `applications` and `wiped_basic`), and in no run with a
liveness property.

In `outbox` one lapse and one error together reach the paths the worker's
comments argue about: a failed acknowledgement, a cut-off send, a claim taken
over from a stalled worker, a handoff lease taken over by the release.

`credentials`: two keys are the least for which a wrong index hits another key,
and with a capacity of two an issue meets the full array and a rotation has to
delete first. Two requests and an event give every pair of operations in the
section and one that waited behind the other. `applications`: an issue that
provisions, a deletion that takes it down, an issue that provisions again and a
second deletion need four operations. `publishing`: an update, the conversion or
restore it races and the removal or repair after them are three; the gated,
enforced shape and the open, documented one make every plugin step happen in
both directions. `accounts`: a race is between two transactions; the third
operation is the one that makes a stale read of the second possible again
(disable and re-enable around a reset, link and unlink around a sign-in).

A fault in `Solo` comes with no other. In `credentials` these are the lost answer
of a commit, a crash and a stale claim; in `applications` the late creation.
Section 5 says what two of them together do. The theorems of section 4 need no such
bound on combinations: their conditions are on states (`Traceable`) or on single
kinds of fault.

**Fairness.** `KeyedSerializer`: `takeLease` has a deadline and a section's
function settles, so `Acquire \/ WaitTimeout \/ AcquireError` and `Exit` are
weakly fair. `AccessGrants`: every await of a started handler settles (database,
Edge and lock calls all have deadlines), the workers poll on a timer, a claim
nobody settles becomes stale. Nobody is obliged to request, approve, revoke,
disable or enable. Faults are bounded and never fair; only the wait for the
lifecycle lease may time out as often as somebody else holds it. `Outbox`: the poll timer
fires, every await of a worker or a release settles, `next_attempt_at` passes, an
untouched claim grows old. Nobody is obliged to enqueue, to release or to
configure a relay: `QueueDrains` is conditional on the last. The other four
modules state safety only: what they owe later is owed to a person (a note in the
audit log, an API marked for repair) or to a worker modelled elsewhere.

**Where the properties end.** They are stated for the faults their run lists:

* `NoPhantomGrant` (a grant the portal shows has its group) is checked inside
  `GrantsAreServed`, with a crash as the only fault; `GrantsStayServed` and
  `GrantsAreServedAlways` say how far it holds. `groupStillOn` answers
  *true* when the consumer cannot be read, as the safer mistake, so a removal
  whose answer was lost and whose consumer is then unreadable puts the grant
  back without its group. A stalled unwinding whose lease was taken over twice
  can take a group off between another approval's PUT and its commit (the guard
  "narrows" that window, `credentials/consumers.ts:166`). `NoStrandedAccess`, the
  direction that matters for access control, is checked against all eight.
* `CopiesAreAccountedFor` does not promise exactly one copy: a worker that dies or
  stalls between acceptance and acknowledgement, or two failures in one attempt
  (the acknowledgement and the parking, or the cut-off and the parking), put an
  accepted message back into the queue. Any single failure does not.
* `DisabledIsStripped` assumes that nobody repeats the god-mode disable for
  ever: every disable replaces the teardown row and supersedes its claim.
* `SecretsAreAccountedFor` lets a secret work without a row when its operation
  died before it could leave a note. That is the code's own limit: the gateway
  cannot be asked whose an entry is.
* `RevokedIsDead`, `SecretsAreAccountedFor` and `NoLiveKeyLost` except basicauth once
  a wipe left rows behind (`shown \/ ~ emptied`): no read can tell that the positions
  of those rows have become those of later keys. Without the exception
  `NoLiveKeyLost` is `PositionsAreConfirmed`, which `wiped_basic` refutes.
* `GroupsAccountedFor` and `GrantsAreServed` are checked, in a run that enables the
  account, with a crash as the only fault and without god-mode sweeps. The theorems
  say how far they hold, section 5 what the faults they exclude do; with a sweep
  beside an enable neither holds.
* `RecoveryRevokesAll` excepts rows that another operation began to retire and gave
  back while the sweeps ran: see section 5.
* `OpenIsReported` promises a report, not that there is no open proxy: a swap
  whose unwinding fails after the new plugin is off and before the old one is
  back leaves one (`publishing/service.ts:3938-3944`).
* `DeployedRunsItsGate` allows a second authentication plugin once an operator
  has deleted the proxy, and does not say which document is served: see section 5.
* `Converges` is checked with two APIs of one request each. With two requests for one
  API it holds under refusals, failed or unacknowledged transactions, stale claims and
  crashes, two at a time (114,825 states), and not when two leases are taken from
  running holders: the window above then opens to a revocation's removal as well.
* `CutOffEndsSessions` is a property of one serving instance. A returning sign-in takes
  no provider key, and with independent stores a save on another instance fits
  between its re-read of the settings and its commit. `docs/security.md:745-756`
  says so, and says that the supported topology excludes it; the run and the theorem
  are about that topology, and `StoreFree` is what they rest on. `SessionsAreCurrent`
  does not need it: a link that is gone is no link to sign in through.
* `SessionsAreCurrent` says nothing of `era` for the sessions of a registration
  or a password change: see section 5.
* `KeysHaveAnOwner` is checked for a creation that lands late on its own. Together
  with an append that stalls or is late as well, a key can land on a consumer the
  late creation brought back.

## 4. What is proved

Thirty-nine theorems in eight modules. They hold for every value of the constants
that satisfies the module's named assumption: any number of requests, APIs,
messages, accounts, operations, workers and instances, and any number of faults
unless the theorem says otherwise. The argument is the same everywhere: an inductive
invariant, a conjunction of named parts, is shown of `Init` and of every action,
and implies the property; an action property follows from the invariant and one
step. Every part was first checked with TLC as an invariant of the module's run.
No theorem has a hypothesis on how many faults there are or which of them come
together. Three groups have a hypothesis on which happen at all, and each is
there because the property is false without it: `KeysDoNotOutlive`, the four last
theorems of `AccountLifecycleProofs` and the three last of `CredentialsProofs`.

### KeyedSerializerProofs

From `ConstantsAssumption` (a section belongs to one serializer) and
`PlanAssumption` (a plan names no key twice; nesting a key in itself would never
resolve, and no caller does it):

* `TypeCorrect` and `InProcessExclusion`. The inductive invariant is `TypeOK`
  with `HolderIsHead`: whoever is inside a key is at the front of its
  serializer's promise chain for it. The exclusion follows from the chain alone,
  which is why it survives lapsed leases. `TypeOK` needs it too: only the front
  of a chain may be taken off it.
* `UpdatesAreNeverLost`. `NoLostUpdate` is not inductive; `SafetyInv` adds that a
  section knows only data of keys it is inside of (`KnownIsHeld`) and that what
  the *current* token holder of a key has read is current (`HolderIsCurrent`). A
  takeover makes the old holder's read stale and its token wrong in one step,
  and the fence reads the token.
* `DecisionsAreCurrent`, from the same invariant: `FencesHold` covers every key
  the section is inside of, so everything it knows is current at its commit.
* `Refinement` (`ImplementsTurns`): every step of the sections is a step of `Turns`
  or leaves the lines and who is inside alone. It rests on `HolderIsHead` and the
  exclusion: who takes a lease, gives up or exits is at the head of his line, so
  `Enter` finds nobody inside and `Leave` takes off the one it should. The order of
  a line and the refusal only at its head are what the other theorems do not say.

### AccessGrantsProofs

From `ConstantsAssumption`: there are requests, each for one API; a client submits
a request of its own; clients, approvals, revocations and workers are different
processes; the two keys of an identity are no API's; `NoProc` is no process. The
faults are any of the eight, any number of them.

* `TypeCorrect` (`TypeOK`) from `WellFormed`: the types of the rows, where each
  kind of process can be, and that a resting process holds no lease.
* `HistoryStaysTrue` (`HistoryMatchesGrant`), `DecisionsStayFinal` and
  `RollbackIsOwn`. A grant and its request are two rows, and handlers act on what
  they read some awaits ago. The strengthening, `History`, says what an *owner*
  still finds: a client's request is absent until its insert (`Inserts`), an
  approval that has not lost its job row finds its request approved until it
  settles it (`ApproverFinds`), a worker what `recoverGatewayJob` decided on
  (`WorkerFinds`); an approved request without a grant is owed by an approval's
  job (`OwedOrGranted`). A process whose claim was released is bound to nothing,
  and the generation in its `WHERE` keeps it from writing.
* `NoAccessIsStranded` (`NoStrandedAccess`), the property this system exists for.
  The gateway cannot be fenced: a PUT may be applied with its answer lost, or
  land after its sender is gone. So the invariant speaks of every group that is
  *exposed*: on the consumer, in a PUT that may still land, or in one a process
  is about to send with a tag that may still match. `Accounted`: an exposed group
  has an active grant, or a `Firm` job row: one its owner is not about to drop as
  settled, so it leads to another write of the consumer. `Reconciled`: a recovery
  writes a group for the grants it read only while one of them is active or its
  revocation owes another write. A process that lost the consumer's lease may
  send a stale list, but once anybody else has written, its tag is stale too;
  that is why both parts speak of `fresh` and not of leases.

The lemmas about single actions leave the account's status open, so that they also
hold of the steps of these actions in `AccountLifecycle`; an approval that finds the
account disabled has added nothing (`StoppedLeave`), and drops its job for that reason.

### AccountLifecycleProofs

From the assumption of `AccessGrants` and `LifecycleAssumption`: administrators,
god-mode administrators, enablers and teardown workers are processes beside the
others. There may be any number of each, and all of them act again and again.

* `LifecycleTypeCorrect` (`LifecycleTypeOK`), from `WellFormed` and `Queue`: an active
  account has no teardown row, because the transaction that enables it cancels the one
  it had and a worker's completion is conditional on its own generation.
* `SweepsKeepHistory`, `SweepsLeaveDecisions` and `SweptStaysSwept`: the three
  properties of `AccessGrants` about requests and grants hold of the larger system
  too, under every fault. The sweep is the only new step that writes a grant or a
  request, and it writes both in one transaction; `History` is preserved because a
  grant that is active has no approval left that could still settle its request.
* `DisabledIsRemembered`: of a disabled account the consumer carries no group, or the
  teardown that strips it is queued or claimed. `users/service.ts` says so of its
  transaction ("there is no window in which the account is off and nothing
  remembers"); the theorem says it of every later state as well. It is not inductive:
  a claimed teardown may have done its write already, and a bare consumer may be about
  to get a group. `OffIsOwed` is: the teardown is `TeardownFirm` (its write is still
  ahead) or the consumer is `Bare` (no group on it, none in a PUT that may still land,
  and nobody past the check of the status inside the section with a group to write).
  `Exclusive` and `Sectioned` say why that check is enough: the section is held by one
  process, so an approval past it and the teardown's write are not there together.
* `GroupsAreAccountedFor` (`GroupsAccountedFor`), from `OffIsOwed` for a disabled
  account and `OnIsServed` for an active one: until the rebuild of the last enable has
  succeeded that rebuild owes every group; from then on the invariant of
  `NoAccessIsStranded` holds again, which `Rebuilding` establishes (what a rebuild is
  about to write belongs to grants that are active, or that were revoked since under a
  job that still has to enter the section the rebuild is in).
* `GrantsStayServed` and `GrantsAreServedAlways` (`GrantsAreServed`), the other
  direction: once an enable has succeeded every active grant has its group. A grant
  becomes active in two places (`Activation`), an approval's commit and a rollback's
  restore, both inside the consumer's section (`RollsBack`), and a group is only taken
  off inside it. So `Serving` adds to the property what the one process inside has made
  sure of, and what nobody else can undo before it leaves (`Assured`): an approval about
  to commit and a rollback about to restore have the group on the consumer (`Seen`); a
  PUT that takes a group off has found no grant that needs it (`Spare`); a rebuild
  replays every active grant (`Lists`, the converse of `Rebuilding`); a teardown past
  its check of the status writes while the account is disabled, or while the rebuild of
  the enable that came between is still owed (`Due`).

`DisabledIsRemembered` and `GroupsAreAccountedFor` suppose that no lease is taken from a
running holder: nothing fences a PUT, so an approval that lost its lease can write after
the teardown has stripped the consumer. `GroupsAreAccountedFor` supposes in addition that nobody enables the account
again, or that no god-mode sweep runs beside the enables and no PUT lands after its
sender gave up. The two cases are the ones the runs have. Each hypothesis is needed;
section 5 has the behaviours. `GrantsStayServed` supposes that there are no takeovers
and no late PUTs, each of which breaks the property on its own, that enables and
god-mode sweeps are not together, and `[]GuessesRight`: whenever `groupStillOn` answers
*true* for a consumer it could not read, the group is there. `GrantsAreServedAlways`
has no such hypothesis on behaviours; instead no Edge call and no lock wait is refused,
so no rollback has to guess. The faults a theorem does not exclude (crashes, lost
answers, failed transactions and stale claims always, refused calls except in the last)
happen any number of times.

### OutboxProofs

From `OutboxAssumption`: bounds are positive, workers and releases are different
processes.

* `TypeCorrect` (`OutboxTypeOK`), with `AttemptsArePaid`: an attempt beyond the
  budget is paid for by a lapse or an error, which bounds the counter.
* `SettledRowsStay` (`SettledIsFinal`): the only writes to a row that is not
  pending come from its owner, and an owned row is `sending`.
* `ReleaseStopsMail` (`NoMailAfterRelease`), from `WindowOwnsRow` (a worker in its
  send window owns its row, which is `sending` and not old) and
  `QueueFollowsAddress` (what was queued while the account had the address is
  settled when it loses it). The release
  cancels every pending row of the address in its own transaction and refuses
  while one is `sending`, so the two exclude each other through the state of the
  row even when both have lost the handoff lease.
* `CopiesAreBounded` (`CopiesAreAccountedFor`), from `CopiesAreExplained`, which
  counts in halves of a copy: a lapse explains a copy, an error half of one, and
  an acceptance that waits for its acknowledgement is not explained yet.

### ApplicationsProofs

From `ApplicationsAssumption`; leases may be taken over any number of times
in the first two.

* `RemovalsAreRecorded` (`RemovalIsOnRecord`), from `StartedFirst` (a removal that
  may touch the gateway has written its start row) and `Announced`.
* `GoneLeavesNoRows`: `NothingLeft`, a part of the invariant that says what a
  reader of `remove` expects. After the transaction that drops the application no
  mapping and no credential row of it appears, because every transaction that
  would write one is fenced by the provisioning name's key or re-reads the
  mapping (`NameIsCurrent`, `MappedFirst`).
* `KeysDoNotOutlive` (`KeysHaveAnOwner`), under `Prompt`: no lease is taken from a
  running holder and no creation lands after its caller gave up. All other
  faults, crashes among them, happen any number of times. Without `Prompt` the
  property is not true of the code: gateway calls carry no fence, so an append
  that stalls past its lease together with a creation that lands late leaves a
  key on a consumer nobody can find (section 3). With at most two such faults
  it is checked with TLC. The parts are `Exclusive` (keys are held by one
  process) and `GatewayIsKnown` (what a removal saw of the gateway stays true
  until its transaction, and no consumer outlives the application).

### AccountsProofs

From `AccountsAssumption`: any founders, members, providers and operations, and
any workload.

* `TypeCorrect` (`AccountsTypeOK`): among others, an account has one identity at
  a provider. `WellFormed` is `People`, `Tasks` (what an operation carries fits
  its kind and place), `Doors` (sessions and links belong to accounts there are)
  and `Papers` (reset links and settings).
* `SeatStaysTaken` (`SeatIsKept`), from `Exclusive` (a key has one holder) and
  `SeatIsCounted`: an operation under way that would move a super admin out of
  the seat has counted another one, who is still there, and one that would found
  the portal has counted none. All of them hold the same key.
* `SessionsStayCurrent` (`SessionsAreCurrent`), from `LifecycleIsKept` and
  `PasswordIsKept`: the standing an operation read of an account under its
  lifecycle key at `Begin`, and the password a change has set, are still so when
  the session is written.
* `CutOffsAreComplete` (`CutOffEndsSessions`), of one instance. `OneBody`: one
  transaction body is open at a time; `ThroughEnabled`: a sign-in that has re-read the
  settings was admitted by a provider that is still enabled, because no save fits in
  before its commit. The save itself ends what is there: it signs out the accounts
  linked at the provider, and `SessionsAreCurrent` says that every session of the
  provider has such a link.
* `ResetLinksStayFresh` (`ResetLinksAreFresh`), from `LinksAreMintedOnce`: a link
  is minted once, by a request that is over, and one that was redeemed is on no
  account any more.
* `AuthorityStaysCurrent` (`AuthorityIsCurrent`), from `AdmissionsHold`: what
  admits a login, a promotion or a link stays true between `Begin` and `Commit`
  because each thing it rests on is under a key the operation holds or in the
  predicate of its conditional write.

### CredentialsProofs

From `CredentialsAssumption`: any secrets, requests and runners, any capacity, any
faults, any number of them and in any combination, solo or not.

* `TypeCorrect` (`CredentialsTypeOK`). `Typed` is `WellFormed` (the types of the
  rows, `Types`, and that what an operation carries fits its place, `Places`),
  `Unknown` and `Unappended` (an operation's secret has no row and no entry before
  its own append), `Numbered` (a row's ordinal counts the rows there have been) and
  `Array` (no secret twice, and never more than the capacity, which an append
  knows from its own read because nobody else is in the section).
* `TornDownStaysEmpty` (`TornDownHoldsNothing`), from `Emptied`: of a torn-down
  account nobody who may append is past the check inside the section, and a
  reconcile about to clear the rows has emptied the array. The check is where the
  status is read, and only one operation is in the section; a check before the
  section would not do.
* `RecoveryIsComplete` (`RecoveryRevokesAll`). `SweptInv` follows a recovery
  through its phases. `Swept` says what the second sweep has behind it: once it has
  revoked the active rows it listed, an active row is one the recovery spares or
  one given back; at its end this is so of every live row. A key may be appended
  behind a listing by a request that passed its check before the reset; `Cleared` says that
  behind the barrier no such request holds the section, and later ones are refused
  by `Blocks` or write rows the recovery spares (`RowsAreDated`). What is left is a
  row that goes back from retiring to active between the two listings. Planning
  this proof is how that case was found: no phase of the sweep excludes it, and
  TLC then gave the trace of section 5.

* `RevokedKeysAreDead` (`RevokedIsDead`), `SecretsHaveRows` (`SecretsAreAccountedFor`)
  and `PositionsHold` (`NoLiveKeyLost`). Entries have positions and no names; what ties
  them to rows is that the array is in the order of the rows' ordinals and that rows
  and entries differ in what the holder of the section is doing, and nowhere else.
  `Mirrored` says so. Between two sections (`Steady`, `Sorted`) every working secret has
  a live row, and a live row without a secret is `retiring`; of basicauth, where no read
  would show it, there is then at least one such row, so that nobody computes a position
  from the rows before a settlement. Inside, `InSection` follows the holder:
  `Entered` up to the comparison of rows and array, `Retires` (the computed index is
  the target's position from the comparison to the delete; after it the target does not
  work and is the only row without a secret), `Appends` (the new secret is the last
  entry until it has its row) and `TakesBack` (an append that is undone). The array's
  length, all a read of it tells the code, determines which secret is missing because
  `ArrayCount` makes it a count of distinct secrets. `HandedOut`: a client is given its
  secret at the end of the operation, so what `Withdraw` takes off nobody was given.

  Two conditions limit them. `Traceable`: no append has ended in a rollback note, no
  operation died with an append unaccounted for, and no wipe has left rows behind. From
  then on the gateway may hold an entry the rows do not know of, which is what the note
  is for, and positions mean nothing until an operator or a reconcile has looked.
  `NeverFallsBack`: no recovery empties a type that reads show because it could not
  place a key of it. Section 5 says why the theorem is false without it. Any number of
  refused calls, lost answers, failed reads and transactions, lost acknowledgements and
  stale claims is allowed, in any combination; the run has to keep some of them alone.

### PublishingProofs

From `PublishingAssumption`: any operations of any kinds on one API, any faults, any
number of them and in any combination.

* `TypeCorrect` (`PublishingTypeOK`) and `ProxiesStayAccountedFor`
  (`ProxiesAreAccountedFor`), from one inductive invariant, `Sound`: the second
  property itself and `Base`, which is
  * `Types`, `Gates` (what runs on a proxy is on it) and `Kept` (the rows agree: a
    journal has its row and the row's proxy);
  * `Fits`, for each operation: which kind may be at which place (`Home`, `Goal`)
    and what it carries there (`Carries`). An operation that throws goes to the
    handler of its place, so this is what says that a compensation has what it needs;
  * `Own`: the proxy an operation will build or is building is in no row and no
    journal, and no other operation has seen it. Nobody else can then be the one who
    deletes it or accounts for it, and it is absent until its own `create`;
  * `Assured`: what the holder of the API's key has read stays so (the journal it
    follows, the row it will erase, that the proxy of a row it takes the reference
    from is gone), and `Tuned`: an update holds the key of the proxy it works on.

  The property alone is not inductive. The steps that can lose a proxy are the ones
  that take a reference away: `Erase` and `Orphan`, which are safe only because the proxy
  was seen gone under a key that is still held, `Close` and `Withdraw`, which are
  safe because the operation's record says whether its own proxy could be deleted,
  and `Finish`, which closes a journal about the proxy the row still has.
  `Others` shows once that no step of one operation costs another what it counts on;
  `Steps` then leaves of every action only what it does itself.

### Only model-checked

* Every liveness property (`EveryWaitEnds`, `Converges`, `EnabledConverges`,
  `DisabledIsStripped`, `QueueDrains`): fairness and `ENABLED` are out of the
  prover's reach.
* Not true of the code, and so neither checked nor proved: `GrantsAreServed` with late
  PUTs, takeovers, a wrong guess of a rollback, or god-mode sweeps beside enables, and
  `GroupsAccountedFor` of an account that is enabled again beside god-mode sweeps, late
  PUTs or takeovers (sections 3 and 5).
* `RevokedIsDead`, `NoLiveKeyLost` and `SecretsAreAccountedFor` after a noted rollback or
  a death in the middle of an append, and with a recovery that empties a type: checked
  for two faults at a time.
* `OpenIsReported`, `DeployedRunsItsGate` and `UnconfirmedIsLeftAlone` of
  `Publishing` (section 7).
* `KeysHaveAnOwner` with a takeover or a late creation.

Induction over data is out of reach as well; the modules declare no `RECURSIVE`
operator, so all of them can be proved about.

## 5. Where a comment and the code disagree

Two runs have as their only property what a comment or a document says; TLC's
trace is the sequence of events. `PROJECT.json` quotes the lines.

* `wiped_basic`: a reconcile empties a type at the gateway before it writes
  anything in the store. When the answer of that wipe is lost, the rows stay
  active. For the types a read shows, the next operation notices; for basicauth
  it cannot, and revoking an old row deletes the first entry of the array, which
  is by then another key.
* `sweep_and_enable`: a god-mode sweep runs after the transaction that disables the
  account, outside the lifecycle key, and takes groups off without a guard because
  "the account is already disabled" (`access/service.ts:3442-3444`). The account is
  enabled while it runs and the API is approved again; the sweep's PUT takes off the
  group of the new grant (37 states, no fault).

One passing property says the opposite of a document. `docs/security.md:794` has
"Removing an identity alone leaves its sessions alive" and line 757 "Sessions issued
before a settings change are not ended by it". The code ends them, on purpose:
`unlinkIdentity` in the transaction that deletes the identity
(`sso/service.ts:1575-1578`), a save for the accounts of a provider it removes or
disables (1467-1497). `SessionsAreCurrent` and `CutOffEndsSessions` follow the code.

Others were met while modelling and have no run of their own. They decide the
faults or the exceptions of the runs above:

* A rotation whose delete is refused withdraws its replacement; if its process
  dies before the replacement's row is dropped, `settleLostRetirement`
  (`credentials/service.ts:1225-1248`) later takes the shorter array for the
  retirement's success and revokes the row of a key that works. This is why a
  crash is a solo fault in `credentials`.
* The recovery after a password reset lists the active rows and then the retiring
  ones (`credentials/service.ts:3405`). A client's own revocation has the row
  retiring during the first listing; the gateway refuses it, and the row is active
  again before the second. When that happens during both sweeps, the recovery
  completes over a live key of before the reset; `credentials/service.ts:506` says
  it "revokes every live row". `withdrawn` marks such a row.
* After the same wipe a basicauth key that was issued since can be revoked and work on:
  the rows the wipe left behind count into its index, so the delete takes the entry of
  a later key and the row of this one says revoked. `emptied` marks such states.
* A recovery that cannot place a key empties its type. It cannot place one when two rows
  are retiring, of which one's delete was applied with the answer lost. If the
  gateway refuses to empty the type, the array is as long as before and the row goes
  back to active, although its entry was gone already. The other row, retiring
  after a refused delete, is then the only one, the array is one entry short, and
  `settleLostRetirement` revokes the row of a key that works. `NeverFallsBack` excludes
  this from the theorems; the run's two faults do not reach it.
* A rollback of a revocation (`access/service.ts:938-940`) restores the grant over
  a group that the removal it rolls back, still on its way to the gateway, takes
  off afterwards.
* Two refused calls are enough for a rollback to guess wrong. A revocation's PUT is
  refused after its grant was claimed; before the rollback enters the section the
  account is enabled once more, and the rebuild leaves out the group of the grant
  that is just being revoked; the rollback's read is refused as well, `groupStillOn`
  answers *true*, and the grant is active again without its group (28 states).
* A rebuild whose lease is taken over between its read of the grants and its read
  of the consumer replays a revoked grant (`credentials/service.ts:2554-2559`).
* With enables, two faults leave a group that nothing owes. An approval's PUT times out
  and its unwinding is refused at the read of the consumer: the request is pending again
  and the job is rescheduled. A second approval replaces that job; the account is
  disabled, the approval is stopped at the check of the status and drops the job, having
  added nothing. The account is enabled, which cancels the teardown; the rebuild
  finds no grant and no group. Then the first approval's PUT lands. TLC
  finds this for two approvals of one request (39 states); `GroupsAreAccountedFor`
  therefore excludes the late PUT when there are enables.
* The same happens without enables when the first approval's lease is taken over: its
  PUT is sent after the teardown's, its unwinding is refused, and the second approval
  drops the job that remembered it. Three faults.
* The god-mode sweep leaves no job, because a teardown or the rebuild of a re-enable is
  to take off what it could not (`access/service.ts:81-83`, "so the group cannot outlive
  both"). The account is enabled while the sweep runs; the rebuild has read a grant
  as active when the sweep claims it; the sweep is then refused the consumer's key, or
  its process dies, and the rebuild writes the group (28 states). Because of this and
  of `sweep_and_enable`, `account_lifecycle` has no god-mode disable beside its
  enables, and `account_sweep`, which has one, has no enables.
* A revision of an API that is being restored commits while the restore adopts a
  proxy built from the previous document, and an enforced API then serves that
  document. An update of a proxy an operator deleted can commit over a restore;
  the next swap then leaves two authentication plugins.
* A registration and a password change issue their session outside any guard, so
  the session may be minted after a disable or a promotion has deleted the
  account's sessions; `docs/api.md:828` says "Disabling deletes every session the
  account holds". A request on such a session is refused and deletes it (`Visit`);
  one that makes no request before a re-enable works again.

## 6. What is left out

In the modelled parts:

* access: tool requests and tool grants of MCP APIs; identities other than one;
  request budgets, emails, notifications, and audit rows except where the code
  reads them or a property counts on them
* accounts: email verification, CAPTCHA, throttling, expiry, the organisation
  mapping and the OIDC exchange, each of which refuses an operation or leaves it
  alone (`Abort`); the `local_only` policy; break-glass off; a change of the role
  mappings, so a provider's trust is constant; a save changes one setting
* credentials: several types at once; listing, labels and expiry warnings; a lease
  lost by a living process (`Applications` and `AccessGrants` have it), and with it the
  mirror's repair of a row it finds revoked behind its back
  (`credentials/service.ts:2022-2041`), which nobody but such a process can cause
* applications: creation with its quota, renaming, listing. An approval provisions
  like an issue, and its PUT names the tag of the consumer it read, so a recreated
  consumer refuses it. `Withdraw` is one step, its read, delete and re-read together,
  and its note always succeeds: the steps in between and a note that fails are in
  `Credentials`
* publishing: rate limits, CORS, the palette, agents and backends, which take the
  same steps as the two plugins that gate the API; listing, visibility, notices;
  what an API's removal does to its grants beyond the row; a replacement of the proxy
  that settles after its sender timed out (`Send` lets a removal do so)
* lifecycle: the administrator's manual retry and cancel of a teardown
* outbox: the sweep that seals old rows, starting and stopping a worker, addresses
  other than one, the conditions of a release that are not about mail

Clocks appear only as "lapsed", "late" and "stale".

### Not modelled

Most of the repository's lines are not state that steps of several actors can
get wrong, and no faithful small model of them would say anything: the web
client; the PostgreSQL, MySQL and MongoDB adapters, which are the contract of the
SQLite one in other dialects; row mappings; the transformations of OpenAPI
documents and agent manifests, whose detail is their point; request building and
response classification of the Edge, OIDC, SMTP and CAPTCHA clients; validation
and dispatch of the routes. `PROJECT.json` gives the reason for each component.

## 7. Plan

1. `Publishing`: `UnconfirmedIsLeftAlone`, on top of `Sound`. It needs in addition
   that a journal of either kind is only there while the row is marked for repair,
   that there is never one of each, that a step of a rebuild past its first
   confirmation has it recorded, and that an update that has changed something works
   on the proxy of a row without journals. Its exceptions name changes of `settling` and
   `vanished`, which a second loss of the same proxy does not show, so with three
   faults it has to name the steps `Settle` and `Lose` instead. `OpenIsReported` does not
   survive three faults either (a crash between a failed unwinding and its note);
   its theorem needs the interrupted operation among its exceptions.
2. `Credentials`: what a rollback note promises, that the operator who follows it finds
   the one entry no row knows of, in place of `Traceable`.

Then, of what is not modelled: the quota of application creation, the bound read
of paired settings (`lib/setting-generation.ts`), the messaging budget, and the
replay of a half-applied migration.
