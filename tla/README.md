# A TLA+ verification of claustrum

claustrum is a credential vault: a daemon (`ck-claustrum`) keeps OAuth tokens and
API keys encrypted in SQLite, refreshes rotating tokens on read, serves them to
consumers over opaque handles or scoped grants, and is administered by a command
line (`ck-auth`). This directory models the parts of it whose correctness depends on
the order in which concurrent steps, failures and restarts happen, checks them with
TLC, and proves the central properties with TLAPS. `PROJECT.json` holds the machine
readable index: every definition with the source lines it models, every run, every
mutant, every hazard and every theorem. Paths below are relative to `src/crates/`;
`core` is `credentials-core/src`, `module` is `credentials-module/src`.

## 1. Inventory

| component | state | operations | what makes it hard, and correct |
|---|---|---|---|
| refresh engine (`core/engine.rs`) | per-credential lock, call in memory | `get`, `do_refresh`, `reconcile`, `with_admin_lock` | a rotating refresh token is consumed by a provider before the new one is stored; crash, failed commit and lease handover in between. A token of unknown fate is never presented again; every call returns |
| credential rows, intents, fence (`core/store.rs`) | `credentials`, `refresh_intent`, lease epoch, `fenced_out` latch | create, replace, set-identity, invalidate, retire, reactivate, remove, quarantine, open/commit/clear intent | several processes, one lease; versions restart when an id is re-created. Only the lease holder writes; a stale decision never lands on newer material |
| read and report surface (`module/read_surface.rs`) | admissions | `get`, `get_scoped`, `report_auth_failure`, listings, status | reports take no lock and arrive late. A report reaches only what the consumer was served |
| enrollment (`core/store.rs`, `core/enrollment.rs`) | `pending_enrollments`, `enrolled_consumers` | propose, poll, rotate, approve, deny, revoke, reissue, sweep | replies are lost, requests expire, names are re-used, the table is bounded. A token reaches only the consumer that was approved |
| grants, handles, scoped reads (`core/store.rs`, `module/read_surface.rs`) | `read_grants`, handles, categories | create, revoke, evaluate, list | grants are keyed by name, not by consumer; a read takes several looks at the store. Reach is not inherited |
| scoped watch (`module/watch_scoped.rs`) and its client (`claustrum-client/src/watch.rs`) | registry of watches, a task and a blocking job per watch, tracker | open, replace, cancel, close, drain, snapshot, publish, notice, re-read | wake-ups, coalescing, replacement and drain race each other. No change is missed and nothing follows a terminal frame |
| admin authentication (`module/admin_surface.rs`, `core/admin_auth.rs`) | binds, outstanding nonces | bind, goodbye, challenge, execute | requests run after the frame loop looked at their bind. A nonce authorizes one operation, on its own bind; the cap is exact |
| admin operations (`core/admin_ops.rs`) | none of its own | plan, preview, apply | several store writes per operation |
| boot and dispatch (`module/main.rs`) | lease, surface, frame loop | boot gate, routing, drain | nothing is served before reconciliation |
| master-key rotation and resolver (`core/store.rs`, `core/resolver.rs`) | Current and Next key slots, the anchor row sealed under one of them, sealed rows | bootstrap, resolve, stage, re-wrap, promote, heal | slots and database are two stores; a crash between any two writes, a second rotation after it. Some slot always holds the database's key, and no row is left under another |
| agent secrets (`core/store_secret_*.rs`, `module/secret_*.rs`) | secrets, requests, grants, stored replies, release receipts, the home setting | put, deposit, delete, request, approve, use, forwarded use, revoke, home set, sweep | uses race for a grant outside a transaction; envelopes and forwarded calls are sent again; secrets are re-created and the home moves under open requests. One approval is one grant, one use is one use, and no row outlives its secret |
| transfers between vaults (`module/federation/transfer.rs`, `core/store_federation.rs`) | outgoing and incoming transfers, each vault's transfer key | send, resume, deliver, accept, reject, expire, replace key | calls lost, repeated or given up on; keys replaced between a look and a commit; a bounded queue. A transfer is written at most once, and only if it opens |
| remote reads (`module/federation/remote_read.rs`, `ingress.rs`, `core/store_federation.rs`) | remote record, cache, shared fetches; member grants, issue audit at the home | get, report, add, remove; serve a token, mark stale, grant, revoke | answers come back out of order with reports and refusals. A dead token is not served again from what was under way, and what is issued is audited |
| anomaly limiter (`module/limiter.rs`) | counters per window | count, evict | bounded tables under a flood |
| audit chain (`core/audit.rs`, `core/store.rs`) | chained rows | append, verify, truncate | appended in the same transaction as what it records; a key's use is appended after it was made, and for a plain `sign` only if the key asks for it. A recorded signature stands in the life of its key |
| interactive logins (`core/oauth_login.rs`, `core/device_flow.rs`) | a pending login | start, poll, finish | `slow_down`, expiry, late answers |
| catalog, provider adapters | none | parse, map outcomes | data |
| command line (`module/bin/credentials_cli.rs`, `cli_support/admin_client.rs`) | a preflighted key | commit through the daemon or offline, bootstrap, rotate | the answer may be lost and the daemon may end; the key was read before. An operation is applied once and reported truthfully |

How they interact: the frame loop of `main.rs` checks each frame against its
channel's bind and spawns a task per request. A task resolves its caller (route
principal or enrollment token), asks the store for grants, and calls the engine; the
engine reads the row, and if it must refresh takes the credential's single-flight
lock. Admin operations take the same lock after the nonce was claimed. Every write
is one transaction of `fenced_write`, which compares the process's lease epoch with
the stored one and, after the commit, signals the watches. In memory live the locks,
binds, nonces, watches and the cache and fetches of remote reads; the rest is
durable. The writer lease is an advisory lock: the daemon holds it while it runs, and
an offline command or a rotation holds it in its absence. Vaults talk to each other
through callosum, which also tells each of them whom it is paired with and which key
the other announces; it is external and modelled by what its answers may be.

## 2. Modules

| module | models | proofs |
|---|---|---|
| `RefreshEngine` | one credential and everything that changes it | `RefreshEngineProofs` |
| `Enrollment` | the enrollment ceremony, tokens, grants by name, the scoped read | `EnrollmentProofs` |
| `ScopedWatch` | watch hub, tasks, jobs, commit signal, tracker | `ScopedWatchProofs` |
| `AdminAuth` | binds, challenges, claims | `AdminAuthProofs` |
| `SecretGrants` | one agent secret: its life, requests, approvals, grants and releases; implements `SecretRequests` | `SecretGrantsProofs` |
| `SecretRequests` | abstract: a request moves only forward from unmade through open and granted to over | |
| `Transfer` | sealed transfers between two vaults; implements `TransferLife` | `TransferProofs` |
| `TransferLife` | abstract: a transfer is sealed once, queues once, and is written once or ended | |
| `RemoteRead` | one remote record: requester and home | `RemoteReadProofs` |
| `Vault` | key slots, lease, rotation, the database under its key, the commands, the audit chain | `VaultProofs` |

Each `*MC` module instantiates its module for TLC (symmetry sets, small sets of
digests); each `.cfg` file is one run.

**Step granularity.** A store transaction is one step, because `fenced_write` is one
SQLite transaction; a critical section of a std mutex is one step. Two reads of a
handler that another thread can separate are two steps: the row and its intent
(engine.rs:317, 341), the token and its grants (read_surface.rs:2329, 2407), the
principal and the rows of a snapshot. A handler that awaits is cut at the await.

### RefreshEngine

State: `row` is the `credentials` row (version, state, stale mark, incarnation,
refresh token, whether it is refreshable, whether its bytes open); `intent` the
`refresh_intent` row; `epoch`, `mine`, `fencedOut` the lease; `lock` the single-flight
lock of each process; `pc` and `req` the calls in flight; `presented` and `vouched` are
history: tokens sent to the provider, and those of them that are known to be good for
another attempt (a live engine saw the exchange fail, or an operator reactivated).

Actions: `Admit`, `Snapshot`, `CheckIntent`, `Acquire`, `FailOnIntent`, `ServeLocked`,
`LatchStale`, `OpenIntent`, `Answer`, `Commit`, `GrantRefused`, `ClearAfterError`,
`StorageFails`, `Reread` are the steps of `get_for_incarnation` and `do_refresh`;
`Quarantine` is the verdict on bytes that do not open; `ReportAdmit` and `ReportApply`
are `report_auth_failure`; `Create` ... `Remove` are the admin operations; `Open`,
`Reconcile`, `Serves`, `Dies` are boot; `Crash` and `Damage` are the environment.
Time does not appear: whether a token is due is a free choice of each call.

### Enrollment

State: `pend` (requests by id, in order of creation), `cons` (enrollments), `granted`
(names that have grants), `held` (the token each consumer has), `read` (its scoped
read in flight), and two clock hands, `lapsed` and `old`, which say up to which
request the TTL and the retention have passed: requests are created in order with
one TTL, so they lapse and age in order. `since`, `by`, `kept` and `told` are history.
A consumer is identified with its request secret. Names of grants stand for the
whole grant; selectors do not matter to the properties. Refusals that change
nothing are not steps; a refusal after the sweep is one, because the sweep commits.

### ScopedWatch

State: the store (`view`, `revoked`; `past`, the digests it had before, is history), the hub (`entry`, `drain`, `awaited`, `stop`), each
watch's task (`task`, `job`, `dirty`, `val`, `last`, `seq`), the frames on the way
(`wire`) and the consumer (`got`, `known`, `due`, `over`). A digest stands for the pair
of view and keys. `select!` with `biased` becomes the guard `stop = "Running"` on every
step of the loop and the action `Break`. Jobs on the blocking pool outlive their
task, as in the code. The wire is in order; `Shed` drops notices when `Shedding`.

### AdminAuth

State: `bind` (the channel's epoch, whether its principal is direct, its nonce and
whether the nonce's TTL has passed), `outstanding` (the counter), `signed` (tags the
holder of the master key has produced; nobody else can), `req` (requests with the
caller captured when they were accepted). `issued` is history. A tag is a pair of
nonce and body; the absence of one stands for every wrong or malformed tag.

### SecretGrants

The tables for one secret name. `secret` is the row of `agent_secrets` (its incarnation,
its state, and whether columns and envelope agree); `pending` and `grants` hold
`secret_pending_requests` and both grant tables, indexed by the request, since a
request yields at most one grant, which `OneGrantPerRequest` checks; a holder is an
asking scope with a coverage, or a flow identity with methods. `signed` are the
envelopes the phone has signed, with its own clock; `Approve` may apply any of them any
number of times. `replies`, `receipts` and `tombs` are the tables that make retries of
approvals, forwarded calls and deposits harmless. `calls` are local uses between the
snapshot and the transaction that decides again (store_secret_use.rs:290, 309), or
between a refusal and its quarantine (store_secret_use.rs:493). `origin`, `granted`,
`spent`, `sent`, `answered` and `revoked` are history. Durations are counted in ticks of one clock that
never goes back. The items of an envelope are decided one by one, so an envelope has
one item here; the digest of a statement is taken as a function of its request.

`SecretRequests` is what the component promises about one request; `RequestsMoveForward`
is the refinement, under the mapping `life`: a request is `granted` while its grant
exists and `open` while its row exists unconsumed.

### Transfer

`out` and `inc` are `outgoing_transfers` and `pending_transfers`; `sealed` says which two
keys each envelope was made with; `key` is each vault's key record. A delivery is an
element of `Calls` that goes from `sent` through `looked` (dedup, queue and own key read)
and `opened` (after the lookup of the peer's key) to `answered`: the steps of `deliver_inner`
between its awaits. `waits` is FALSE once the sender's budget is spent or the sender
has crashed, while the receiver goes on. `accepting` is an accept in progress: prepared
(`AcceptPrepare`, which asks callosum for the sender's key), then opened or refused
(`AcceptOpen`, which reads the own key), then ended by its transaction (`AcceptCommit` or
`AcceptReject`), which looks at the row again and at no key; the lock an accept holds is
the one of the credential, so the key may change between any two of these. Which rows are past their retention is a free
choice of every sweep, and which key callosum announces may be any the vault has had.
`written` is history, and so is `replaced`, the generation of the receiver's key that the
last replacement put in place. There is one sender, so the total cap does not bind.

### RemoteRead

The requester has `rec` (the remote record), `mem` (`IdState`), `fetches`, `readers` and
`reporters`; the home `home`, `pairing`, `grant`, `issued` and `audits`. A read goes through
`Check`, `Enter` (under the lock: cache, join or start) and `Deliver`; a fetch through
`LookUpPairing`, `Authorize`, `Read`, `Issue`, the steps of `remote_token` between
its awaits and transactions, then `Finish` (`run_flight` and `apply`), and `Fail` loses the
call at any of them, the sealed answer included; a report through
`Resolve`, `Overtake`, `Raise` and, at the home, `LookUpReporter` and `MarkStale`, or
`RefuseReport`. The pairing is asked of callosum some time before it is used, by calls,
reports and by the operator's grant alike: `Grant` stores a grant under any pairing up to
the current one, `Revoke` and `RePair` come at any time. A material is one sealed
payload of the home's record, so versions repeat after a re-creation and materials do
not. `after` is history: the versions reported and verdicts applied since a fetch
started; so is `lacks`: the pairing at the start of a call that found no grant of it, until
a grant of that pairing or a later one is made. Lifetimes of tokens are a free choice wherever they are compared.

### Vault

`slot` are the two slots, `anchor` the key of the audit-key row, by which every opening of
the database finds its key; `holder` is the process with the lease. A rotation is cut at
every write: `RotationOpens`, `Heal`, `HealClears`, `StageNext`, `Rewrap` (one
transaction), `PromoteNext`, `PromoteClears`; `HolderEnds` may come between any two.
A command is cut at every read of a slot, because it reads them without the lease:
preflight (`Preflight`, `PreflightNext`), challenge, choice of the signing key,
`SendOp`, the answer or its loss, and the offline path. `net` is what is still on the
wire, which the daemon may handle after the command has given up. The operations are
those that seal or drop a row. `Sign` reads the key and prepares the signature. A key
without `audit_each_signature`, which is the default, then gives it out with no entry and
nothing read again (read_surface.rs:1504); a key that has it, and `seal` and
`operator_sign` with any key, first take `AppendSignature`, the transaction that appends
the use, or `RefuseSignature` when the key is no longer the stored one.

## 3. Runs

Every run finishes within five minutes with two workers. `CHECK_DEADLOCK FALSE` is set
everywhere because the bounds on versions, tokens, requests, commits and nonces let
a behaviour run out of steps; the code has no such end, and waiting for ever is
covered by the liveness properties.

| run | question | answer |
|---|---|---|
| `handover` | two processes, crashes, restarts, handovers, replacements and late reports around two calls | `NoBlindReuse`, `UnresolvedIsFlagged`, `IntentMatchesStored`, `ReportHitsServedToken` hold |
| `live` | damaged bytes, an id removed and re-created at version 1 under calls and verdicts of its former life, every answer of a boot check | `VerdictLandsOnItsToken`, `QuarantineOnlyDamaged` hold; `EveryCallReturns` holds under fairness |
| `enrollment` | requests of two consumers contend for a name and a table of two rows; lost replies, expiry, re-use of a name | `NoInheritedReach`, `RowsBounded`, `TokensReachTheApproved` hold |
| `in_flight` | a statement of a comment | violated, see section 6 |
| `watch_hub` | two watches, one slot; replace, refuse, close, drain, faults, shedding | `RunningIsRegistered`, `DrainTells`, `TerminalIsLast` hold |
| `watch_follow` | commits, which may restore an earlier digest, against snapshots of one watch | `NoticesCatchUp`, `Converges`, `RevokedEnds` hold under fairness |
| `admin_nonces` | two channels, one challenge slot, rebinds, two bodies, replayed tags | `OncePerNonce`, `ClaimedOnItsBind`, `CountsNonces`, `FullIsFull` hold |
| `secret_use` | two local calls and a retried forwarded one, two envelopes, expiry, deletion | `OnceIsOnce`, `OneGrantPerRequest`, `NonceReleasedOnce` and the refinement `RequestsMoveForward` hold |
| `secret_home` | a flow and its approval while the secret is deposited, damaged, deleted and re-created and the home moves | `GrantsFollowSecret`, `HomeNotStranded`, `RevokedFlowStaysRevoked`, `DepositOnce`, `QuarantineOnlyUnsound` hold |
| `transfer` | two deliveries and an accept of two transfers, a queue of one, new keys on either side, sweeps, crashes, lost and late answers | `QueueBounded`, `WritesOnlyWhatOpens` and the refinement `TransfersEndOnce` hold |
| `remote_read` | two fetches, two reports, a re-added record and a re-created home record, grants and pairings that change | `ReadsAfterReports`, `OvertakenApplyNothing`, `IssuedIsAudited`, `ServedUnderCurrentGrant` hold |
| `vault` | three keys, two boots, two commands, a signature with or without its entry, rotations stopped anywhere | `NeverStranded`, `SealedOrQuarantined`, `ReportedAsApplied`, `SignedInItsGeneration` hold |

**Why the bounds are enough to be interesting.** `handover` has two processes and three
tokens: a token can be refreshed, its exchange lost by one process and met by the
other, and replaced. `live` has two incarnations and two calls. In `enrollment` a name can
change hands, the table is full before the last request, and a second token follows a
lost first one. `watch_hub` has more
watches than slots; `watch_follow` has three commits for one snapshot in flight, one
wait and one coalescing window. `admin_nonces` has one channel more than slots,
two binds per channel, and requests enough for a challenge and two uses of its tag. `secret_use` has two
askers, two requests and two envelopes, and time for requests and grants to expire and
for retries to cross a tick; `secret_home` has two lifetimes of the secret, so that an
envelope and a quarantine of the first meet the second, and a member id that is set
after a home was named. Coverage of a head's workers is in the model and in no run.
`transfer` has one transfer more than the queue takes, and a new key on one of the
sides. `remote_read` has a second fetch that can overtake or be overtaken by the
first, and one reader, which may leave a fetch under way and come back: readers meet
only in the shared state. `vault` has keys for a rotation that stops after the re-wrap and another one
after it; that an id is re-created under a prepared signature needs three commands and is
left to the proof.
Every property has a mutant: a plausible bug in the action it is about, under
which the same run reports the property violated. For the properties that are
proved, the bounds do not matter.

**Fairness.** `RefreshEngine`: weak fairness of each call's steps, since a call is a
spawned task that nothing aborts and the HTTP client times out; strong fairness of
`Acquire`, since tokio's mutex queues its waiters. Nothing is assumed of admin
operations, crashes or boots. `ScopedWatch`: weak fairness of the task, the job, the
consumer's reading and re-reading and of the end of the drain, since tasks are
polled, blocking jobs end and timers fire; strong fairness of `StartJob`, since the
semaphore is fair. Nothing is assumed of commits, opens, closes or drains.
`watch_follow` runs without shedding and without failing reads: with either, the
last change may never be announced, which the contract accepts for shed notices.
Commits may restore a digest, so `Converges` promises nothing while the current digest is
one the store had before: section 6. The modules of
federation and `Vault` state no fairness: a call may be lost for good and an operator
need not come.

## 4. Proofs

All theorems hold for every value of the constants that satisfies the named
assumptions (`ConstantsAssumption`, `BoundsAssumption`, `NoneAssumption`, `VaultAssumption`,
`DistinctAssumption`, `DeadlineAssumption`): sets of any size (finite
channels in `AdminAuth`, where a cardinality is taken), any bounds. The assumptions
say that bounds are naturals and that `None` and `NoOne` are not ordinary values, and
two things more that the code fixes by its constants: the live limit of enrollment
requests is below the row limit, and a receipt outlives the forwarding deadline (the
assertion in `remote_read.rs`).
Each proof module has one invariant `IInv`, a lemma per action and one per family of
facts, and a theorem `Inductive == Spec => []IInv` from which the others follow.

* **RefreshEngine.** None of the safety properties is inductive alone. The argument:
  lease epochs are not shared (`EpochsApart`), so at most one process passes the
  fence; a call from its second read to the end of the exchange holds its process's
  lock (`CallsPlaced`); hence, as long as the lease is held, what the call read is
  still stored (`CopyCurrent`), although the writes compare only version numbers.
  Tokens from the provider are fresh (`TokensFresh`), versions rise within a lifetime
  and name one token each (`VersionsName`), and an unresolved token read under the
  lock still has its intent (`IntentStillThere`). From these follow
  `NeverReusedBlindly`, `UnresolvedStaysFlagged`, `IntentsMatch`, `VerdictsLand`,
  `QuarantineIsJust`, `LatchStaysFinal`. Three theorems have a hypothesis on the
  constants, which section 6 or the list of hazards explains: `NeverReusedBlindly` is for ids whose reports mark stale, `GateHolds` for boot checks
  that never answer transiently, `HandleReportsHit` for reports addressed by handle.
  `LocksAreOwned` is the safety half of `EveryCallReturns`: a held lock belongs to a call of
  that process on its way to its return, because every exit of a call, refused, failed or
  quarantined, drops its guard, and a crash takes the lock with the process.
* **Enrollment.** `Core` says that ids are minted in order, a name has one live holder,
  tokens of different enrollments differ, a consumer holds only minted tokens and,
  if live, only of an enrollment its own request was approved for, and an approved
  request points at the enrollment made for it. `ReachIsOwn`, `TokensAreOwn` and the
  action property `GenerationsOnlyRise` follow. For `TableIsBounded`: the sweep before an
  insert takes the ended rows by rank, the oldest first. That it takes enough is an
  argument about the oldest row it leaves (`OldestGo`): if any ended row is left, the
  oldest one left has as many ended rows before it as were taken, and its rank says
  that the rest and the new row fit; if none is left, what remains is live, and the live
  limit is below the row limit.
* **ScopedWatch.** The registry and the tasks say the same: a slot holds a watch of that
  channel that was not told to stop, and a subscribed watch that was not told to stop holds
  its slot (`EntriesInv`, `RunningInv`); a replacement tells the old watch in the step that
  takes the slot. The task's own removal of its entry finds the slot only if it is still
  its own. `RegistryIsRight` follows. Terminal frames are sent only at the end of the loop
  (`WireInv`) and a task past it has sent one unless its consumer closed (`ToldInv`):
  `TerminalEnds`, and with `DrainInv` `DrainIsHeard`. `NoCommitIsMissed`, for a store that
  does not fail, is the safety half of `Converges`: what a snapshot saw is what the store
  has, unless a commit was signalled since (`CurrentInv`), because the task subscribes
  before its first read and takes the signal down before each later one.
* **SecretGrants.** Requests and incarnations are minted in order (`MintedInv`, `OriginInv`).
  A request that is open was never granted, and a grant that exists was granted once and has
  paid for no single use; both name the incarnation of the stored secret and are newer than
  the last revocation of their flow (`PendInv`, `GrantInv`). Every deletion of the secret, and
  every move of the home, takes the rows in its own transaction, which keeps the
  incarnations together; a use decides again in the transaction that spends, so a snapshot
  that has become stale spends nothing. `OnceReleasesOnce`, `ApprovalGrantsOnce`,
  `RowsFollowSecret`, `RevocationHolds`, `ForeignHomeIsEmpty`, `DepositCreatesOnce` and
  `QuarantineIsRight` follow. `RetriesReleaseOnce` needs the clock: the receipt of an answered
  call is there until the deadline of its last retry has passed (`NonceInv`).
  `Refines`, that `SecretGrants` implements `SecretRequests`: every step satisfies `Forward` (a
  request opens only when it is minted, is granted only from open, and nothing that ended
  returns), and `IInv` makes the stage of a request a function of whether it was
  made, open and granted. `QueuesStayBounded`: only the insert adds an open request, and
  it counts in its own transaction; every other step shrinks the queues.
* **AdminAuth.** A nonce on a bind was issued to that bind, a claimed one was issued to
  the bind of its claimant and is on no bind any more, and the counter is the
  cardinality of the set of binds that hold one. `NoncesAreSingleUse`, `ClaimsAreOwn`
  and `CountsAreHonest` follow; `RefusedOnlyWhenFull` and `ChallengesAreKept` are
  action properties, the latter with the additional invariant that a bind's epoch is
  never past its channel's.
* **Vault.** The lease makes the rotation the only writer of slots and rows while it
  runs, so the invariant is a table: for each step of the rotation, which slot holds the
  key the database is sealed under (`KeysInv`). From the heal to the re-wrap it is Current, so staging
  into Next cannot lose it; after it, it is Next until the copy; `Heal` brings a rotation
  that found it in Next back to the first case, which is why a second rotation does not
  overwrite the only copy. A database never opened has one key at most, the one
  that commands may have read (`anchor = NoKey` in `KeysInv`). `KeyIsNeverLost` and, with the fact that every writer seals with
  the anchor's key, `RowsStayReadable` follow. For `ReportsHold`: an operation on the wire
  has not been applied, a command that has one is past the point from which it falls
  back, and only a live daemon applies it. For `SignaturesStandInPlace`: the row that is
  stored is the one the last entry of the chain about it put there, and an append keeps
  every earlier entry where it is; a signature that asked for its entry is given out only
by the append.
* **Transfer.** Ids are minted in order, and a row at either vault, a delivery and an accept
  in progress each name an envelope that was sealed (`Minted`, `RowsSealed`, `CallsSealed`,
  `AcceptsOK`): without this an insert could queue, and an accept write, what nobody
  sent. An accept past its opening read the key the envelope is sealed to, and if a
  replacement has retired that key since, its row is no longer pending, because the
  replacement rejects the pending rows in its own transaction (`AcceptsOK`; `ReplacedOK`
  says that no replacement is ahead of the key). Every step then does one of three things to the receiver's rows: it is quiet (it
  ends pending rows or queues a sealed one), it seals the next id, or it writes one
  pending transfer whose accept opened it. `QueueStaysBounded` follows because
  only the insert adds a pending row, and it counts in its own transaction, whatever the
  delivery counted before its lookup; `OnlyOpenedIsWritten` and `Refines`, that
  `Transfer` implements `TransferLife`, follow from the three cases.
* **RemoteRead.** A fetch of the current `IdState` that is under way is of no later
  generation than the state, and of an earlier one once a report or a verdict has
  overtaken it; what is in the cache was issued and, if it was fetched in this state, has
  not been reported since (`Good`). So a read, which joins only fetches of the current
  generation, joins none that was overtaken, and `Applies` refuses their answers:
  `ReportsComeFirst` and the action property `OvertakenAreDropped`, for which `Finish` is
  shown to be the only way an answered fetch ends. For `IssuesAreAudited`: a new material
  is later than every issued one, and an entry is made for a material exactly when it is
  first issued (`IssueInv`). For `GrantsAreCurrent`: while a call lacks a grant, the
  stored grant is older than the pairing at its start, and the pairing that the call
  compares it with is not (`GrantInv`).
* **Proved and in no run.** `TypeCorrect` of seven modules and `TypesHold` of `Vault`, `LatchStaysFinal`, `GateHolds`,
  `LocksAreOwned`, `GenerationsOnlyRise`, `ChallengesAreKept`, `NoCommitIsMissed`,
  `QueuesStayBounded`: the theorems say more than a small instance would.

**Model-checked only.** The liveness properties (`EveryCallReturns`, `NoticesCatchUp`,
`Converges`, `RevokedEnds`): the proof system does not reason about
fairness and `ENABLED`. Every invariant, action property and refinement of a passing run
is proved.

## 5. Abstractions

Secrets, hashes, digests, names and bodies are opaque values; ciphertext is a flag
`sound`; MACs cannot be forged; clocks are nondeterministic, restricted to the order
the code's arithmetic gives them. Providers answer with one of the four outcomes the
engine distinguishes. Errors of the store are one kind where the code treats them as
one. Audit rows and event rows are written in the same transaction as what they
record and are state only of `Vault` and, for issued tokens, of `RemoteRead`. A process is a lease epoch; a restarted
one gets a new epoch. In `Transfer`, `Send` is one step in which the own key it sealed
with may be any the sender has had, since it is read before the row is committed. In `RemoteRead`, that a
member is not paired is an answer a lookup may give at any time; the home's steps for the
fetch of a `remote add` are one step, `IssueForAdd`, and `Add` commits any version that was
issued. No property depends on more. Counters are bounded by constants whose names begin with `Max`.

## 6. Where code and text disagree

The statement of a comment is a run that reports the stated property violated; the
trace shows how. `in_flight`: a scoped read that resolved its token before the
revocation is allowed by a grant made after it, because the grants are evaluated by
name in a second read (read_surface.rs:2407); the comment at store.rs:3322 says that
such a grant reaches nothing.

More were met while modelling and are in the models' behaviour without a run of their
own:

* a published digest goes from c to b, the consumer re-reads b after another notice, and a commit
  brings c back before the coalesced snapshot: the task sees nothing new
  (watch_scoped.rs:281) and the consumer keeps b until the next change, where the comment
  at store.rs:2208 says that what the digests filter are no-ops. `Converges` excludes this
  case: without its condition `view \notin past`, `watch_follow` shows
  the trace;
* a report by id binds to the lifetime current on arrival (read_surface.rs:2946), and
  versions restart, so it can mark a re-created credential, where read_surface.rs:3002
  says that a consumer can only kill the exact version it saw; `ReportHitsServedToken` is
  therefore checked and proved for reports by handle;
* a proposal is resumed by its secret only while pending (store.rs:2553), so a consumer
  that lost the reply and retries after the approval is refused until the request
  expires, and never learns its id, where docs/wire-contract-v1.md:339 says that keeping
  the secret avoids this;
* a stored approval reply expires at issue time plus skew (store_secret_approval.rs:144),
  an instant at which an item still passes the skew check (line 224): a resend at that
  instant is answered as refused though its grant exists, where the comment at line 180
  says that the reply lasts as long as a resend could be applied;
* a report that invalidates version N during a refresh of N makes the commit fail
  (store.rs:5958 asks for `state = 'active'`), where the comment at store.rs:5010 says
  that the refresh overwrites it and either order converges; this applies to ids
  without a default refresh adapter;
* an intent that a boot retained is cleared unchecked by the next boot
  (engine.rs:706), where engine.rs:89-91 announces a later re-check; no adapter has
  a check yet, and the record stays failed closed either way;
* a watch replaced just before the drain is not waited for (watch_scoped.rs:110), so
  its `STREAM_END` may come after the drain is over, where
  docs/wire-contract-v1.md:1158 says that the drain ends all watches first;
* a failing read of the token table is answered as an unknown token
  (read_surface.rs:2334) and ends an open watch with the permanent refusal, where
  watch_scoped.rs:295 promises to retain and retry;
* the replacement of a transfer key abandons the outgoing transfers because they can
  only fail at the receiver (core/federation.rs:474, store_federation.rs:1746), but one
  that is already queued there can still be accepted; and a delivery that read the
  receiver's key before it was replaced may queue a row sealed to the old key, which the
  accept then rejects;
* a transfer key that is removed and made anew (`transfer init`) between the opening of an
  accepted envelope and its commit does not stop the write, since the commit reads no key;
  only a replacement does, by rejecting the row. `WritesOnlyWhatOpens` therefore speaks of
  the key the accept read;
* most signatures leave no trace: a key without `audit_each_signature` signs unrecorded and
  without another look at the key (audit.rs:145), so a signature may be given out after
  its key was replaced or removed. `SignedInItsGeneration` speaks of the recorded ones;
* a reader that still holds the incarnation of a removed record resets `IdState`
  (remote_read.rs:799) and the next one resets it again, with generation and
  sequence at their start, so a fetch from before a report may be applied after all, where
  remote_read.rs:986 says that it is not; and a fetch started after the report was noted
  may reach the home before the forwarded report and bring the same version back. The
  properties are therefore stated within one life of an `IdState`;
* resolver.rs:541 says that a fingerprint matches exactly one of the two slots; between
  the copy and the clearing of a promotion it matches both, which is harmless. Writes of
  slots are not fenced by the lease epoch, only the lock of the lease keeps rotations
  apart.

## 7. Plan

1. Proofs: the safety halves of `RevokedEnds` and `NoticesCatchUp` (what is on the wire or due
   covers what the consumer does not know), as `LocksAreOwned` and `NoCommitIsMissed` are for
   the other two liveness properties.
2. `Grants`: selectors, categories and handles, which give `ScopedWatch` its views.
3. `Limiter`: windows and eviction; `DeviceFlow`: polling with `slow_down` and expiry.

## 8. Not modelled

The parsing and output of the command line, the catalog and the provider wire formats:
data. The cryptographic primitives (`envelope.rs`, `signing.rs`, `kem.rs`), which the models
take as ideal. Schema migrations, `source_record.rs` and the deposit key made at boot,
which run before the store is served. The custody backends of the master key
(keychain, file), framing, sockets and the connection handling of `outbound.rs`. The
anomaly limiter and the interactive logins, which share no state with the other
components. Truncation and verification of the audit chain. Selectors and categories of
grants: their evaluation is a pure function of one transaction. Of the client library,
only the tracker of scoped watches is modelled.
