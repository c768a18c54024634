# Payrune in TLA+

Payrune issues a blockchain address for each payment, watches the chain until
the payment is confirmed or its window has passed, and tells the merchant of
every status change by webhook. It is a Go program that runs in two ways: as
long-running processes (an API server, pollers, a webhook dispatcher) over
PostgreSQL with `database/sql`, and as one Cloudflare worker, where the same use
cases, compiled to Wasm, reach PostgreSQL and the network through JavaScript
bridges. There is no other shared state than the database: what makes payrune
correct is how its short transactions, leases and retries fit together when
several processes, several requests and a moving blockchain interleave.

This directory holds TLA+ modules of those parts, configurations that let TLC
check them, and proofs that TLAPS checks. `PROJECT.json` lists for every
definition the lines of source it stands for, for every run its properties, and
for every property a mutation of the code that breaks it.

    tlc -config polling_in_lease.cfg MCReceiptPolling.tla     # any run
    tlapm AddressAllocationProofs.tla                         # any proof module

## 1. The system

| Part | State | Operations | Talks to |
|---|---|---|---|
| HTTP API (`adapters/inbound/http`) | none | validate a request, call a use case, map its error to a status code | allocation, status query |
| Address allocation (`allocate_payment_address_use_case.go`, allocation and idempotency stores) | tables `address_policy_allocations`, `address_policy_cursors`, `payment_address_idempotency_keys` | replay a recorded answer, claim the key, reopen or reserve a slot, derive, issue, track, record | derivation (a call), polling (the tracking row it inserts) |
| Address derivation (`outbound/bitcoin`, `outbound/ethereum`) | none | xpub and index to Bitcoin address; factory, collector and salt to CREATE2 address | - |
| Receipt tracking aggregate (`domain/entities`, `domain/policies`) | none of its own | apply an observation, decide the status, expire, make the status-change event | polling |
| Receipt polling (`run_receipt_polling_cycle_use_case.go`, tracking store) | table `payment_receipt_trackings`: a row per address, its due time and its lease | claim a batch, observe, save with the event, mark a failure | observers (calls out of any transaction), outbox (a row in the save's transaction) |
| Bitcoin observer (`esplora_receipt_observer.go`) | none beyond one observation | height, chain pages, mempool, aggregation | Esplora HTTP API |
| Ethereum observer (`rpc_receipt_observer.go`) | none beyond one observation | height, two balances | JSON-RPC node |
| Notification outbox and webhook dispatch (`run_receipt_webhook_dispatch_cycle_use_case.go`, outbox store) | table `payment_receipt_status_notifications`: status, attempts, due time, lease | enqueue, claim, post, save the result | receivers (HTTP posts out of any transaction) |
| Status query (`get_payment_address_status_use_case.go`) | none | read one committed row | - |
| Schedulers (`adapters/inbound/scheduler`) | none | one cycle per tick, one at a time per process | polling, dispatch |
| Cloudflare worker (`deployments/cloudflare/payrune/src`) | per isolate: the Go program, a client pool, a map of bridges, one global post function | register, run, unregister; begin, query, commit; post | all use cases, through the bridges |
| Cloudflare PostgreSQL stores | none | the statements of the PostgreSQL stores | bridge |
| Policies, configuration, bootstrap | the catalogue of address policies, fixed at build and start | build, enable, disable | all |
| CREATE2 contracts and sweep tooling (`ethereumcreate2assets`, `scripts/ethereum_create2_*.sh`, readiness checker) | on chain: factories, receivers, balances; in the tree: the metadata; per row: `sweep_material_json` | deploy a factory, check it at start, record material, sweep a batch | the Ethereum balance |
| Migrations, webhook mocks | - | - | - |

What is hard about it, and where:

- **Leases without fencing.** `ClaimDue` and `ClaimPending` take a row for a
  fixed time (`FOR UPDATE SKIP LOCKED`, then `lease_until`). The save that
  follows is `UPDATE ... WHERE id = $1`: it does not ask whether the lease is
  still held or the row still as claimed. Nothing ends a cycle at its lease (the
  default lease is 30 s, one HTTP request may take 10 s, and a batch is worked
  through row by row), so both cases are modelled: cycles that end in time,
  and cycles that overrun.
- **Observation out of transaction.** The chain moves between the requests of
  one observation, and between the observation and the save.
- **Row and event together.** A status change and its notification must be
  committed together, once, through failures at any point.
- **At-least-once delivery.** A webhook's answer may be lost; the attempt
  counter decides between a retry and giving up.
- **Row locks of four kinds in one transaction** (key, reopened slot, cursor,
  unique address) taken by requests that fail, retry and compete.
- **Money that can only be had in one way.** A CREATE2 address can be emptied
  only through the factory and with the init code it was computed from, while
  factories, collectors and builds change, and sweeps are prepared from
  balances that move.
- **One event loop for all jobs** in the worker: a shared Go program, a shared
  pool, and a global post function.

## 2. The modules

| Module | Models | Properties aimed at |
|---|---|---|
| `ReceiptTracking` | the aggregate's rules as operators; extended by the next two | - |
| `ReceiptLifecycle` | abstract: the status of a payment as its readers may see it | refined by `ReceiptPolling` |
| `ReceiptPolling` | claim, observe, save, abort, time, chain | leases, lost updates, events, expiry |
| `WebhookDispatch` | enqueue, claim, post, save, abort, time | double posts, retry counting |
| `Pipeline` | composes `ReceiptPolling` and `WebhookDispatch`, with the merchant | what the merchant ends up knowing |
| `IdempotentIssuance` | abstract: what those who ask for addresses are promised | refined by `AddressAllocation` |
| `AddressAllocation` | every statement of the issuing transaction | idempotency, density, deadlock |
| `BitcoinObservation` | the requests of one observation against a moving chain | pages, confirmations |
| `BitcoinReceipt` | composes it with the poller of `ReceiptPolling` | missed payments, recognition |
| `EthereumObservation` | the two balances against a moving chain | confirmations, reorganisations |
| `EthereumReceipt` | composes it with the poller of `ReceiptPolling` | sweeps before confirmation, expiry, recognition |
| `CloudflareWorker` | jobs, bridges, pool and Go program of one isolate | leaks, starvation, shared global |
| `Create2Sweep` | factory deployment, readiness, issue, payment, the sweep script and the contracts | lost or misdirected money, partial sweeps |
| `ReceiptPollingProofs`, `WebhookDispatchProofs`, `PipelineProofs`, `AddressAllocationProofs`, `BitcoinReceiptProofs`, `EthereumReceiptProofs`, `CloudflareWorkerProofs`, `Create2SweepProofs` | theorems and their proofs, section 5 | every safety property of the runs |
| `MC...` | values for TLC: amounts, requests, derivations | - |

The modules meet at the rows they share, and three of them compose others by `INSTANCE`:

- `Pipeline` has the transaction in which a poller saves a row *and* enqueues its event,
  and one clock for both leases.
- `BitcoinReceipt` and `EthereumReceipt` put the requests of an observer in the place of
  the look at the chain that `ReceiptPolling` takes in one step (`ObserveAs` is the part
  of it that does not care where the totals come from).
- `AddressAllocation` ends where the tracking row is committed, which is where
  `ReceiptPolling` starts (`Init`). `Issue` of `Create2Sweep` is the statement that completes
  an allocation (`Complete` of `AddressAllocation`), seen from the material it records.

### 2.1 ReceiptTracking, ReceiptLifecycle

`ApplyObservation`, `DecideStatus`, `ExpireIfDue` and `StatusChangedEvent` are
the methods of the aggregate, branch for branch. Instants that the code compares
only with "unset" (`paid_at`, `first_observed_at`, `confirmed_at`) are Booleans.
`ReceiptLifecycle` knows no poller: a status moves one published change at a
time, never from a settled one, and never back to unpaid.

### 2.2 ReceiptPolling

| Code | Model |
|---|---|
| `payment_receipt_trackings` | `row`, `due`, `lease`, `window` |
| outbox rows of an address | `outbox[a]` |
| `POLL_CHAIN` and `POLL_NETWORK`, endpoints | `Scope[w]`, `Reach[w]`, sets of networks |
| claimed slice, loop variable, cached heights | `batch[w]`, `work[w]`, `tip[w][n]` |
| `ClaimDue` transaction | `ClaimDue(w)` |
| `processTracking` up to the save | `Observe`, `ObserveFails`, `TipFails`, `TipFailedBefore` |
| `WithinTransaction` with `Save` and `EnqueueStatusChanged` | `Save(w)` |
| a crash, a failed store call | `Abort(w)` |

`StatusAnswer(a)` is what the status query answers of a row, and what the
refinement of `ReceiptLifecycle` reads.

A poller's batch is processed in any order: the code's order is that of
`next_poll_at`, and how late a row is, is not kept. Instants are what remains
until them, so that time needs no bound; `age[w]` is the time since the `now`
that a cycle takes at its start and uses in every save. What a poller claims and what
it has endpoints for are set independently, and nothing compares them: `Scope` may exceed
`Reach`, and then each claim of such a row is a failed observation that postpones it. The
two liveness properties are therefore about rows that every poller that claims them can
observe (`Observable`). `PollerConfig` and `ReceiptTerms` are what the loaders of the
configuration let through: positive numbers where the code insists on them.

### 2.3 WebhookDispatch

`status`, `attempts`, `due` and `lease` are the columns; `batch` and `sending`
are the dispatcher's local state. A post ends in one of three ways: accepted,
refused, or accepted with the answer lost. `PolicyMissing` is the error path of
a row whose address policy the running build does not know. The catalogue is
compiled in (`buildAddressIssuancePolicies` lists it), so this can only be met
while builds of two ages run (`unknown`); there, the row blocks its batch each time
that dispatcher claims it, until `Upgrade` replaces the process. `posts`,
`accepted` and `overruns`, the number of cycles that have outlived their lease, are
history: three of the properties are about the time before the first overrun, the
others about any. `DispatcherConfig` is what the loader accepts. Signature and payload are
left out, and so is that the Cloudflare notifier omits the asset reference from its
payload.

`Pipeline` keeps of the merchant the notification with the highest `notificationId` it has
accepted (`Heard`). Nothing else orders them: a batch is posted in the order of
`UPDATE ... RETURNING`, which is none, retries come later than first tries of newer rows,
and two dispatchers post at once. A merchant that goes by the order of arrival, instead,
can be left with a status the payment no longer has.

### 2.4 AddressAllocation

One step is one SQL statement under READ COMMITTED. `table`, `cursor`, `idem` and
`trackings` are what is committed; `tx[r]` is what request `r` has written and not
yet committed, and the row locks are read off it: a key that is inserted
(`HoldsKey`), a row that is updated (`HoldsRow`, which `SKIP LOCKED` passes by), a
cursor (`HoldsCursor`), a unique address (`HoldsAddress`). A rollback is
`tx[r] = EmptyTx`. `CommitUnheard` is the commit whose answer is lost.
A client's retry is another request with the same key. `DerivationFails`
rolls back what `handleDerivationFailure` wrote, see section 6; failed rows
therefore come from `Inherited`, a table left by an earlier release.
`FindStatus(id)` is what the status query finds of an id, `StatusCode` what the HTTP
controller makes of an outcome.
`AddressOf` is the derivation, as the code gives it: Bitcoin from key and
index, Ethereum also from the row's id.

`IdempotentIssuance` knows payments, what each key stands for and what each client was
told, and no slot, lock or transaction. The refinement mapping takes the payments from
`FindStatus`, the keys from the committed records and `told` from `answer`. It says at
once that an answer is kept, that a replay gives the address first issued and only to the
same request, that addresses are unique, and that no half-made payment can be asked for.

### 2.5 The observers: BitcoinObservation, EthereumObservation and their receipts

`FetchTip`, `ReadPage`, `ReadMempool` and `FetchTip`, `ReadObserved`,
`ReadConfirmed`, `Report` are the requests and what is made of them; between any two of
them blocks arrive, payments are broadcast or replaced and branches are reorganised. The
chain and the servers are external: what they answer is modelled from how the code uses
it. When the transaction a page starts after has left the chain, the listing is
empty or starts over, since servers differ. `calm`, `steady`, `results` and `moment` are
history.

`BitcoinReceipt` and `EthereumReceipt` are one address and one poller: `Claim` and `Save`
are those of `ReceiptPolling`, between them the observer asks its questions (`Ask`),
hands over totals (`Receive`), refuses a negative difference (`Refuse`) or gives up
(`GiveUp`). Several pollers, dead ones and leases are the matter of `ReceiptPolling`;
events are the matter of `Pipeline`. `ReceiptPolling` shows expiry right for an observer
that sees the chain at one instant; these two say what is left of that for the observers
there are.

A sweep is, for the Ethereum observer, a block with a lower balance (`NextBlock`). The
sweep script does not look at receipts, so it may come before the confirmations: `course`
is history of whether a payment came in time and whether anything has disturbed it.

### 2.6 CloudflareWorker

Jobs are API requests, poller runs and dispatcher runs of one isolate. `runtime` is
the promise of the Go program and what became of it, `contexts` and `observers` the bridge
maps, `poster` the global post function, `idle` and `client` the pool. A transaction
may lock one contended row. Waiting for a client and for the lock are states of
their own. `Post` and `Fetch` are calls out through the bridges, which a timeout ends.
The SQL itself is in the other modules.

### 2.7 Create2Sweep

| Code | Model |
|---|---|
| code at a factory address | `onchain[f]`: nothing, the factory, or something else |
| `factoryAddress` of the checked-in metadata | `metadata` |
| API processes, their metadata and collector | `running`, a set of pairs of factory and init code |
| `sweep_material_json` | `material[a]`, such a pair |
| receivers, balances | `deployed`, `held[a]`, `arrived[a][k]` |
| a run of `ethereum_create2_sweep.sh` | `script[o]`: rows selected, rows whose balance is still to be read |
| signed transactions | `mempool` |

`Start` contains the readiness check. The script's checks that always pass for a row
that `buildSweepMaterialJSON` wrote (types, hashes, the recomputed address, the
collector of a deployed receiver) are left out. A script that finds a zero
balance dies without having changed anything, so that it has no step for it.
`Succeed` is the batch of the contract, all or nothing, over the receivers *this*
factory computes; `Fail` is a transaction that is reverted for any reason, or
dropped. A creation that fails on chain may still put its address in the metadata:
`cast send` answers with one either way, and the readiness check is what stands
between that and a customer. `paid` is history.

Left out: ether sent to an address that is watched for a token (the script sweeps
the row's asset only), gas, factories of an older ABI, reorganisations.

## 3. Runs

Every "pass" run explores its whole state space. Bounds are named constants of the modules.

| Run | Shows | Bounds, and why they are enough |
|---|---|---|
| `polling_in_lease` | cycles that end in their lease share no row, lose no update, publish each change once and implement `ReceiptLifecycle` | 2 rows of different amounts on different networks, 2 pollers, one without an endpoint for one network it claims; batches of 2: a batch can be half done while another poller waits. 2 chain moves reach every status (pay, confirm or revert) and 2 faults let one cycle die and one observation fail. No liveness is checked here |
| `polling_overrun` | when cycles overrun, every event is a legal move, a payment in time does not expire; expiry and recognition come in the end | 1 row, 3 pollers, one of them scoped to another network, with leases of one tick: the second claims while the first holds a snapshot |
| `polling_sticky_paid` | violation, section 6 | as above, 3 moves |
| `webhook_dispatch` | one dispatcher per row, results final and posts bounded while cycles end in their lease; results earned, and every notification settled, whether they do or not | 2 rows, 2 dispatchers, one of which starts as an older build; batches of 2 and leases of 2 ticks, so that a batch can be half done; 2 attempts, 1 death, 1 overrun: each changes the claim order of both rows. No symmetry, as liveness is checked |
| `pipeline` | the merchant ends up with what the status query answers, unless the last notification was given up | 1 poller, 2 dispatchers, so that two posts of one payment overtake each other; 3 status changes, 2 chain moves, 2 attempts, 1 failed observation, 1 death on the sending side: a retry can come after a later change |
| `allocation` | the promise of `IdempotentIssuance`; dense slots, tracked rows, one address per key, final rows, true refusals, every request answered | 4 requests: two tries of a key, a misuse of it for the other policy, one without key. 2 policies of one slot, of which the first may have been left failed, whose second and third row derive one address: replay, wait for the key, reopen, reserve, exhaustion and waiting for an address held by another policy's request all happen, with any statement and any commit failing |
| `allocation_failure_persisted` | violation, section 6 | as `allocation` |
| `bitcoin_receipt` | steady payments are counted, nothing twice, a confirmed total is mined for good; a payment at rest is paid, one that was seen and lies deep is confirmed in the end | 3 transactions of 1, 2 and 4, the last a replacement of the second, with 3 due: paid in two parts, or by the replacement alone; pages of 1 so that each listing has several; 3 blocks, of which the first is empty and the second may be stamped early: one more makes no new case under these depths, and takes four times as long; reorganisations of 1 under 2 confirmations; a window of 1, so that it ends within a cycle; 1 failed request |
| `ethereum_receipt` | confirmed balances stay; the two balances are of one chain; only sweeps and reorganisations unpay; a payment left alone is confirmed in the end | 5 blocks, balances up to 2 with 2 due, so that a payment may come in parts and be swept; reorganisations of 1 under 2 confirmations; a window of 1; 1 failed request |
| `create2_sweep` | every issued address can be emptied, into its own collector only, nothing is lost, and a sweep that succeeds has emptied its batch | 3 rows, two of one asset so that batches of 2 overlap, one of another so that they could be mixed, which is paid twice: before and after its receiver exists. 2 factories that start as nothing, a factory or other code, 2 init codes with a collector each: a row differs from today's values in either. 1 operator, who may have several sweeps broadcast while the script reads. Symmetry over like rows, factories, and init codes with their collectors; all properties are safety |
| `worker_isolate` | no client shared or lost, every job ends, the post function lasts | 3 jobs (a dispatcher run, a Bitcoin poller run, a request), 2 clients, 1 row lock, 2 calls each, 1 fault: fewer clients than jobs, and a lock held while others hold the rest |
| `worker_overlap` | violation, section 6 | 2 dispatcher runs, 1 client |

`CHECK_DEADLOCK FALSE` is set where the system really stops: all requests or
jobs have been answered.

## 4. Fairness

- Polling and dispatch: `WF(CycleProgress(w))` for each worker and `WF(Tick)`; in `Pipeline`
  the same, as `WF(Poll(w) \/ Save(w))` and `WF(Send(w))`. The
  scheduler handlers start a cycle at every tick of a `time.Ticker` (or cron
  trigger), and a cycle works through its batch; every HTTP request has a client
  timeout, so a post or an observation ends. Faults are in no fairness
  condition: none is owed, and each run allows only a bounded number of them.
  For dispatch, which of the three answers comes is not constrained either: a
  receiver may refuse for ever, and the notification is then given up.
  `WF(Upgrade(w))`: a roll-out that has begun reaches every dispatcher.
- Receipts: `WF(CycleStep)` and `WF(Tick)`, for the same reasons. The chain owes nothing: no
  block needs ever to come, and the liveness properties say "if a payment stays where it is".
- Allocation: `WF(Serve(r))`: a request that has been received goes on, unless it waits
  for a lock. No failure is owed to anyone: `Serve` has no failing statement,
  so `EveryRequestIsAnswered` cannot be had from a timeout that breaks a deadlock.
- Worker: `WF(RuntimeStarts)` and `SF(Progress(j))`. A job that waits for a client
  (the pool's queue) or for the row (PostgreSQL's lock queue) is served in its turn,
  although others take them in between: both queues are first in, first out.
  That a queue is fair is all that strong fairness adds.
- Sweeps: none. The properties are about what a sweep does, if anyone sweeps.

## 5. What is proved

TLC shows the properties on the instances above. TLAPS proves these for every value of the
constants. Every safety property of a passing run has its theorem; what is left to TLC is
liveness.

In the tables, an invariant named in the last column is the inductive one, or the part of
it that goes beyond types. Each was checked by TLC, on the run of its module, before it was proved.

### 5.1 `AddressAllocationProofs`

For any sets of requests, keys, policies, payloads, any derivation, any inherited failed rows
and any number of slots and ids:

| Theorem | States | Argument |
|---|---|---|
| `TypeCorrect` | `TypeOK`: `Typed`, no request is left with an open transaction, the id sequence is ahead of every row | `Typed /\ TxShape` is inductive. `TxShape` ties each request's position to what its open transaction holds (nothing before the first statement and after the answer, an addressed issued row from `track` on); without it `Publish` could not be typed. That ids lie behind the sequence, those of rows in a transaction too, is part of `RowsAreOwned` |
| `KeyIssuesOnce` | `OneAddressPerKey` | `KeysAreHeld`: an open claim excludes every other claim of its key and every committed record, and a request that has issued under a key has left a committed record |
| `IssuedRowsAreFinal` | `IssuedIsFinal` | `RowsAreOwned`: an open row is either new, with an id no other row has, or replaces a committed row that is `derivation_failed` and that no other transaction has locked. So no `Publish` replaces an issued row |
| `IssuedRowsAreTracked` | `IssuedIsTracked` | whoever publishes a row publishes it issued and with its tracking (`TxShape`), in the place of a failed row or of none (`RowsAreOwned`) |
| `SlotsStayDense` | `SlotsAreDense` | `SlotsAreOwned`: a fresh open row sits exactly at its policy's next index, and only one transaction at a time has one per policy. With `RowsAreOwned` this makes each commit extend the interval of slots by one or leave it |
| `RefusalsTrue` | `RefusalsAreTrue` | `IssuersAreTold`: who has issued is told so, or that a dependency failed. A cursor never goes back and a disabled policy stays so, hence a refusal that was true when given stays true |
| `ImplementsIssuance` | `IssuanceSpec` | `IssuanceInv` adds two parts: `RecordsAreKept` (a record names an issued row of the same policy and payload, which is what a replay finds) and `AddressesAreOwned` (no two rows, committed or open, have one address). A commit is then an issue of the abstract specification, an answer from the record its replay, a refusal its refusal, and every other statement a stutter |
| `ClientsHaveOwnAddresses` | `AddressesAreOwn`: an address a client was told was issued for what it asked, and told to no other client but one that repeated the request under its key | `AnswersOnRecord`: a told id is on record for the key it was asked under, or for nobody; two keys never have one id. With `AddressesAreOwned` this passes from ids to addresses, although several rows may derive to one |
| `NoDeadlock` | `NobodyWaitsInACircle`: of any requests, one waits for none of the others | `Typed /\ TxShape`, lemma `WaitsAreForward`: locks are taken in the order key, cursor, address, and each is held by a request that is further than the one that waits for it. The reopen query takes a row out of order, but skips those that are locked |

The assumptions are those of `AddressAllocation`: `ConstantsAssumption` (types of
the constants), `NullsAssumption` (null values are not rows or records) and
`InheritedAssumption` (an inherited table numbers its slots without a gap, which
the older releases also did, by the same cursor).

### 5.2 `ReceiptPollingProofs`

For any addresses, networks, amounts, pollers, scopes, endpoints, batch sizes, leases and bounds:

| Theorem | States | Argument |
|---|---|---|
| `TypeCorrect` | `TypeOK` | inductive |
| `EventsMove` | `EventsAreMoves` | `TrackingsInv`: every row, and every snapshot a cycle still holds, agrees with itself (its status with its amounts and instants), and every snapshot has a status that is polled. The snapshot has to be in the invariant, since it is what the event is made of, however stale |
| `TimelyNeverExpires` | `TimelyPaymentNeverExpires` | `TimelyInv`: a claim that has seen the window pass was taken after it had passed, so an observation that would expire the row was made when the payment, if in time, was there |
| `SnapshotsCurrent` | `SnapshotsAreCurrent` | hypothesis `MayOverrunLease = FALSE`. `LeaseInv`: each busy cycle is younger than its lease, and an address is claimed at most once. `SnapshotsAreCurrent` is not inductive without the first: a second claim would be possible |
| `ImplementsLifecycle` | `LifecycleSpec` | same hypothesis. Each `Save` of a current snapshot is one move of `ReceiptLifecycle` or none, everything else is a stutter |
| `PaidSticks` | `PaidIsSticky` | same hypothesis. The run `polling_sticky_paid` shows that the property fails without it |

The hypothesis is a property of a deployment, not of the code: nothing in the code ends a
cycle at its lease. That is why the theorems that need it say so, and why the first three
do without.

### 5.3 `WebhookDispatchProofs`

For any notifications, finite set of dispatchers, batch sizes, leases, attempts and bounds:

| Theorem | States | Argument |
|---|---|---|
| `TypeCorrect` | `TypeOK` | `AttemptsInv`: a pending row, and every claim, has fewer than `MaxAttempts` attempts; without the part on claims, the save of a cycle that overran could count beyond |
| `ResultsEarned` | `ResultsAreEarned` | `EarnedInv`: each claim knows of no more attempts than there were posts, and a cycle that is about to save a success has one |
| `OneDispatcher` | `OneDispatcherPerRow` | `LeaseInv`: before the first overrun, what a dispatcher has claimed is leased for exactly the time the cycle has left, pending, unchanged since, and claimed by no other |
| `ResultsFinal` | `ResultsAreFinal` | from `LeaseInv`: a save finds its row pending |
| `PostsBounded` | `PostsAreBounded` | with `LeaseInv` and `RolloutInv` (a replaced dispatcher knows all policies, so each is replaced once): each post that is not counted as an attempt is under way, was the successful one, or went with a death or a replacement that is counted itself |

| `TriesCounted` | `TriesAreCounted`: attempts stay or go up by one, and each saved result settles the row or counts one try more | from `LeaseInv`: what a save counts on is what the row says |

The last four are about the time before the first overrun, by the statement of the properties.

### 5.4 `PipelineProofs`

For any pollers, dispatchers, changes, attempts and amounts, from the assumptions of the modules it composes:

| Theorem | States | Argument |
|---|---|---|
| `PollersArePollers` | `Spec => Polling!Spec` | each step of the pipeline is a step of `ReceiptPolling`, or changes nothing of it |
| `DispatchersAreDispatchers` | `Spec => Dispatch!Spec` | needs `ClaimsInv` (a claim is of the one address) and `ListInv` (the outbox is a sequence): with them a save appends at most one event and so enqueues at most one notification |
| `ChangesAreToldOnce` | `CommittedTogether`: exactly the committed changes have a notification, and none other is accepted | `OutboxInv` adds `SendersInv`: what a dispatcher holds, in memory and unlocked, is a notification that is there. The outbox and the notification are written in the same transaction; if they were not, the invariant would fail (`SaveThenEnqueue` is the mutant) |
| `ChangesAreKept` | no step takes back or rewrites a committed change | from `ClaimsInv` and `ListInv` |
| `DeliveryInformsMerchant` | `HeardIsAnswered`: once the notification of the last change is delivered, the merchant holds the payment for what the status query answers | `LastIsCurrent` (the last change says what the row says) needs `SnapshotInv`: a save overwrites the row it read, as there is one claim at a time and time stands while it lasts; with a stale snapshot a change could go unpublished. `SentInv`: what is saved as sent was taken, also when other answers were lost |
| `ImplementsLifecycle` | `Spec => Polling!LifecycleSpec` | `TrackingInv` (the row agrees with itself, what is claimed may be polled) and `SnapshotInv`: each save is one move of `ReceiptLifecycle` (lemma `SaveMoves`), everything else a stutter |
| `ChangesTellTheHistory` | `ChangesAreAPath`, `EventsAreMoves`: each change starts where the one before it ended, and each is a move of the lifecycle | `PathInv` adds `PaidIsKept`: after a change to a paid status the row is paid. `LastIsCurrent` ties the end of the path to the row, without it the next change could start elsewhere |
| `MerchantMayActOnFinalNews` | `FinalNewsIsTrue`: who holds the payment for confirmed or expired is answered the same by the status query, and who heard it was paid is not answered otherwise | from `PathInv`: no change leaves a final status, so a final change that was heard is the last one |
| `NobodyIsToldTooSoon` | `ToldExpiredIsLate`: who is told that the payment expired has not held the amount since before the window ended | `ExpiryInv` goes from the chain to the row: a claim that has seen the window pass was taken after it, so what is observed under it holds any payment in time, and after the window none can become timely. `FinalNewsIsTrue` goes from the row to the merchant |
| `SilenceIsExplained` | `SilenceHasAReason`: the merchant holds the payment for what is answered, or the last notification is pending, or was posted at least `MaxAttempts` times and given up | `TriedInv`: each try a row counts, or a claim of it, was a post of its own, whatever was lost and whoever overwrote whom |

The assumptions are `PartsAssumption`, what the two modules assume of their constants, and
`MaxEventsAssumption`. The composition has one address, cycles that end within their leases and
batches of one poll.

Theorems of a module cannot be cited through `INSTANCE` when they stand in another module.
By the first two, what 5.2 and 5.3 show holds here as well, but this is read, not checked; the
parts the later theorems need are therefore proved again, of the pipeline, by invariants of its own.

### 5.5 `BitcoinReceiptProofs`

For any finite set of transactions, any amounts, conflicts between them, page size, chain
and mempool:

| Theorem | States | Argument |
|---|---|---|
| `ObserverKnows` | `ObserverInv /\ PagesInv` | what an observer knows while it reads. While no reorganisation has come (`calm`), the pages it has are true, and a mined payment that has not moved is among them or *ahead*, in what the next page starts after. A new block puts transactions before the cursor, never between it and what is ahead |
| `ReportsAreTrue` | `SteadyPaymentsAreCounted`, `ReportIsPayable` | from it, at the step that makes the report |
| `ConfirmationsAreTrue` | `DeepInv` | hypothesis `ReorgsAreShallow`, that is `MaxReorg < RequiredConfirmations`. What was listed as deep enough is *buried*: no later step moves it |
| `ReceiptObserves` | `Spec => ObserverSpec` | each step of the composition is one of the observer, of the chain, or none of either |
| `SteadyAreCounted`, `ReportsArePayable` | the same two properties of the composition | by `ReceiptObserves`, without another invariant |
| `TypeCorrect` | `TypeOK` | `CycleInv`: the cycle's one claim is the row, and what it is about to save is what was reported |
| `ConfirmedIsMined` | `ConfirmedStaysMined` | same hypothesis. `SavedInv`: a saved total is at most that of the buried payments, which only grow |
| `RestingPaymentsArePaid` | `RestingPaymentIsPaid` | the report counts the steady payments, and the status that is saved is decided from the report |

The observer's sums (`Total`, `Aggregate`) and lists (`FlattenSeq`) fold over data, and the
library's induction theorems cannot be instantiated by the provers at hand. Each fold is
therefore given a closed form (the confirmed amount is the total over the *first* entry of each
payment that lies deep and is not early; a total is a number of coins, so that disjoint
sets add up), and the set of inputs on which the two differ is shown to have no least
member, hence, by `WFMin`, none at all.

### 5.6 `EthereumReceiptProofs`

For any number of confirmations, any amount due, payment window and bounds:

| Theorem | States | Argument |
|---|---|---|
| `ConfirmedIsFinal` | `ConfirmedStays` | `ConfirmedInv`: what was reported, and the balance about to be, was read from a *buried* block, one deeper than any reorganisation reaches; lemma `BuriedStays` shows that no step of the blockchain changes such a block |
| `ReportsAreOneChain` | `ReportIsOneChain` | `OneChainInv`: the block the second balance is read from was buried when the first was read, and has not changed since. `ConfirmedStays` alone would not do: it says nothing of the chain of that moment |
| `ReceiptObserves` | `ReceiptSpec => Spec` | lemma `StepOfObserver` maps each step of the composition to a step of the observer or to none |
| `ConfirmedReceiptIsFinal`, `ReceiptIsOfOneChain` | the first two, of the composition | by `ReceiptObserves`. That the poller is real, with its claims, its cached height and its saves, does not weaken what was proved of the observer alone |
| `OnlySweepsUnpayReceipts` | `OnlySweepsUnpay` | `CycleInv` (the cycle's one claim is the row) and `UnpayInv`: while nothing was swept or reorganised, balances only grow, so the block read holds what a paid row was paid with; and when the claim has seen the window pass, that block holds a payment that came in time |

The assumption that matters is `MaxReorg < RequiredConfirmations`, which is what a number
of required confirmations means. The default for mainnet is one confirmation: with it the
theorems say nothing of a chain that replaces even its last block. What the assumption
buys is then the operator's choice, not the code's. The Bitcoin module makes the same
assumption a hypothesis of the two theorems that need it.

### 5.7 `CloudflareWorkerProofs`

For any jobs, clients, numbers of calls and faults:

| Theorem | States | Argument |
|---|---|---|
| `TypeCorrect` | `TypeOK` | inductive; it contains that a job has a client exactly while it is in a transaction |
| `ClientsApart` | `ClientsAreApart` | with `ContextsInv` (a job that is under way has its bridge): a client that is released goes to the pool or to one waiting job, never to both |
| `BridgeScoped` | `BridgeIsScoped`, as `Spec /\ []DispatchersApart => []BridgeIsScoped` | `BridgeInv`: while a dispatcher run is under way the post function is there. `DispatchersApart` says that no two such runs overlap; where they do, the property fails (`worker_overlap`) |
| `NoDeadlock` | `SomeTransactionGoesOn`: whenever a job waits for a client or for the row, one that is in a transaction does not | `LockInv`: who holds the row is past asking for it. Who holds a client asks for no other, so those who wait for one depend on jobs that can go on |

### 5.8 `Create2SweepProofs`

For any rows, factories, init codes, collectors, assets and operators,
from the types of the constants and null values that are not rows or scripts:

| Theorem | States | Argument |
|---|---|---|
| `TypeCorrect` | `TypeOK` | `TypeInv` adds what a script and a broadcast sweep say of their rows (`ScriptsMatch`, `SweepsMatch`: issued, of one factory and one asset). It stays true because an issued row keeps its material; without it a sweep could deploy receivers of rows that are not issued |
| `AddressesCanBeEmptied` | `PaymentsAreRecoverable` | `RunningIsReady`: each build that serves found its factory ready, and deployed code stays. So an address is issued under a factory that is there |
| `SweepsAreComplete` | `SuccessMeansSwept` | from the two above: each row of a sweep is a receiver of the factory it was sent to, and that factory is there |
| `PaymentsAreConserved` | `NothingIsLost` | with `NothingUnissued` (a row that is not issued has no money) inductive: payments add the same to both sides, sweeps move what is held to the recorded collector |

### 5.9 What is only model-checked

Liveness: `EveryRequestIsAnswered`, `EveryNotificationSettles`, `WindowEndsWatching`,
`ConfirmedPaymentIsRecognised`, `PaidIsConfirmedInTheEnd`, `UnsweptPaymentIsConfirmed`,
`MerchantLearnsTheOutcome`, `EveryJobEnds`. TLAPS does not reason about fairness and
`ENABLED`. The safety these rest on is in the theorems above: that nobody waits in a circle for a lock
(5.1) or for a client (5.7), that each saved result brings a notification nearer to its end
(5.3), that a notification is there for the last change, informs the merchant when it is
delivered, and is given up only after all its attempts (5.4), that a deadline
is not missed by a late look (5.2), that a steady payment is counted (5.5).

No module has a RECURSIVE operator; folds are used in its place.

## 6. Where code and documents disagree

1. **A paid receipt can be un-paid** (`polling_sticky_paid`). The specification
   of the sticky paid status says a receipt with `PaidAt` "must never re-enter
   unpaid statuses". A cycle that outlives its lease saves its unpaid snapshot over
   the row that another cycle has meanwhile saved as paid. The same cause
   lets an expired row be polled again and lets the outbox miss a change. It
   happens only when a batch takes longer than its lease.
2. **A failed derivation is not persisted** (`allocation_failure_persisted`). The
   specification says that a failure persists `derivation_failed` and its reason.
   The code writes both and returns an error to the transaction, which rolls
   them back. No slot is burnt either way (`SlotsAreDense`), but nothing can be reopened.
3. **The post function outlives no overlap** (`worker_overlap`). A requirement says
   that a bridge stays scoped to the runtime path that is executed. The post function
   is one global: of two dispatcher runs that overlap in one isolate, the first to
   end deletes it under the other, whose next post ends the Go program.

Limits that no document denies, each of them a behaviour of a run above:

- A Bitcoin transaction mined between the listing of the chain and that of the mempool is
  in neither and is missed for one poll. If that poll is the last look before the window
  ends, the receipt expires; if the receipt was paid, it is called reverted until the next
  poll. `RestingPaymentIsPaid` says that only payments that move while they are observed
  can fare so.
- A mempool payment whose block is stamped before the address was issued stops counting.
- A sweep within the confirmations makes the observer refuse (the confirmed balance exceeds
  the present one) or see nothing. A payment that was never seen may then expire, one that
  was seen is reverted, and a reverted receipt is polled for ever. `OnlySweepsUnpay` says
  that nothing but a sweep or a reorganisation does this.
- "Pool exhausted" may be told while a slot that could be reopened is locked by a request
  that rolls back later: `SKIP LOCKED` passes it by. `RefusalsAreTrue` is therefore about slots
  that were never reserved.
- A Go program that fails to start fails every later job of its isolate,
  as the rejected promise is kept.
- At shutdown `RunAPI` returns, and closes its database, as soon as `Shutdown` has begun
  (`ListenAndServe` does not wait for it), under requests in flight. For those it is a
  failing statement or a commit nobody hears of (`StatementFails`, `CommitUnheard`).

## 7. Not modelled

- HTTP envelopes and the list of policies: they convert. The status query is in the
  models as what it finds (`FindStatus`) and says (`StatusAnswer`), the controller's mapping of
  errors as `StatusCode`.
- Address derivation: pure cryptography, of which the models need only that it is a
  function of its inputs.
- The Cloudflare PostgreSQL stores are the same statements as the PostgreSQL stores, so
  the modules stand for both; their scanning of rows is left out. `CloudflareWorker` and
  `CommitUnheard` add what differs, the bridge and the unit of work.
- Configuration, bootstrap: wiring, but for the conditions on numbers that the modules
  assume (`PollerConfig`, `ReceiptTerms`, `DispatcherConfig`, `ConfirmationTerms`). That a restart
  may disable a policy is `DisablePolicy`.
- Error paths that answer a request or fail a poll as a modelled one does, and change nothing
  else, are folded into it: in `AddressAllocation` the 404 of a replay whose policy is no longer
  configured and the 404 and 400 of `Plan` (a refusal before any statement is written), and the
  second read of a replay (its failure is `StatementFails`); in `BitcoinObservation` a missing
  block time (`GiveUp`). A height that is not to be had is `TipFails` of `ReceiptPolling`, where
  several addresses share one, so that `FetchTip` and the Ethereum `FetchTip` succeed.
- Checks of other services' answers: the stop at an empty or repeated last txid of a page, the cap
  of Esplora's mempool listing, the token contract check of the readiness checker. The Ethereum
  requests an API job makes for readiness are not steps of `CloudflareWorker`, where they would
  hold no client.
- How long a row has been due: polling orders by `next_poll_at`, the model claims any due rows, and
  liveness is checked with one. That many rows do not starve one is not shown.
- Migrations and webhook mocks: not part of the running service.
- In the modelled parts: wording, logging, payload layout and signatures; widths of
  integers (amounts are checked by the code where it adds and subtracts);
  `maxSlotIndex` is `MaxSlot`, the id sequence ends at `MaxId`; rounding of times.
- Not composed: `Create2Sweep` with `EthereumReceipt`, which would add the batches of a sweep
  to what a single lower balance already does to a receipt; several addresses or pollers with
  the observers' requests, whose interactions are those of `ReceiptPolling`.

## 8. Plan

Every safety property that a run checks is proved. What is left: a sweep of several receipts,
that is `Create2Sweep` joined to `EthereumReceipt`.
