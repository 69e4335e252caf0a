# Verification of quant-platform

TLA+ models of quant-platform, the TLC runs that check them on small instances and
TLAPS proofs for every value of the constants. The models cover the protocol parts of
the platform: the hard research budget and the AI gateway that spends it, the operator
that migrates production D1, the local mirror of D1, the publication of READY
snapshots, the container job of the Controlled Pilot, and the coverage ledger.

## 1. Inventory

quant-platform is three Python layers (`packages/data_plane`, `research_runtime`,
`product`), operator scripts (`scripts`) and eight Cloudflare workers
(`platform/workers`). Data flows from the ingestion workers through D1/R2 into a local
mirror, signed receipts and READY snapshots; research runs on snapshots only, through
a personal DRAFT route, the Controlled Pilot (exactly four plans) and a Mass route that
is disabled.

| Component | State | Operations | What is hard | What makes it correct |
|---|---|---|---|---|
| **Budget ledger** (`research-ai-gateway/src/budget_do.ts`, `budget_http.ts`) | one stored value: counters, reservations, leases, tombstones, quarantine, freeze, audit; one alarm | create, reserve, mark started, settle, finalize, paper finalize, heartbeat, cancel, release, recover, alarm | concurrent callers, expiry against late answers, one-shot secrets, bounded maps, validation on load | caps and slots never exceeded, counters equal their sums, settled once, a started run is settled without a caller, what is stored loads |
| **Gateway handler** (`index.ts`) | local to an invocation | `/v1/complete`: reserve, mark, call Workers AI, finalize or settle, cancel | lost and delayed RPCs, retries, eviction, duplicate keys | one provider call per key, every call covered by a durable marker, served answers charged exactly |
| **JSDA v3 cutover** (`scripts/activate_jsda_v3_cutover.py`, `apply_ingestion_d1_migrations.py`) | D1 lease, run and control rows; intent and receipt files; Cron and Queue | activate, resume, prepare, repair | operator killed anywhere, its child outliving it, lease expiry, main moving, work arriving while stopping | schema changes only under the fence and in quiet; the Cron and Queue found are restored |
| **D1 to SQLite sync** (`scripts/sync_d1_to_sqlite.py`) | mirror tables, applied cursor, audit rows, signing key | full, incremental, file and table syncs; open and consume a handle | many small commits, crashes, overlapping processes, stale exports | what is signed or handed out is exactly one export; the cursor never runs ahead of the facts |
| **READY publication** (`paper_runtime/snapshot*.py`, `pit/ready_evidence.py`) | staging rows, four files per build, pointer | publish, withdraw, describe, list, latest | ingestion moves staging during an attempt, a failure or crash at any write, racing publishers | a reader gets a published, whole and newest snapshot |
| **Controlled Pilot container job** (`container/personal_research_service.py`, `job_process_supervisor.py`) | lease document in R2, process group, timers | submit, claim, stage, beat, expire, cancel, publish, retry | lost replies, takeover, deadline and cancel against completion, unkillable process | one terminal, of a stopped process; COMPLETED is clean; a survivor finishes |
| **Coverage ledger** (`storage/coverage_ledger*.py`, `coverage_transition.py`) | receipts, month segments, aggregate rows, tombstones | plan, record, refresh, sync, restore, request and apply a transition | order of receipts, dates and deployments; documents that outlive what they bind | COMPLETE is only signed for and only over covered days |
| Controlled Pilot route (`research-mass-eval/src/controlled_pilot.ts`) | create-only R2 objects of a job, paper reservation | submit, run, resume, expire | resume after any prefix of the steps, expiry against completion | at most one verified terminal |
| JSDA queue ingestion (`ingestion-jsda/src`) | D1 job and closure rows, queue, dead letters | register, enqueue, claim, discover, continue, close ancestors | at-least-once delivery, sibling races | no lost or doubly completed job |
| Premium ingestion ticks (`ingestion-premium/src`) | R2 control object with lease | cron ticks | overlapping ticks, compare-and-swap | one tick commits per etag |
| Receipt evidence authority (`authority_do.ts`), activation observer | keys, receipts, event chain | register, activate, issue | restart, replay | a receipt is issued once per request |
| Exact-four claims, PIT reads, Quant Ops MCP, secrets worker | claim files, reads, quota, cursor | | little concurrency | |
| Backtest engine, features, strategies, personal research, histories, exports, contracts, CI | none of protocol interest | | floating point, rendering | |

Modelled components are in bold. How they interact: the gateway calls the budget ledger
by RPC and the ledger never calls back. The sync brings D1 into the mirror; the
coverage ledger and the READY engine work on that mirror; a READY build has its
coverage transition consumed while it is VALIDATING; research containers read the
published snapshots. The cutover changes the schema of the D1 that the sync exports.

## 2. Plan

1. Done: `BudgetLedger`, `RunLifecycle`, `Gateway`, their runs and proofs.
2. Done: `MutationLease` and `JsdaCutover`, `D1Sync`, `ReadyPublication`,
   `ControlledJob`, `CoverageLedger` and their runs.
3. Done: every invariant and every safety action property that a passing run checks is
   a theorem (section 5), and so is the refinement of `RunLifecycle`.
4. Next to prove: the mutation lease as an abstract mutual exclusion that `JsdaCutover`
   implements.
5. Next to model: the Controlled Pilot route over the paper operations of
   `BudgetLedger`, the JSDA queue, the Premium ticks, the receipt authority.

## 3. Modules

| Module | Contents |
|---|---|
| `BudgetLedger`, `RunLifecycle`, `FiniteSums` | the ledger; what it promises about one run; finite sums without recursion |
| `Gateway` | the handler's invocations, the RPC network and the paper RPCs, EXTENDS `BudgetLedger` |
| `MutationLease` | the D1 compare-and-swap lease, as operators on one lease row |
| `JsdaCutover` | the cutover operator, EXTENDS `MutationLease` |
| `D1Sync` | sync processes, audits, handles |
| `ReadyPublication` | publishers, their handler, and readers |
| `ControlledJob` | containers over one lease document |
| `CoverageLedger` | receipts, segments, aggregates, transitions |
| `MC*` | constants and symmetry sets for TLC |
| `BudgetLedgerProofs`, `GatewayProofs`, `JsdaCutoverProofs`, `D1SyncProofs`, `ReadyPublicationProofs`, `ControlledJobProofs`, `CoverageLedgerProofs` | theorems about the module of that name |
| `FiniteSumsProofs` | lemmas on sums, and least and greatest elements |

### BudgetLedger against the code

`ledger` is the stored `LedgerState`, `alarm` the Durable Object alarm, `now` the
clock. Every operation of `budget_do.ts` loads the ledger, runs `recoverExpired`,
applies its own transition and saves; `runAtomic` makes that one transaction. The
model follows this shape: a *verdict* operator lists the early returns in the code's
order, a *transition* operator of the function's name maps the opened ledger to the
stored one, and an action `Commit`s it. `Commit` needs `Loads` (`coerceState`) of the
old value and `FitsCommitLimit` (`saveState`) of the new one; otherwise the operation
throws (`Throw`) and nothing changes. A refused call still commits the recovery, as
the code does.

Abstractions, beyond formatting and field parsing:

- A reservation and its lease are created together with two fresh UUIDs; one element
  of `LeaseId`, a *run*, names both. The settlement secret is derived from the run that
  `markProviderStarted` read under the key before its transaction (`seen`, any run or
  none), and its hash is stored with the run the transaction finds; `hash` names the run
  the secret stands for. A caller that presents a lease id is taken to hold the secret of
  that run, and `l = Null` is a caller without one.
- The owner hash binds capability, key and digest; it matches exactly when all three
  do. The conflict branch of `persistOwnerCancellationTombstone` needs a hash collision
  and does not arise.
- Amounts are naturals in micro-dollars and units. `ReserveAmounts` and `Usage` are what
  `parseAmounts` and `parseActualUsage` let through; `usage = Null` is a report that is
  refused.
- The serialized size is counted in entries (`StateUnits`).
- `ClockLag` is how old a cancel's clock reading may be when it commits:
  `cancelPreProviderReservation` reads `Date.now()` before it awaits the owner hash. The
  other operations also read it on arrival, but they name a lease that was acquired before,
  or acquire their own, so that their readings are taken as current. The runs use 1,
  except `paper_reload`, where a late reading would be a second way to the same violation.
- `MaxTime` bounds the clock, and with it how far a lease can be extended.

### Gateway against the code

An invocation is a program counter over the awaits of `handleGatewayRequest`, with the
lease it was given, what the provider used, and what it reported. An RPC either runs
and is answered, or fails ambiguously (`Lost`) and is gone or stays in flight: it may run
later, in any order, or never. At most `MaxInflight` calls are delayed at one time. A
delayed cancel carries the time it was sent at, and may have read the clock at any time
since. `Crash` ends an invocation anywhere. The provider call may use any amount of
`Usage`, and reports it or not.

`ControlledPaper` is the other client of the same ledger: the paper RPCs of
`GatewayService` (reserve, finalize, heartbeat, cancel) keep no state of their own, so
each is one call of the ledger with the fixed amounts and the capability derived from key
and digest, `PaperOwner`. They may come at any time, in any order, under any key.

### JsdaCutover against the code

One operator process at a time (the scripts are run by hand; a second attempt follows
a first that returned, raised or was killed) works through the steps of `activate`,
`_execute_staging_schema_prep` or `_continue`; `cli.pc` is the next remote or file
effect. `Exit` is a kill, or an exception with nothing to clean up: files and remote
state stay, the Wrangler child, `flight`, may go on.
`Raise` is a failed check or request, with the handler's own steps. `lease` is the D1
row, `runPhase` and `control` the two cutover rows, `surface` Cron and Queue pause,
`work` the JSDA jobs, `intent` and `receipt` the files, `found` (history) the surface
before the first attempt. Migrations are counted. The CLI passes its own runner
(`subprocess.run` with a timeout), so the polling branch of `_run_apply_process`, which
has no caller, is not modelled. The deploy also installs the schedules of the deployed
configuration: `wrangler.toml` (109-111) declares the Cron for production, so `Deploy`
turns it on there, and `wrangler.staging.toml` declares none. TLC checks staging only (the
instance with both environments passes 13 million states without ending); the theorems
cover both. The Worker (`ingestion-jsda/src/worker.ts`) is an environment that enqueues
and ends jobs whenever Cron and Queue let it, more freely than its code, which also asks
for an active cutover. Two operators running at once are not modelled either:
the files are local to one operator's machine, and the lease is what is checked against
a rival that comes later.

### D1Sync against the code

Each commit of `_run_private_export_sync` is a step. The tables that follow the change
log are one `feed`, every other governed table one `side`. The mirror is opened by
consumers under `BEGIN IMMEDIATE`, so no process commits while a `handle` is out. The
signing authority of production is not provisioned; the model has one that seals what
it is given. The seal dates the audit before the transaction that stores it (`Seal`, then
`Complete`), so two runs may store in the other order than they were sealed. Issue times
are distinct. A reset that raises is not rolled back: the deletes made so far are
committed with the FAILED row (`ResetFails`). `disturbed` (history) says that two runs
overlapped or that a reset broke off between two tables. An incremental run finds its own
`APPLYING` row at the signature (`_mark_authenticated_export_complete`, line 1222) and
takes it for a collision, so it is signed only when it repeats a signed export; the
model does the same (`Persists`, `SignedAlready`).

### ReadyPublication against the code

Each file or staging write of `_snapshot_candidate_engine` and of its handler is a
step; a build's uuid is part of its manifest, so a build names its four files. Staging
is one generation number that `Ingest` advances. The gate and the attestation builder
succeed or refuse. Readers follow pointer, description and strict listing as separate
reads, one listed marker at a time. The manifest's `change_seq` is read at the gate, the
watermarks after it, the copy last: the engine and the reader compare copy and
watermarks, and nobody compares either with `change_seq`, by which readers order
publications. So a copy may be newer than its `change_seq`; `ReturnedPublished` says that
it is never older. A builder that raises may have written its signed sidecar already,
whose path the handler does not know: it is then left behind, as in the code.

### ControlledJob against the code

Every read and conditional write of a `JobManager` is a step; the main thread, the
heartbeat timer, the deadline timer and the recovery timer of a container interleave.
An etag is the content it stands for. A request may fail before or after it took
effect. A read that fails looks like an absent document without an etag (`NoEtag`); a
read that is refused (400, 403) raises, and the recovery handler's re-arm, which reads
again, may raise too and end the recovery (`Raise`). The fencing headers of a terminal
write are captured before it (`fence`), so that a heartbeat in between makes it fail; a
write denied with 400, 403 or 413 ends the publication, any other failure is retried. The
process group may be impossible to confirm dead (`LivenessUnknown`); the supervisor's own
wait is abstracted to its outcomes (alive, result, error, unknown), so a mistake inside it
is out of the model. After a submit that raised, the model does not tell a recovery timer
already pending from a new one. All containers share one clock; a claim that expires
although its container attends to it counts as a fault.

### CoverageLedger against the code

Days are numbered, a month has `MonthDays` of them; `Required(t)` is the plan up to
day t. A refresh, a sync and an apply are one transaction each, as in the code; the
restore script is three. The refresh script takes any `--today`, past or future. The
restore takes any `--policy-version` up to the current one and, since it picks the newest
receipt by `checked_at`, which is independent of the rank a refresh uses, any recorded
receipt its checks let through; under an old policy it seals a row that nobody reads. A
receipt's run is its rank among trusted receipts, and runs may be recorded in any order.
The validation checks before a refresh pass or fail freely. Rewriting a row changes
`evaluated_at`, which documents bind, so documents on it die. An apply also compares the
digest of the governed database file (`coverage_transition.py:1504-1510`); the model
leaves that out and so lets more documents through. A build is VALIDATING between
`StartBuild` and `EndBuild`, which may come at any time.

## 4. Runs

| Run | Instance | Properties | Result |
|---|---|---|---|
| `ledger_accounting` | 2 keys, 2 slots, cap 3 calls, reservations of 1 or 2, usage 1 or 2, clock lag 1 | `TypeOK`, `UnreadableOnlyByPaperOrLateCancel`, `SpendWithinCaps`, `StartedRunSettleable`, `SettledOnce`, `ImplementsLifecycle` | hold, 49 117 states |
| `ledger_cancellation` | 1 key, 2 owners, 2 digests, 3 runs, paper amounts, room for 1 tombstone, clock lag 1 | `OccupancyClosed`, `EveryLeaseHeld`, `CancelledOwnerHoldsNothing` | hold, 9 195 states |
| `gateway_safety` | 2 invocations with the same key and digest, paper RPCs, 2 runs, 2 delayed calls | `GTypeOK`, `OneCallPerKey`, `CallIsCovered`, `ServedIsExact` | hold, 305 018 states |
| `gateway_liveness` | 1 invocation, paper RPCs on 2 keys, 2 runs, 1 slot, lease of 1 tick, fair alarm and clock | `AbandonedIsClosed`, `StartedIsSettled`, `ParallelBound` | hold, 23 871 states |
| `paper_reload` | 1 key, paper reservation | `LedgerLoads` | **violated** |
| `late_cancel` | 1 invocation, no paper budget, clock lag 1 | `LedgerLoads` | **violated** |
| `cutover` | staging, 2 commits, 2 owners, 2 migrations, 2 receipts | `TypeOK`, `ApplyIsFenced`, `PriorNotLost`, `ActivationHolds`, `MigratesQuiesced`, `RestoresFound` | hold, 866 927 states |
| `cutover_restore` | the same | `ExactRestore` | **violated** |
| `sync` | 2 processes, 2 runs, 2 changes (one a marker), 1 side row, 1 file export, 2 audits, 2 keys | `TypeOK`, `CursorCovers`, `HandleExact`, `SignedMatchesMirror`, `SigningNeverRollsBack` | hold, 727 151 states |
| `publication` | 2 publishers, 2 builds, 2 generations, 1 reader, writes of the second build may fail | `TypeOK`, `ReturnedPublished`, `ReadyAgrees`, `ReturnedNewest` | hold, 3 335 486 states |
| `controlled_job` | 2 containers, 1 fault, 1 beat, 2 attempts | `TypeOK`, `TerminalIsQuiescent`, `CompletedIsClean`, `SurvivesFaults` | hold, 568 214 states |
| `coverage` | 1 dataset, 1 month of 2 days, 2 runs, 2 verdicts, 2 policies, 2 builds | `TypeOK`, `CompleteIsSigned`, `PromotedIsCovered`, `RetainedIsCovered` | hold, 1 537 547 states |

Why the bounds are enough for the questions:

- *Ledger*: two keys compete for a cap and a slot; three calls are exhausted by
  reservations of two and one and exceeded by an overrun; one tombstone makes the map
  full at the second cancellation; a lease of one tick expires between any two steps; a
  clock lag of one tick is a reading older than another operation's commit.
- *Gateway*: two invocations of one key are a request and its client's retry; two delayed
  calls are a reserve and the cancel that overtakes it. In the liveness run one tick of
  the clock is the whole term of a lease, and the second key lets a paper run compete for
  the only slot.
- *Cutover*: two commits make an abandoned attempt and its successor; two owners a lease
  holder and a rival; two migrations a half-applied chain; two receipts a resumed and a
  new run.
- *Sync*: two runs overlap or follow each other, two audits compete for being the
  latest, the last change being a marker makes the cursor differ from the newest fact.
- *Publication*: one build is overtaken by the other at every step. The run also holds
  with the failing writes in the first build instead of the second (3 356 891 states).
- *Controlled job*: one fault (crash, lost request or reply, failed or refused read,
  denied write, stall, unkillable group) and a second container are a failure and its takeover.
- *Coverage*: the month is open on day 1 and closed on day 2, so that a COMPLETE of
  yesterday's end meets today's; two runs give a better and a worse receipt. It was also
  run with a second month (`MaxDay` 3, one run, one policy; 366 705 states).

Symmetry is used only in runs without liveness. Deadlock is not checked where the
system may stop: an operator that is done, syncs and builds used up, a stored terminal.

The mutants in `PROJECT.json` replace one mapped definition by a plausible mistake (an
off-by-one, a cursor committed before its page, a signature that trusts an unread hash,
a fence not set); each makes its property fail.

### What the violated runs show

- **`paper_reload`**: `finalizeOwnedPaperReservation` stores a settlement that
  `requirePersistedSettlement` rejects: source `legacy_unattributed` with
  `actual_cost_usd` 0, where the loader requires null. From then on every operation,
  the alarm and the constructor throw. The unit test ends at the finalize and does not
  load again.
- **`late_cancel`**: a reserve and the cancel of the same invocation are both delayed.
  `cancelPreProviderReservation` reads the clock (`budget_do.ts:2736`) and awaits the hash
  of its owner capability; meanwhile the reserve commits, with a lease acquired later than
  that reading; the cancel then stores `released_at < acquired_at`, which
  `requirePersistedLease` (952) rejects. Again every later operation throws. One
  millisecond between the two readings is enough. The run leaves no paper budget, so that
  the first cause does not get in the way. `UnreadableOnlyByPaperOrLateCancel` holds and
  is proved: there is no third way.
- **`cutover_restore`**: the file that records the Cron and Queue found is named after
  the attempt's commit. An attempt dies after stopping the Cron, main moves, and the
  next commit's attempt captures the stopped Cron as the prior state: it activates and
  leaves the Cron off, where the runbook promises the exact prior state. `PriorNotLost`
  shows that the old intent still records it; `RestoresFound` shows that the promise
  holds when no such intent is left behind.

### What the hazards without a property record

Found while modelling and described in `PROJECT.json`: a ledger at its size limit that
cannot store its own recovery; overlapping syncs that move the applied cursor back, and a
broken-off reset that leaves it over emptied tables (contents are compared before
anything is signed, so nothing wrong is signed); a failed check that replaces a signed audit row;
an expired or invalid marker that makes the strict listing refuse every publication.

### Fairness

`GFairSpec` assumes weak fairness of the ledger's alarm and of the clock, nothing else.
Durable Object alarms are delivered at least once and retried when
the handler throws, and the code writes the alarm in the same transaction as the
ledger. `AbandonedIsClosed` and `StartedIsSettled` end with the alternative that the
stored ledger no longer loads, since then the alarm throws for ever. No caller, invocation or RPC is fair. A lease can be extended by heartbeats only
until `MaxTime`; the code sets no limit of its own.

`FairSpec` of `ControlledJob` assumes weak fairness of a live container's threads and
timers, of the end of a killed process group (unless its liveness is unknown) and of the
lease's expiry. Nobody has to submit or cancel, and a child need not end by itself: the
deadline timer stops it.

## 5. Proofs

The theorems hold for every value of the constants that satisfies the named assumptions
of the modules: any number of keys, runs, invocations, commits, receipts, processes,
publishers, containers, datasets and days. The bounds of the runs (`MaxReceipt`,
`MaxTime`, ...) are arbitrary numbers there. The assumptions are finiteness, positive
limits, and that tags are distinct: `Null` is no value, record or error code of the
ledger (`NullAssumption`, `NullIsNoRecord`), and a commit, 40 hex digits, is none of the
status words (`CutoverAssumption`). `JobAssumption` asks for at least two attempts at
the terminal, since the first may meet the container's own heartbeat in flight, and then
the bound on tokens in `TypeOK` would not hold; the code has twelve.

Each component has a type invariant that says more than `TypeOK` (which files a program
counter implies, who owns a build, that receipts are numbered in order), proved
inductive once; the invariants below are proved on top of it, one lemma per action or
per group of actions that changes the same variables. Every inductive invariant was
first checked by TLC on the instance of its run.

### Ledger

*Factoring.* `BudgetLedgerProofs` first shows that every action of `Next` is a clock step
or a `Commit` of two ledger transitions: the opening recovery, then at most one of
admitting a run, marking one, closing one (a cancellation among them), or touching none
of the accounting (`Admits`, `Marks`, `ClosesOne`, `Touches`). What remains to be shown
of an invariant is that these few transitions preserve it.

- `TypeCorrect`: `Spec => []TypeOK`.
- `AccountingSafe`: the inductive invariant `Safe`. `OccupancyClosed` is not inductive on
  its own, since closing a run subtracts its amounts from a counter clamped at zero and
  closes the lease its reservation names; it needs that every open lease belongs to the
  open reservation naming it. The parallel limit needs the same to know that recovery
  only closes leases. The cap needs the exact sums: a settlement moves at most the
  reserved amount from `reserved` to `used`, unless it is audited as an overrun.
  So `Safe` is: exact counters, legal life cycles, held leases, the parallel limit, and
  the caps. Its consequences are `OccupancyTheorem`, `LeaseTheorem`, `ParallelTheorem`
  and `HardBudgetTheorem`.
- `SettledOnceTheorem`: the action property, from the same factoring and `Safe`.
- `CapabilitiesSafe`: the invariant `Capable` (a started open run keeps its unspent secret,
  hashed over itself; no
  tombstone's invocation holds an open reservation), with the consequences
  `StartedSettleableTheorem` and `CancelledOwnerTheorem`. The second rests on `reserve`
  looking for the tombstone in the ledger that the recovery has already opened.
- `LifecycleTheorem`: the ledger implements `RunLifecycle`. Each of the transitions above
  is shown to end some runs and to move at most one other (`Ending`, `StepMoves`), and
  the recovery and the operation to compose to one step of the abstract specification or a
  stutter: ended runs are final, no run is admitted or started on a frozen ledger, and
  `Safe` bounds the runs in progress.
- `LoadsTheorem`: `UnreadableOnlyByPaperOrLateCancel`, for any clock lag and any amounts.
  What `coerceState` asks is split into what `Safe` says (counters, life cycles), the
  commit limit (size), and `Orderly`: every settlement loads or is a paper run's, every
  lease was acquired by now and before it expires, and the tombstones are within their
  bound. A lease's end may then be wrong in one way only, by lying before its start.
- `FiniteSumsProofs`: the sum over a finite set changes by the difference when one entry
  changes, is monotone, and splits into disjoint parts, from the library's cardinality
  theorems without induction; a set of naturals has a least element, a bounded one a
  greatest.

### Gateway

- `GatewayTypeCorrect`, and `GatewayHardBudget` from the ledger's theorem, since the
  gateway and the paper RPCs change the ledger by its operations only.
- `GatewayCallsSafe`: the inductive invariant `CallInv`, from which `GatewayOneCall`,
  `GatewayCallCovered` and `GatewayServedExact` follow. None of the three is inductive: an
  invocation between its marker and its call must already be the only one that can call,
  although the answer of the marker may have been lost and the run may have expired
  meanwhile. `CallInv` says what each program point relies on in the ledger (`Relies`: the
  reservation still names its run, is its own, started and not given back, and if it was
  settled, then as uncertain or at the bill), that a delayed finalize carries the bill of its own call (`Reported`),
  and that every reservation has an owner. `Evolves` lists how one ledger step may change
  one reservation; every `Relies` survives it.

### Cutover

- `CutoverTypeOK`.
- `CutoverApplyIsFenced` (`FenceInv`): between its check of the lease and the start of its
  process, and after that process returned, a command that may move the lease meets a
  schema that nobody migrates.
- `CutoverActivationHolds` (`ControlInv`): the control row exists once a migration is
  applied, and a run row past its migrations (`Bridged`) and the steps of an activation
  are only reached with the chain complete.
- `CutoverMigratesQuiesced` (`StillInv`, over the two above): whatever applies migrations,
  also an orphaned child, does so over a stopped Cron, a paused Queue and no job.
- `CutoverPriorNotLost` (`PriorInv`): an owner token names one intent, whose surface its
  receipts copy; once something is on file, what was found is.
- `CutoverRestoresFound` (`FoundInv`): in an environment that is attested and where no
  run was activated, every recorded surface is the one found, or belongs to a later commit
  than an intent still on file; with nothing on file the live surface is the one found.
  The argument needs that an intent goes only after its run was activated or after its
  surface was restored without a failure, that the incident repair works on unattested
  environments only, that only a preparation, which is staging's, takes its intent away
  before an activation (`OnFile`), so that the production deploy, which installs the
  Cron, always has a record of what was found to restore, and that main moves once in the model (`Merge`), so that what is on
  file is of the first commit or of the present one.

### Sync, publication, job, coverage

- `SyncHandleExact`, `SyncSignedMatchesMirror`, `SyncSigningNeverRollsBack`: audits are
  stored of the export the mirror holds at that moment (`AuditsMove`), each with an issue
  time that is no other audit's and no other pending seal's (`SealsOwn`).
  `SyncCursorCovers` (`CursorInv`): while nothing was `disturbed` there is one run, and
  what it passed is in the mirror. The reader's scan over the audits is a
  recursive function; what it returns (the newest audit of the active key) is proved by
  least counterexample over the table of its states, not by an induction scheme.
- `PublicationReadyAgrees` (`ReadyInv`), `PublicationReturnedPublished` (`ReturnedInv`: a
  marker stands over a row that is READY and whose attempt is over, or that an attempt
  with a failing write takes back, and so does what a reader who found it holds;
  `OrderInv`: a `change_seq` was read before the watermarks of its build) and `PublicationReturnedNewest` (`ListedInv`: what a reader found published when
  it began is in its listing as long as it is published). The types already need that a
  build belongs to one attempt and that commit times count the copies.
- `JobTypeOK`, `JobTerminalIsQuiescent`, `JobCompletedIsClean` and `JobTerminalIsFinal`
  (a stored terminal never changes) from one invariant, `JobInv`: no token or etag is
  ahead of the document, the current token is its owner's alone, an etag read for a
  takeover that still matches is that of a document still free to take, and the fence of
  a repeated terminal write is the etag that was read again before it.
- `CompleteSigned`: without assumptions. The invariant is strengthened by the shape of the
  stored rows (a status rewrite keeps the row's policy) and by the fact that a running
  restore is about a dataset. One lemma per kind of writer: what a refresh stores is
  COMPLETE only if the old row was, under the current policy (`RefreshKeeps`); a sync
  keeps the policy (`SyncKeeps`); an apply adds the tombstone of the policy that its rows
  carry (`ApplyKeeps`).
- `CoverageTypeOK`, `CoveragePromotedIsCovered` and `CoverageRetainedIsCovered`: under
  `CoverageAssumption`, from lemmas on the calendar (the days and months of a range) and
  on what a refresh reads from the segments.

*Only model-checked*: liveness (`StartedIsSettled`, `AbandonedIsClosed`,
`SurvivesFaults`), which the prover cannot treat. The two properties of the violated runs,
`LedgerLoads` and `ExactRestore`, are false.

## 6. Not modelled

- *Inside the modelled parts*: request schemas, token counting, pricing, authentication,
  HTTP statuses and texts; signature formats and key files (a signature is valid or not);
  SQL text; the export poll; coverage inventories that are not calendar months; the
  personal job kinds of the container. Storage transactions are taken to be serializable,
  and a file replaced with `os.replace` to appear at once.
- *Protocol code still open*: the Controlled Pilot route, the JSDA queue, the Premium
  ticks, the receipt authority, exact-four claims (section 2).
- *Out of reach or without protocol state*: most of the repository's Python, about nine
  lines in ten, is numeric research (features, overlays, backtests), normalisation of
  provider data, rendering of reports and projections, declarative contracts and their
  validation. It is sequential, mostly stateless and floating-point; a model would be a
  transliteration. The mapped definitions stand for about 8 700 lines of Python, between
  five and six per cent of it, and for the TypeScript of the ledger and the gateway.
