# ETS: a TLA+ verification of the evidence path

ETS (Evidence Transparency Service) captures evidence events at Gateways and
Edges, stores them in an append-only log, commits the log to a Merkle tree,
signs tree heads, and lets anybody verify offline or online that an event is in
the log and that the log has only grown. This directory models the path of an
event from its source to the verifier's verdict, and the parts that decide who
may contribute evidence and what is retained of it: the connector runtime, Fleet
enrollment, the Ranger custody registry and the Black Box recorder; and, on the
vehicle itself, the authority that lets a Ranger move. TLC checks the models, and
TLAPS proves the main invariants.

## 1. Inventory of the system

Paths are relative to the repository. "Hard" names what a test hardly reaches.

| Part | State it keeps | Operations | Hard |
|---|---|---|---|
| Event store contract, `ets/core/log.py`, `storage.py` | the log | append, get_by_index, get_by_event_id, list_entries | what an append means when its answer is lost |
| Azure table store, `ets/core/azure_table_store.py` | metadata row with ETag, entry rows, event-index rows | open, append with bounded retries, lookups, listing | many processes, optimistic concurrency, lost answers, two-request reads |
| SQLite store, `ets/core/sqlite_store.py` | the local log, artifact records | append, lookups | a duplicate leaves a write transaction open |
| Synchronization queue, `ets/runtime/sync_queue.py` | one row per idempotency key with a SyncState | enqueue, claim_batch, mark_*, recovery at start | reads outside the transaction, overlap of two processes |
| Gateway ingress, `ets/gateway/ingress.py` | none of its own | ingest_json, ingest_syslog, ingest_otlp | the same item on two threads, partial commits, backpressure |
| Core relay, `ets/gateway/core_relay*.py` | the claimed batch | run_once, relay, reconcile | timeouts, late delivery, 409, uncaught exceptions |
| Core API, `ets/api/app.py` | the log, the artifact registry | append_event, tree head, proofs, bundles, artifacts | endpoints that read the log more than once |
| Merkle tree and proofs, `ets/core/merkle.py`, `proofs.py` | none | generate and verify | tree sizes that are no powers of two, index binding |
| Verifier, `ets/verifier` | trust store | verify_offline_bundle, verify_online_event | three requests, each to a log that has moved on; clocks |
| Connector runtime, `ets/connectors/runtime_store.py`, `ets/gateway/connector_runner.py`, `hosted_runtime.py`, `connector_management.py` | instance rows, leases, checkpoints with a revision, gaps | claim_due, collect, commit page, set_checkpoint, mark_gap, reconcile_gap, release_lease | leases that expire, stale gap flags, half-committed pages |
| Graph subscriptions, `ets/gateway/microsoft_graph_*.py` | subscription rows | register, renew, webhook | lifecycle against webhook threads |
| Edge, `ets/edge` | queue, key files | capture_webhook, run_sync | await between append and enqueue |
| Fleet enrollment and administration, `ets/fleet/service.py`, `portal_admin*.py`, `postgres.py` | enrollments, current enrollment and rotation of a device, owners of identities, mutation journal | submit, activate, transition, rotate, authorize; mutate with reserve and commit | long sequences of legal calls, decisions on a record read earlier, crash between journal and operation |
| Fleet presence, `ets/fleet/presence*.py` | heartbeats | record, query | replays |
| Black Box, `ets/black_box` | rolling frames, active capture, segments | record, trigger, seal, recover | a crash between two writes |
| Ranger key authority and registries, `ets/ranger/key_authority.py`, `authority_head.py`, `authority_checkpoint.py` | signed key history, retained heads, retained checkpoints, in three SQLite files | append, authorize_key, retain, verify, present | forked histories, decisions about boots that have begun, a crash between two stores |
| Ranger motion authority, `ets/ranger/mobility.py`, `lifecycle.py` | safety mode, applied motion, last command and control time | arm, disarm, reset_estop, authorize, enforce_watchdog | any order of calls on a clock that may run backwards, calls that raise after a change |
| Vault, AI Witness, Ranger custody ledger, election ledger | objects and journal, queue, custody chain, hash chain | see `PROJECT.json` | retention against holds |
| Enterprise connectors, qualification, capture, compliance, SDKs, console | mostly none | parsing, validation, reports | – |

How the parts interact. An ingress request or a connector page appends the event
to the local SQLite log and puts a row into the queue; the worker thread claims
rows, posts each event to Core over HTTPS and writes the verdict back. Core
appends to its own store (SQLite or the Azure table) and answers with a signed
tree head. A verifier asks Core for a bundle, the latest head and a consistency
proof. Ingress and worker are concurrent (the webhook commits with
`asyncio.to_thread`, `microsoft_graph_webhook.py` 146; `run_cycle` runs on a
thread of its own, `hosted_runtime.py` 588; OTLP over gRPC has an executor), Core's
reading endpoints run in a thread pool, and two Gateway processes overlap while a
revision is rolled out although `maxReplicas` is 1.

Around this path: the hosted Gateway's cycle claims due connector instances,
collects a page of each, commits its records through the same ingress and then
moves the checkpoint; operators write the same rows. A device authenticates
against its Fleet enrollment, which administrators change through a portal that
keeps a journal. A Ranger vehicle's custody chain is retained together with the
authority's key history under which its key has standing. The Black Box keeps
its own rolling chain of frames and seals what surrounds an incident. The motion
authority judges each drive command, and its lifecycle façade records every
change of the safety mode.

What makes each part correct: the log only grows and names each event once; an
acknowledged append is in the log; a receipt is never void; SYNCHRONIZED means that
Core has this very event; everything queued is settled; a verdict is true; an
honest log is not accused; a checkpoint never passes evidence that is not queued,
and gaps close only by decision; a key belongs to one device and a withdrawn
device stays out; retained custody never forks and stays verifiable; a recorder
starts again after a crash and its segments are whole; a vehicle moves only on
fresh authority, and not after an E-stop before it was armed anew. Section 4 names
the properties, and where the code does not keep one of these promises. The
hazards at their lines are in `PROJECT.json`.

## 2. Plan

Done, in this order:

1. `AppendOnlyLog` (abstract) and `AzureTableStore`, with the refinement;
2. `SyncQueue` and `GatewaySync`, which composes ingress, queue, relay, network
   and Core;
3. `Merkle`, `Verifier`, `VerifierSoundness`;
4. `TransparencyApi`, which composes the Core endpoints with the online verifier;
5. the proofs about 1, 2 and 4;
6. `ConnectorRuntime`: the store of the connector instances, the collection cycle
   and the management routes;
7. `RangerKeyAuthority` and `RangerRegistry`, which composes the key history with
   the two registries;
8. `FleetEnrollment`: the enrollment lifecycle with the administration's requests
   and journal;
9. `BlackBoxRecorder`;
10. `RangerMotion`;
11. the proofs about 6 to 10;
12. `RecursiveFunctions`, and with it the proofs about 3.

Next, of the parts
that are left (section 6), Fleet presence, the Edge's capture on `SyncQueue`, the
Graph subscriptions and the Vault's holds are the ones with running state.

## 3. Modules and the code

`PROJECT.json` maps every definition to its lines. Each `*_proofs` module holds
the theorems of the module it is named after. Those of `AppendOnlyLog` are in
`AzureTableStore_proofs`, about the log that the store implements;
`Transparency_proofs` is about `Merkle`, `Verifier`, `VerifierSoundness` and
`TransparencyApi`, `Ranger_proofs` about `RangerRegistry` and `RangerMotion`.
`RecursiveFunctions` holds what every proof about a recursive function needs.

**AppendOnlyLog** – the promise of `EventStore`. An append is invoked, takes
effect at one instant (`Commit`) and returns; the return is separate, so a caller
may be told "duplicate" or nothing after its own commit. `InMemoryAppendOnlyLog`
and `SQLiteEventStore` do the three in one step.

**AzureTableStore** – `AzureTableEventStore`. `meta`, `entries`, `index` are the
three kinds of row; `call[c]` the local variables of a caller, `pc` being the
request that comes next. One action per request to the table service. The
transaction (`TransactCommit`) checks the ETag and the two create-only rows, all
or nothing. `ReplyConflict` is the client library resending a committed
transaction; `Fail` any other error of a request; `Crash` the end of the process.
Row encoding and the validation of rows that only a corrupted table could break
are abstracted.

**SyncQueue** – the rows of the queue and one operator per SQL statement or
transaction: counting and selecting are separate from inserting and updating,
because the code reads before its transaction begins. A queue key stands for the
event it was derived from.

**GatewaySync** – a composition. `request[t]` is an ingress request:
`Submit`, `Lookup`, `EnsureCapacity`, `AppendLocal`, `FindRow`, `CountRows`,
`InsertRow` are the calls of `_commit_capture` and `_ensure_sync` in order.
`worker[p]` is `run_once`: `ClaimSelect`, `ClaimUpdate`, then for each record in
id order `NextRecord`, `PostAppends`/`PostConflict`/`PostAcknowledged`/`PostFails`,
`ReconcileCore`, `MarkRead`, `MarkWrite`, `MarkFailed`. `late` holds requests that
timed out at the Gateway and still reach Core. `Start` runs `_recover_in_flight`;
`Crash` forgets threads and keeps disks. `receipts` is a history variable. An
event is an identity, a content hash and a time of receipt, which its own hash
all covers; two captures of one item differ in the stamp. Initially Core may
hold an event already (a Gateway whose disk was replaced).

**Merkle, Verifier** – pure definitions. A SHA-256 digest is the term that was
hashed: collision freedom is assumed, domain separation is kept as a tag.
`SubtreeHash`, `AuditPath` and `ExpectedPositions` are three separate recursions,
as in the code, but on the size and the start of a slice where the code slices the
list. `OfflineChecks` and `OnlineChecks` give each check by its code.
Signatures are represented by the fact that heads are genuine.

**VerifierSoundness** – a verifier with a bundle and a consistency proof, up to
`MaxDamage` parts of which belong to another event, index, size or log, and a
server whose log may have lost its tail or an entry. The damage stands for
mixed-up answers and restored databases and models no code.

**TransparencyApi** – a composition of the endpoints and `verify_online_event`.
Each listing of the log, and the stamping and signing of a head, is a step of its
own. `op` says which of the three users of `_tree_head` is under way. `now` is
Core's clock, which stamps the heads; `began`, the verifier's `verified_at`, is read
on another host or given by the caller, and so is any time. One clock stamps all
heads and does not run backwards: with replicas whose clocks differ, or a clock
that is set back, `latest_checkpoint_time` may fail for an honest log, which
`NoFalseAlarm` leaves out. `MCTransparencyApi` adds the symmetry of the clients.

**ConnectorRuntime** – `row[i]` is the row of an instance in `connector_runtime`,
`enabled` what `connector_instances` says, `connector` which connector an instance
belongs to (Purview and Entra are the two that a step tells from others; any other
does a subset of what they do), `worker[p]` the cycle of a process. One
action per call on the store or on ingress, so two processes and the management
routes interleave between any two. `GetRuntime` reads the row; `CollectPage`,
`CommitRecord` and `SetCheckpoint` act on what was read; `ScheduleRetry`,
`MarkGap` and `CycleError` are the ends of a collection that fails. The revision
is compared only with the one read before, so a worker keeps `current`, whether
the row still has it; likewise a lease is an expiry that lies ahead or not, and
all processes have the same owner name, as in the code. A source is the sequence
of its positions. `collected` and `outlived` are history variables. That
committing a record twice is harmless is `GatewaySync`'s part.

**RangerKeyAuthority, RangerRegistry** – the rules of the key history as operators
(`TransitionOK`, `Standing`), and the two registries as sequences, `heads` and
`checkpoints`. `RetainHead` is `retain` up to the commit of the authority head,
`RetainCheckpoint` the rest, `RetainEnds` a crash or a refusal in between. What the
constructors and the verifiers check of the stores (`HeadChainVerifies`,
`CheckpointTransition`, `BoundTo`, `PresentedChain`) is translated separately from
what `retain` does, and the properties relate the two. `MCRangerRegistry` builds
the histories and chains of the instance; histories need not extend each other.

**FleetEnrollment** – `record`, `current`, `owner` and `rotation` are the enrollment
store, `journal` the mutation journal, `request[q]` a call of `mutate` with the
enrollment and the time that it read first. Every lifecycle operation is one
transaction, and so one step. A request with a slot that nobody else uses
(`Fresh`) is reduced to its reading and its operation. `Submit` has no caller in
the repository beyond tests and may come at any time.

**BlackBoxRecorder** – `saved`, `live`, `segments` are the three tables, `memory` the
recorder's own state and `call` the store call that it makes next. `Record` and
`Trigger` end with their first store call; `Seal` and `Prune` are steps of their
own, each of which may fail or be preceded by a crash. A failed `Trigger` leaves
the capture in memory and not in the store, as in the code. The monotonic time of
an observation must grow, its `observed_at_utc` may be any, and `ObservedInOrder` is
what the manifest asks of it: a capture that fails it cannot be sealed. One recorder owns the
store: two on one store are outside the model.

**RangerMotion** – `mode`, `moving`, `lastCommand`, `lastControl`, `lastEval` are
the attributes of the controller, `recorded` is the mode that the last lifecycle
record names. One action per call and outcome; the times of a call are inputs, so
that a clock that runs backwards needs no action of its own, and a command has a
time of receipt besides. Whether a command's identity matches and its motion is
within policy are inputs too. A call of `arm`, `disarm` or `reset_estop` with a
wall-clock time that has no zone changes the mode and then raises, and so does a
regressed clock. `raised`, `received` and `held` are history variables: `held` is set
by every call that sees the E-stop, and only an `arm` that finds the E-stop clear
and the latch gone ends it. Clock readings are not negative.

## 4. Runs

| Run | Bounds | Distinct states | Shows |
|---|---|---|---|
| `azure_table_store` | 2 callers, 3 events, 2 attempts | 65,274 | consistency of the rows, truth of every answer, no giving up without contention, refinement of `AppendOnlyLog` |
| `gateway_sync` | 1 process, 2 requests, 2 items, 1 row, batch 2, 2 faults | 231,861 | overrun of the bound at most by the concurrent requests, SYNCHRONIZED is final, everything queued settles for good |
| `gateway_sync_overlap` | 2 processes, 1 item in 4 versions, 1 fault | 1.7 million | SYNCHRONIZED means in Core, receipts hold, only local history is queued |
| `verifier_soundness` | trees up to 5 leaves, 2 damaged parts | 560,625 | acceptance implies inclusion at the index, continuity implies extension, honest data is accepted |
| `transparency_api` | 2 clients, 3 events, 3 times of either clock, skew 1 | 1.5 million (symmetry) | heads are prefixes, acknowledgements cover, no false alarm, every refusal explained |
| `connector_runtime` | 2 processes, 1 instance, 2 records, 1 retry | 216,424 | the checkpoint stays behind the evidence, rows stay readable, retries and overlaps are bounded, the instance is always collected again |
| `connector_gap` | the same, to be violated | – | a gap is closed without a decision (see the findings) |
| `ranger_registry` | 2 registry objects, 2 keys, 2 boots in histories of up to 3 decisions, chains of 2 boots, 3 times, 3 checkpoints | 65,959 (symmetry) | the stores open again, retained custody verifies and never forks, standing is not regained, the latest checkpoint can be presented |
| `fleet_enrollment` | 2 devices, 3 enrollments, 2 keys, 2 requests, 1 shared slot, overlap 1, 2 ticks | 952,293 (symmetry) | one device per key, a truthful journal, withdrawn devices stay out |
| `black_box` | windows of 2 and 2 frames, 2 boots, 2 UTC times, 5 frames | 3.6 million | only a UTC clock that was set back keeps it from starting again, segments are whole |
| `ranger_motion` | a clock of 9 nanoseconds, 2 to the millisecond, queue age 1 ms, watchdog 2 ms, 3 command numbers | 5,622 | motion only while armed and within the two limits together, after an E-stop only when armed anew, records follow the mode |

Why the bounds suffice: a lost update, a double append or an overrun needs two
actors, and a third event lets a retry meet new contention. Two attempts
contain first attempt, retry and exhaustion. A queue of one row is full after one
request, and two items are one more than it holds. Two stamps and two contents are the two ways captures of one item differ.
Two processes are what a rollout overlaps; one instance suffices for every
property of `ConnectorRuntime` that is per instance, two records give a page that
fails half way, and one retry is budget, use and exhaustion. Three decisions
contain enrollment, rotation and revocation, and two boots the boundary between
chains. Three enrollments of two devices contain a rotation and a competing
submission, two requests every stale read. Five frames fill both windows and prune
behind them, or are one more than a capture that could not be sealed; two UTC times
are enough to go back. Two ticks of Core's clock exceed a skew of one. The queue age and the watchdog's limit together are 6 nanoseconds, so
that a clock of 9 passes both, and two nanoseconds to the millisecond show the
rounding. Five leaves contain every shape of the recursion: a power of two, one more, an
uneven right subtree. Two damaged parts are needed because the bindings are
between pairs of parts. Bounds that the code does not have (`MaxFaults`,
`MaxTime`, `MaxSize`, `MaxDamage`, `LastPosition`, `MaxCheckpoints`, `MaxBoot`,
`MaxTick`, `MaxUtc`, `MaxFrames`, `MaxSequence`) are constants of the modules; the proofs hold
for all values.

Deadlock is checked for the store, for the API and for the motion authority. The Gateway may come to rest
(all items settled, no fault left), a damaged bundle has no next step, a disabled
connector instance waits for its operator, the Fleet may be withdrawn altogether,
and registry and recorder reach the bounds of their runs, so those runs say
`CHECK_DEADLOCK FALSE`.

Fairness (`FairSpec` of `GatewaySync`): weak fairness of each worker's next step
and of starting a stopped process. `_worker_loop` calls `run_cycle` again after
every outcome, exceptions included, and the container platform restarts the
process. Nothing is assumed of sources, of crashes, or of late deliveries. Faults
are bounded by `MaxFaults`, that is, settling is promised once faults stop; a
record whose upstream fails for ever is retried for ever. Settling is checked with
`Escapes` false; with exceptions that `run_once` does not catch it fails (see the
observations).

Fairness of `ConnectorRuntime`: weak fairness of each worker's next step, for the
same reason, and of the passing of leases and retry times, which are clock times.
`AlwaysCollectedAgain` has the premise that crashes stop from some time on, since a
process that always dies before its first read collects nothing. Operators may act
for ever.

### Findings

Two runs show where the code does less than a document says; they are expected to be
violated, and `PROJECT.json` quotes the sentences.

* `fleet_quarantine`: `authorize` judges the old credential of an open rotation by
  the state of its own enrollment, so a device that is quarantined during the
  overlap is still authorized by it, "regardless of which credential" or not.
* `connector_gap`: `_run_claimed_collection` writes back the gap flag that it read
  before the collection, and `mark_gap` does not move the revision: a gap that an
  operator opens meanwhile is closed again without a decision, although
  `docs/gateway/HOSTED_MICROSOFT_GATEWAY_V1.md` 122 says that known gaps "remain open".
  The theorem `GapsLostOnlyToStaleReads` shows that there is no other way.

Observations that the models make visible and no run is devoted to:

* `list_entries` of the table store reads `next_index` and the rows in two
  requests; an append in between makes valid data raise StorageValidationError.
* An exception in `run_once` other than the two relay errors (`RelayEscapes`) leaves
  the rest of the claimed batch IN_FLIGHT, which `claim_batch` never selects, until
  the next restart, although `docs/spec/ETS_GATEWAY_PROFILE.md` 113 says that the
  Gateway "MUST classify retryable vs terminal synchronization failures."
* `claim_batch` takes the oldest rows, so a full batch that fails retryably for ever
  keeps newer records waiting; rows in TERMINAL_FAILURE count against the bound of
  the queue for ever.
* `enqueue` counts before its transaction, so the bounded queue can exceed its
  bound. `OverrunBounded` says by how much at most.
* `docs/research/FORMAL_THEOREMS.md` 40-41 says of an inclusion proof that modifying
  the "tree size" causes verification failure. `verify_inclusion_proof` compares
  only the turns of the path, and those of the first leaf of three are those of the
  first of four: the lemma `ProofDoesNotFixTreeSize` proves that the altered proof
  is accepted. `verify_offline_bundle` is not affected, since it compares the
  size with that of the signed head, as `AcceptedIsIncluded` shows.
* `get_proof_bundle` lists the log twice; an append in between gives a bundle that
  `verify_offline_bundle` refuses although its own `verification_result` is valid.
  Its heads are also refused when Core's clock has passed `verified_at` by more than
  `max_future_skew_seconds`: `verified_at` is read before the first request, so the
  skew has to cover both what the verifier's clock is behind and what the requests
  take. `RefusedOnlyByRaceOrSkew` shows that there is no third reason.
* The retry budget is judged on the row as read, so overlapping collections may
  exceed it by one each (`RetriesBounded`).
* Standing of a Ranger key is judged in the head that the call retained, which
  another registry object may have superseded before the checkpoint is stored;
  and a decision about a boot that has begun can make the latest checkpoint
  unpresentable (the second case of `LatestPresentable`).
* Fleet: RESTORE takes a PENDING enrollment to ENROLLED without the expiry check of
  activation; `complete_rotation` takes a DECOMMISSIONED enrollment back to
  REVOKED; a REVOKE whose request read the current enrollment before a rotation
  revokes the old one; a rotation may later return to a fingerprint that was
  revoked; a refused operation leaves its journal slot pending.
* Black Box: `docs/spec/ETS_BLACK_BOX_V1.md` 141 says that "UTC time can degrade
  without losing deterministic local order", 320 that loss of trustworthy UTC "does
  not stop local ordering", and 343 that a completed capture is sealed by recovery.
  But the manifest (`models.py` 285-286) refuses a capture whose last frame has an
  earlier `observed_at_utc` than its first. A running recorder goes on and seals with
  a later frame; after a restart, `__init__` (`service.py` 119-122) seals before a
  frame can be recorded, so it raises at this and every further start, and the device
  records nothing any more. `StartFailsOnlyOnUtcStepBack` allows for this case
  and shows that it is the only one.
* Black Box: when the seal after a recorded frame fails, the next `record` adds a
  frame beyond the post-trigger window before it seals.
* Ranger motion: `docs/research/ranger/safety-architecture.md` 64 gives as the exit
  of `estop_latched` "Hardware release, explicit reset, then explicit arm", but
  `disarm`, a regressed clock, and a command whose times are out of order (even in
  the call that sees the E-stop) leave the latch without a reset, and `arm` then
  arms; lines 33-34 likewise speak of "physical release, reset, and re-arm".
  `EstopHolds` shows what remains: a call that leaves the latch and, after it, an
  `arm` that finds the E-stop clear. No single call, and no command, gives the
  authority back. The lifecycle façade
  validates the time of a record after the mode has changed, so a call can raise
  and leave no record (`RecordsFollowMode`).

## 5. Proofs

All theorems hold for every value of the constants, under the named ASSUMEs:
positive bounds, non-empty sets of events, finitely many processes and requests,
markers such as `None` that are no records, histories that `verify_history` accepts,
chains that are records with their five fields. Each safety theorem follows one
pattern: `Init => Inv`, `Inv /\ [Next]_vars => Inv'` with one step per action,
`Inv => property`. TLC has checked each `Inv` on the instance of the component's run.

* **AzureTableStore**: `Inv` adds to the properties that ETag and next_index move
  together, so that a caller whose ETag still matches has also the right index;
  that a committed append stays findable until its answer arrives; and that each
  failed attempt is paid for by a commit. Without the first, two transactions
  with the same index could not be told apart. `Refinement` maps the rows to a
  sequence and shows that every step is a step of `AppendOnlyLog` or a stutter.
  `IdsStayUnique` and `LogIsAppendOnly` then follow from the log alone.
* **GatewaySync**: `Inv` says what a request may rely on from its lookup to its
  insert (its entry is the local one and has the content that was sent) and what
  a worker may rely on from Core's answer to its mark (its event is in Core).
  It needs no assumption on the number of processes. `SynchronizedStaysFinal` is
  proved under `Alone`: `ClaimExclusive` says that a single worker's selected rows
  are still claimable and its claimed rows still IN_FLIGHT. With two processes it
  is false: `claim_batch`, `_mark_failure` and `_recover_in_flight` write without
  looking at the state, and the record is relayed again, harmlessly for
  `SynchronizedInCore`. `OverrunStaysBounded` needs `Alone` for the same reason:
  a row that is taken back counts again. `OverrunBounded` adds to the backlog the
  requests that have counted and not yet inserted, which makes it inductive; each of
  them was one of at most so many threads when it found room.
* **Merkle**: the functions are recursive, so first there is
  `FixpointEquation` of `RecursiveFunctions`: a function whose recursion descends on
  a measure satisfies the equation that defines it. Domain, measure and body are
  constants of that module, and the proofs instantiate it five times, for the split
  point, the hash of a subtree, the loop along a path, the expected positions and
  the audit path. `StrongInduction` in the same module speaks of a set instead
  of a predicate, so that it can be cited for any statement about numbers.
  `SplitPointIsLargestPower` is the promise of `split_point`; that both halves are
  smaller and not empty makes the other recursions descend. `PathIsSound` is the
  induction behind `InclusionSoundness`: at each split the last position of the path
  says which half the leaf is in, and the equality of two interior hashes that the
  sibling is the other half. Of the path nothing is assumed but that it is a list.
  `PathFromCorrect` is the converse for generated paths (`InclusionCompleteness`).
  `MerkleRootInjective` (same size and root, same leaves, whatever the leaves are)
  gives `ContinuitySoundness` for whatever the server put into its proof.
  `RootIdentifiesLog` needs no size: a leaf hash is never an interior hash, which
  is the promise at the head of `merkle.py` (lines 6-14). These are the statements
  that `docs/research/FORMAL_THEOREMS.md` calls Theorem 2 and Theorem 3, which are
  "not mathematical publication claims until mechanically checked"; what is proved
  is that a verified proof tells the truth about the log, under free hash terms.
  Theorem 2 goes further in one point, which does not hold (see the observations).
* **VerifierSoundness**: `VerifierInv` says that damage leaves the lists lists and
  the bundle's head the signed one, and that undamaged data is what was handed out.
  The three properties then follow from the theorems about `Merkle` for trees of
  every size and any amount of damage.
* **TransparencyApi**: `Inv` says that heads are those of prefixes and stamped in
  the past, that a client's index is that of its event, and that the latest head
  is neither smaller nor older than the bundle's. Of the verifier's time it says
  nothing, so `RefusalsExplained` holds for any two clocks. Prefixes of prefixes give
  `NoFalseAlarm`, and `InclusionCompleteness` that the check of the inclusion proof
  is no false alarm either: nothing about the tree is left to the run.

* **ConnectorRuntime**: a collection may outlive its lease, so the invariant says
  what it holds whose revision still matches: everything up to the position it
  would release is queued (`WorkerCovered`). One whose revision has moved writes
  nothing. `LeaseExclusive` excludes a second holder only for instances where no
  lease was outlived. `RetriesAccounted` counts with the row's retries the
  collections that may still add one; the budget alone is not inductive.
* **FleetEnrollment**: identity ownership decides (`RecordsOwned`): what `authorize`
  looks at for a device are its own enrollments, whose keys it owns, through open
  rotations too. `SlotsHeld` gives every reserved slot one holder, whose
  position says whether the operation has run; `RequestSound` carries the result
  from the operation to the journal. `WithdrawnStaysOut` needs `FirstIsCurrent`:
  otherwise a first enrollment could be activated over a withdrawn one.
* **RangerRegistry**: heads are linked each to all later ones as prefixes, and a
  checkpoint is bound to the head that was retained with it. A call that is about
  to store its checkpoint was judged on the checkpoints it saw; `CallSound` says
  that it still follows the last one or will be refused. A chain of a later boot
  names its predecessor, which is why `CustodyLinked` speaks of `previous`; from
  steps between neighbours alone the absence of forks does not follow.
  `NeverRegained` rests on the rule that a key named once is never named anew.
* **BlackBoxRecorder**: `WindowKept` says that the live frames are one run of numbers
  that reaches back over the rolling window and over each capture, whether it was
  saved or is only in memory after a failed `update_state`; `OnChain` ties each
  frame to a cut of the saved chain. `CaptureSound` adds what the counter means:
  the frames since the trigger and those remaining make up the window. A prune is
  due only without a capture (`CallSound`), which is what a pruning mutant breaks.
  `CapturesAreWhole` then leaves the order of the UTC times as the one check that a
  start can fail.
* **RangerMotion**: `MotionIsTimed` splits the age of a motion into the delay in the
  queue and that since the command was allowed; only together they bound it.
  `EstopHolds` is inductive because `arm` alone sets the mode to armed.

Model-checked only: liveness (`EverythingSettles`, `AlwaysCollectedAgain`), which
needs fairness and ENABLED; both are out of the prover's reach. The runs
`fleet_quarantine` and `connector_gap` refute their properties, so there is nothing to
prove. All other
properties of the runs are theorems.

Assumed throughout: SHA-256 has no collisions and a digest reveals its domain
(terms are equal only if built alike), and the signed heads are genuine.

## 6. Not modelled

Parts with state of their own: Fleet presence, the Edge's capture, Graph
subscriptions, Vault, AI Witness, the custody ledger on the Ranger vehicle, artifact
records. Parts without running state: the provider connectors'
parsing and paging, capture envelopes, publication and qualification packages,
compliance, governance, federation, SDKs, user interfaces and deployment templates;
these are most of the repository's lines.

Inside the modelled parts: cryptography beyond free terms; key trust, scopes and
authorization of the APIs; status pages, metrics, audit lines, attempts and
timestamps of queue rows; the byte bound of the queue apart from the item bound;
the locks of SQLite and serialization conflicts beyond a failing call; configuration
updates of connectors. The repository's own `formal/` directory is independent of
this one.
