# Veridex in TLA+

TLA+ models of Veridex, the TLC configurations that check them on small
instances, and TLAPS proofs of the properties that matter most. `PROJECT.json`
holds the machine-readable side: which definition models which lines, what each
run checks, the hazards the properties are aimed at, and the findings.

## 1. The system

Veridex runs trading agents against prediction and sports markets, scores them
on sealed evidence, and has a guarded lane that can place small real-money
("dust") orders. Its parts, the state each keeps, and what makes it correct:

| Part (under `veridex/`) | State | Operations | What is hard, and what must hold |
|---|---|---|---|
| Durable session state (`dust_execution/session_state.py`) | one reservation row per attempt, recorded fills per session | load, reserve_or_freeze, settle, record_reconciled_fills | concurrent calls, crashes between post and settle: one possibly-live attempt per session, caps counted atomically |
| Execution facade (`dust_execution/facade.py`) | none of its own; a call's locals | propose_mm_execution | retries after a lost acknowledgement, stale snapshots over awaits: each request posts once, the report is what happened |
| Runner (`dust_execution/runner.py`, `manifest.py`, `noncrossing.py`) | a run's safety session | triggers, startup sweep, gates, take, rest, cancel-replace | the wallet is shared and moves between reads |
| Reconciliation (`dust_execution/reconcile.py`) | pre-submit journal | assess, resolve, authorize re-submit, honest status | partial evidence, a loop that must end |
| Emergency stop (`dust_execution/emergency.py`) | submit block, last ack | cancel_all_and_block, triggers, on_realized_fill, re_arm | what happens during the awaited sweep or count |
| Loss accounting (`dust_execution/risk.py`, `ledger.py`) | accumulators, durable fill ledger | apply fill, seed, reconstruct | live and restarted totals must agree on caps |
| Operator interlock (`dust_execution/operator_interlock_store.py`) | issued receipts | record, verify | arming only on a recorded, unforged receipt |
| Wallet provisioning (`dust_execution/privy_provisioning.py` and friends) | provisioning records | create, recover, bind | crash between remote effect and record |
| Plan bridge (`mm_strategy/orchestration.py`, `execution_adapter.py`) | stop signal, worker thread, freeze sink | execute_plan_bridged, execute_plan | thread and event loop, kill, timeout, cancellation, shutdown |
| Market-maker run (`mm_strategy/composition.py`) | decisions, receipts, terminal reason | run_market_maker, guard ablation | no fresh placement behind a possibly-live leg |
| Strategy core (`mm_strategy/core.py`, `contracts.py`, `assembler.py`, `basis.py`) | policy state | decide | single-phase plans, funnel into cancel-all |
| Agent adapter (`runtime/mm_agent_adapter.py`) | registry of runs | start, cancel, drive | cancel racing completion |
| Agent runtime (`runtime/`) | run status, checkpoints | orchestrate, live run, checkpointed model calls | replay of a paid call, failure isolation |
| Deployment (`api/deploy.py`, `deploy/`) | attempts, instances | preflight, deploy, compensate | one step of several fails |
| Competition (`competition/`, `runtime/competition.py`) | competitions, event log | open, run, seal, score | order of events |
| Policy (`policy/`), paper execution (`execution/`) | breaker, envelope, counters | gate, execute | breaker trips, caps |
| Recorder (`live_recorder/`), ingest (`ingest/`) | segments, hash chain, packs | record, reconnect, seal, admit | gaps, reconnects, partial files |
| Arena, scoring, verification (`maker/`, `scoring.py`, `leaderboard.py`, `rank_guards.py`, `verifier/`, `law/`, `checks/`, `chain/`) | sealed runs, proofs | seal, score, rank, recompute, anchor | determinism, pure algorithms |
| API, stores, web (`api/`, `store.py`, `apps/web`) | SQL tables, sockets | HTTP and websocket handlers | plumbing around the parts above |

How they interact: an agent's run (`run_market_maker`) decides on every
observation and hands the plan to the bridge; a worker thread walks the legs and
calls the execution tool on the event loop; the tool reserves in the durable
state, runs the runner against the venue, reconciles and settles; the emergency
stop is shared by everything that submits in a session. Real orders can be
posted only on that path, so it was modelled first.

Above it, a deploy request claims an attempt, persists an instance and launches
a run under a lease; a market maker's launch first provisions a wallet, if the
process was started with custody enabled. Beside it, a competition runs agents
over a replay, seals the run, appends its events to a log that spectators
follow, and hands bets to the paper lane with its policy gates. A live window
does the same over a provider's stream, then anchors and verifies what it
sealed. Stores, law, scoring, boards and replay packs are functions those parts
call.

## 2. Modules

| Module | Models | Used by |
|---|---|---|
| `SessionState` | the durable provider: operators on `rows`, `netSession`, `netDay` | `MmExecution` |
| `MmExecution` | concurrent calls of the execution tool, each with its run, and the venue | `MmExecutionProofs`, `MCMmExecution` |
| `OrderDesk` | the abstract promise: each order placed once, one at risk per session, within the cap | INSTANCE of `MmExecution` |
| `EmergencyStop` | one shared safety session: submits, triggers, fills, re-arm, the resolving loop | `EmergencyStopProofs` |
| `PlanBridge` | a market-maker run, its worker thread, the tool's coroutine, kill, timeout, cancel, shutdown | `PlanBridgeProofs` |
| `SubmitReconcile` | an order whose acknowledgement was lost: the three surfaces, freeze and reserve, journal, restart join, recorded status | `OrderSigningProofs`, `MCRiskArming` |
| `OrderSigning` | own-order crossing and lock checks, fees, amounts, signing compiler, commitment, custody, live submit, venue gate | `OrderSigningProofs`, `MCRiskArming` |
| `RiskArming` | interlock, receipts, arming chain; loss accumulator, ledger, rebuild | `OrderSigningProofs`, `MCRiskArming` |
| `WalletProvisioning` | the provisioning saga over attempt and record rows and the provider | `AgentDeploy` |
| `DeployPreflight` | the configuration checks of a deploy, as predicates | `AgentDeploy` |
| `AgentDeploy` | deploy requests, launches, lease, adapter registry, kill, crash, shutdown | `AgentDeployProofs`, `MCAgentDeploy` |
| `PolicyGate` | both gates, the one-phase gate, the envelope, the breaker | `ExecutionLane` |
| `ExecutionLane` | one step of the paper lane, approvals, record states | `Competition` |
| `Competition` | a competition's row, log, starts, arena, lane, approvals, kill switch, spectator | `CompetitionProofs`, `MCCompetition` |
| `StoreBackends` | the in-memory and the Postgres store, table by table | `MCCompetition` |
| `StrategyCore` | `decide`: rows, blockers, guard, prices, plan | `QuoteLoop`, `MakerSession` |
| `RecorderTape` | recorder, resume, seal, strict reading, replay, alignment | `QuoteLoop`, `MakerSession` |
| `QuoteLoop` | a session: feed, minting, projection, both arms, crash and resume | `QuoteLoopProofs`, `MCQuoteLoop` |
| `BookSource` | the websocket book source: reconnects, gaps, retained books, cache | `MCBookSource` |
| `RecorderRun` | the capture session, the counterfactual take and queue measurements, the analysis of a sealed tape | `MCBookSource` |
| `LeadLag` | the lead-lag probe and the two-feed monitor | `MCBookSource` |
| `MakerSession` | what a maker run is assembled from: pins, tapes, ablation, request builder | `MCQuoteLoop` |
| `ScoringLaw` | closing-line law, metrics, ranking, boards, drawdown, badges | `RunVerifier`, `DirectionalStrategies` |
| `RunVerifier` | evidence, Merkle forest, manifest, verifier, check suite, card | `LiveRun` |
| `LiveRun` | a live window: stream, feed, close, finalize, anchor, certify | `LiveRunProofs`, `MCLiveRun` |
| `DirectionalStrategies`, `DriftAgents` | the directional agents, the checkpoint runner, the arena comparison | `LiveRun`, `MCLiveRun` |
| `ReplayPacks` | captures, sessions, packs and their authority, catalog, odds proofs | `MCLiveRun` |
| `MakerArena` | `veridex/maker`: agents, tape, markouts, verdict, board, trade artifact, overlays | `MCLiveRun` |
| `Absent` | `None`, the absent value | many |
| `*Proofs` | theorems | |
| `MC*` | instances for TLC, and assumptions over small inputs | |

Two kinds of module. A state machine (`MmExecution`, `EmergencyStop`,
`PlanBridge`, `AgentDeploy`, `Competition`, `QuoteLoop`, `LiveRun`) has one action
per stretch of code between two awaits. The rest of the code is sequential
functions; they are operators, and what they promise is an assumption of an `MC`
module, which TLC evaluates on every listed small input before the run it
belongs to (§3).

Abstraction of data, everywhere: a hash is the value it hashes; a market, side,
agent or fixture is a small number or a model value; probabilities are basis
points, prices of the arena units of 1e-5; an average is a pair of sum and count,
compared by cross-multiplication; a random generator's draws are inputs. Where a
proof needs it, a sorted list is defined by places, not by a fold: the k-th element
is the one with k - 1 smaller ones (`Arranged`, `SortedBySeq`).

### SessionState and MmExecution

A request is an attempt: `attempt_id` is the fingerprint of the whole request,
so an identical retry is the same attempt and any change of it another.
`rows[a]` is the reservation row (`"NONE"` when absent: a released row is
deleted). `ReservationOutcome` has the order of the checks in
`reserve_or_freeze`: replay of the own row, freeze by any other unresolved row,
loss caps on the current ledger, order caps on the current count. All of it runs
under one lock, so it is one step.

A call is a coroutine with a program counter; a step ends at every await:

* `Load` (clock and `provider.load`), `Refuse`, `Reserve`, `ReserveRaises`;
* `Arm` (interlock and arming gate: a free choice for a live request, impossible
  for a dry one), `TriggerSweep` (kill switch), `StartupRead`, `StartupSweep`;
* `CancelAllIntent`, `CancelAllSweep`, `Abstain`, `PassGates`;
* `CancelOld`, `JudgeOld` (cancel-replace), `DryRun`, `Submit`, `AckLost`;
* `Reconcile`, `Settle` (a failing store is suppressed, as in the code);
* `Raise`: any awaited call raises or the process dies; locals are lost, rows stay.

The venue moves orders by itself (`VenueMove`), and what the provider's contract
leaves to production is `HookSettle` and `HookRecordFill`. Assumptions on them:
a venue read answers truthfully or fails; an order once terminal stays so; the
hook settles only rows that no running call holds, as absent only when nothing
was posted. The manifest has one target token, so a run posts at most once.

Abstracted: prices, sizes, quotes (an unusable quote is an abstention),
receipts, runtime events, signing. `NO_ORDER` stands for `NOT_ARMED` and
`ABSTAINED`.

### EmergencyStop

Tasks of one event loop share a `DustSafetySession`. `CancelAllAndBlock` is the
primitive up to its await; `SweepAtVenue` and `SweepReturns` are the venue's side
and the answer; `SweepRaises` the failing wire. `Poll` and `Sleep` are the
resolving loop. `ReArmRead` and `ReArmClear` are the two sides of re_arm's await.
The facade builds a new session per call; sharing is by injection into
`run_dust_execution`, and that is what this module is about. Stops are numbered
(a history variable) to tell whose sweep an ack reports, and for which stop
re_arm counted.

### PlanBridge

`Plans` are the plans of the run's decisions, sequences of leg kinds. `thread`,
`i`, `end` are the worker; `coro` and `future` the tool's coroutine on the loop
and the concurrent future the worker waits on; `task` the asyncio task around
the thread; `host` is `run_market_maker` with `execute_plan_bridged` inlined.
`CheckStop` and `SubmitLeg` are two steps, since the thread can be preempted
between them. `LegTimeout` cancels the future, which the coroutine notices only
when the loop gets to it. `LoopCloses` begins a shutdown of the event loop, which
cancels every task, the shielded one too.

### SubmitReconcile and OrderSigning

`MmExecution` takes a venue read to be truthful or to fail. `SubmitReconcile` is
what lies below: a reading is what the three surfaces return for one key
(`orders`, `order`, `fills`, absent when missing or raising), and the instance
gives every reading an order of two units can have, with a lagging history, an
amount that cannot be read and other orders' trades on the same page.
`OrderSigning` follows an order from the checks against one's own orders to the
body on the wire. Hashes and signatures are ideal: a hash is the value it
hashes, a signature its signer and digest. The amounts are floats in the code;
where the exact value lies on a rounding boundary the model allows either side.
A change between two of the stages is one of `Tamperings`.

### BookSource, RecorderRun and LeadLag

`BookSource` has the stream of frames with its reconnects (every lost connection
is a gap frame), the retained books a change is merged into, the comparison of
the best prices a change reports with the retained ones, and the cache that
`FetchBook` serves. `RecorderRun` is `run_live_recorder` over a list of polls and
fair values, any of which may raise. Both are sequential, one frame or poll after
another, so they are folds over every short list of events.

### AgentDeploy and WalletProvisioning

One operator, one idempotency key; the requests are retries and duplicates of
one deploy, possibly with different configurations. `DeployStep(r)` is the
handler (`LookupPrior`, `Preflight`, `ClaimAttempt`, `ReadRecorded`,
`PersistInstance`...), `LaunchStep(r)` the background launch from `AcquireLease`
to `ReleaseLease` and `FinishLaunch`, `SagaStep(r)` the provisioning driven by a
launch or by a recovery. All are tasks of one event loop; rows are written by
compare-and-swap where the store does. The provider may accept a create it does
not answer, and forgets its keys after `Window`. `Crash` drops the memory and
keeps the rows; `Shutdown` lets the launches' `finally` run, which fails a lease
only inside the guarded body: the write that releases it is outside.

`provisioning` is the custody gate of the running process
(`require_privy_provisioning` and the provider): disabled, a market maker is
launched without a wallet; enabled without a provider, its launch fails closed;
enabled, it provisions. It is chosen at every start, so a restart may change it
between a claim and its retry. A process with custody enabled and an incomplete
pinned configuration does not start (`config.py:181`). `gate` remembers what each
launch found, and `RunHasWallet` is relative to it: with custody disabled a run has
no wallet record, by design.

### Competition, ExecutionLane and PolicyGate

The status, the run id and the log are separate writes, as in the service; the
store refuses only a seq that is taken (`NoDuplicateSeq`). `LaneStep` prices,
gates and sends one bet; `ResolveApproval` reads, judges and submits in steps.
The spectator is registered before its replay is read, has a bounded queue and
may be evicted and come back (`Connect`, `Replay`, `ForwardLive`, `Disconnect`).

### QuoteLoop, StrategyCore and RecorderTape

A tick is a plain healthy book or one of the deviations of `MCShapes`. The
assembler mints each feed event to the tape first and projects the fair value of
the tick's own stream minted before it. Both arms fold the same observations and
keep their own state. The first tick of a session seeds the arms (`NoTick` before
it) and disturbs nothing. What an arm wants on the book is what it places, or what
rests when it holds because that is what it wants; a resting order within
`price_epsilon` of its target is left alone, so `GuardOnlyPulls` compares prices up
to that. A crash may tear the last line; `Resume` reads the
generations from the tape. The content hash of rows with distinct numbers is the
set of the rows, which is the same thing as their list in the order of their
numbers; a repeated number raises, and the tape stays unsealed. The fair values of a stream arrive in the order of
their generations; source times may go backwards.

### LiveRun, RunVerifier and ScoringLaw

`history` is what the provider published; a record reaches the run (`Feed`),
misses the stream (`Miss`), belongs to another fixture or ends the window. The
sink can raise at any event of a tick (`SinkFails`). The close is fetched from
the provider, wholly, in part or not at all. The provider and its clock go on
whatever the runner does, after the fetch too; `told` is what the provider had
published when it was asked. `TrueClvIsTheClose` measures against that: a stream
that ends cleanly before kick-off (`live_runner.py:320`) seals the last update
so far, and the pre-match updates that follow are deliberately not claimed.
`Certify` builds scores, manifest, check results and verify report of the sealed
run. What the runner and the verifier read in some order is told by places in
the log (`Arranged`, `Listed`, `Picked`); what they rank is folded
(`ScoringLaw`). The agents of a run have different numbers: a roster refuses one
it has.

## 3. Runs

| Run | Result | Question |
|---|---|---|
| `MmExecution` | pass, 228k states | two calls, three attempts of one session, order cap 2, one recorded loss: posting, durability, freeze, caps, exposure, reports, evidence, refinement of `OrderDesk` |
| `MmExecutionShared` | pass, 534k | two sessions on one wallet over two days: a quote and its cancel-replace in one, a cancel_all and a dry run in the other |
| `MmExecutionCancelAll` | violation | a cancel_all is frozen by the order it should withdraw |
| `EmergencyStop` | pass, 33k | the stop under all interleavings of two tasks, one of them an operator, and the end of the resolving loop |
| `EmergencyReArm` | violation | a new stop is cleared on an old count |
| `PlanBridge` | pass, 3.7k | two plans, kill, timeout, repeated cancellation, loop shutdown |
| `PlanBridgeAbandons` | violation | a thread left behind at loop shutdown |
| `AgentDeploy` | pass, 389k | two duplicates of a deploy with any pair of four configurations, provider timeouts, a kill, a crash or shutdown, custody disabled, enabled or without a provider at each start: one wallet, record before a run launched under enabled custody, one market-maker run, launches settle |
| `AgentDeployDuplicates` | violation | two concurrent duplicates each launch a run |
| `Competition` | pass, 1.3M | starts, arena, approvals, lane and spectator in five scenarios: one gapless log, evidence equal to the sealed run, lane limits, nothing missed |
| `QuoteLoop` | pass, 542k | both arms over gaps, jumps, halts, tick-size changes, resting orders, reconnects and a crash: dwell, the guard only withholds, the tape replays |
| `LiveRun` | pass, 1.8M | a window over an unreliable stream: what is sealed passes its verifier, a true CLV is measured against the provider's last pre-match update at the fetch, never a tick |

Assumptions evaluated with the runs, each on every input of its small sets:

| With | Module | What is checked |
|---|---|---|
| `Competition` | `MCCompetition` | both stores answer alike and leave like tables for competitions, event logs, runs, ledgers, runtime events, instances, public agents; the backfill is idempotent |
| | `MCCompetition` | the split gates give the reasons of the one-phase gate |
| `QuoteLoop` | `MCQuoteLoop` | plans are passive, legs distinct and bound to their requests, alignment never looks ahead, sessions are pinned, startup is gated |
| | `MCRiskArming` | only a recorded operator receipt arms; a restart keeps the session's loss; on which day a late fill counts |
| | `MCRiskArming` (own orders) | own orders that may rest never meet; a sell is the buy of the other token; a lock is found when cost follows price, and can be missed when it does not |
| | `MCRiskArming` (signing) | signed amounts never exceed the admitted size; what is posted is what was committed, recorded first and signed by the bound wallet; body and signature agree by the compiler; keys within and across ports; only pinned custody arms |
| | `MCRiskArming` (lost acknowledgements) | silence proves nothing and releases no second submit; the reserve covers while frozen, and the two ways it is let go too early; where the two recorded statuses disagree; a restart keeps the freeze; the restart join resolves no more than the three surfaces |
| | `MCBookSource` (books) | a served book is the venue's unless a frame raised half-way; losses are gaps, waits are bounded, an unseen token is unknown and not stale; both readers of a book agree |
| | `MCBookSource` (sessions) | whatever raises, the tape is sealed and replays; decisions are complete and never look ahead; takes are measured as the walk of the asks; chains never cross a gap; leads need five fixtures, earlier changes only, and no order between simultaneous arrivals |
| `LiveRun` | `MCLiveRun` | replays verify, tampering shows, claims are not scored, ranking is strict, drawdown against its definition, Merkle proofs bind, feed states agree, boards are honest |
| | `MCLiveRun` (agents) | the detectors fire on rises, ignore suspensions and stale answers; both arena arms get the same opportunities; prompt runs replay |
| | `MCLiveRun` (packs) | genuine captures are minted, torn copies and relisted legs refused, bindings frozen |
| | `MCLiveRun` (maker arena) | quotes are inside, cancels name what stood, no look-ahead in references or mids, the board is an order, the verdict follows the lists, artifacts reconcile, overlays are bounded and do not rank, an unpinned run is void |

Bounds. Two callers are enough for every race over one reservation (the lock
admits one; a third repeats the second). Three attempts with a cap of two let the
cap be reached, exceeded by a mutant, and retried. `MaxFills`, `MaxLoss` and
`MaxStops` bound counters that only grow; two stops are the least for a count to
be of the wrong one. What `SweepLeavesOnlyRacers` says of an order does not depend
on the others, so one order will do. Two plans with two writes each, an abstention
before the second's, let a leg freeze its plan and a plan its run. Callers are
symmetric, and the symmetry is used in the safety runs only.

`AgentDeploy`: two requests are the least for a duplicate and make every
compare-and-swap lose once; `MaxReentries` stands for the code's larger limit; a `Window` of one clock
step lets the provider forget before or after a retry; one crash falls between any
two steps. `Competition`: a scenario has the requests that race for one thing, a
queue of two overflows, and a breaker threshold of one trips within the two bets.
`QuoteLoop`: eight clock units hold warm-up, a dwell and a second disturbance;
three extras in all (`MaxExtras`) allow, for instance, a gap, a reconnect and a
crash. `LiveRun`: three records allow a miss before the close and a partial close;
two half seconds put a horizon on either side of its bound.

The runs over requests, sessions and windows do not check deadlock: a request
ends, a sealed tape and a certified window have no next step.

Fairness. `EmergencyStop`: a task whose awaited call has answered or raised is
resumed by the event loop, and adapter calls have transport timeouts; nothing is
assumed of the venue. `PlanBridge`: the thread is scheduled, a finished thread's
callback runs, and the host runs when it can; the tool's coroutine has no
fairness, for it may hang. `AgentDeploy`: each handler, launch and saga step is
resumed by the loop (weak fairness), since store and provider calls end in an
answer or a timeout; the kill, the clock, a crash and a shutdown have none. The
other runs check safety only.

## 4. Findings

Four runs refute what a docstring or a comment says; `PROJECT.json` quotes it.

1. A live cancel_all is frozen by the very order it should withdraw.
2. re_arm clears a stop that was engaged while it awaited its count.
3. The shutdown of `asyncio.run` cancels the shielded worker task; the drain ends
   while the thread runs, and no freeze record is written.
4. Two concurrent deploys with one idempotency key both find the claim pending
   and no instance, and both launch; only the lease stops a second market maker.

Met while modelling, visible in the models or their assumptions and not kept as
runs.

Execution:

* a partial fill counts as a resolution (`Assessment`), though
  `reconcile.py:315` documents a still-live resting order as ambiguous;
  `OneExposedOrderPerSession` holds all the same, thanks to the startup sweep;
* a terminal status `MATCHED` with an unreadable fill history is judged withdrawn
  (`Withdrawn`), so a filled order can be replaced, against `runner.py:2463`;
* a second trigger during, or after a failed, sweep gets a made-up ack
  (`emergency.py:174`); re_arm does not compare the reloaded loss with the caps
  (`emergency.py:299`);
* the stop signal is checked and the leg submitted in two steps, so one leg may
  follow the kill; `AtMostOneLegAfterKill` is what holds, not the "no leg is
  submitted after a kill" of `tests/test_orchestration_bridge.py:9`;
* interlock receipts are not consumed (`operator_interlock_store.py:227`);
* the lock check walks both ladders by price; with makers (no fee) and takers on
  one ladder it admits a pair that costs a dollar (`FeesHideALock`), against the
  adversarial pairing of `noncrossing.py:459`; the runner does not call it;
* `_status_for` calls a filled order expired when its history cannot be read, and
  differs from `honest_venue_status` in the ways `StatusesDisagree` lists, though
  its docstring rules a fabricated status out (`runner.py:2031`);
* one journal row without a key, or one page that cannot be read, ends the restart
  join for all (`JoinResolvesNoMore`);
* salts count from the start of a port, so the same order from two ports in one
  second has one venue key (`KeysRepeatAcrossPorts`);
* a late fill counts on today's loss until a restart, and midnight resets only a
  rebuilt accumulator (`LateFillsMoveDays`).

Deployment:

* a crash after the instance was written and before its launch leaves an instance
  that never launches; an owner's kill is refused while the wallet is provisioned;
* the losing duplicate of a market maker withdraws the winner's adapter, so its run
  cannot be killed (`deploy.py:761`); a run that was killed ends `SEALED`;
* a stale write can put a running instance back to `PENDING`
  (`agentos_service.py:436`).

Competition and stores:

* the derived tail and the started event are stored and never broadcast
  (`service.py:559`); the kill switch is read once per lane; the arena's recovery
  can release the claim of a start that is running (`router.py:296`);
* a duplicate run is refused by Postgres and overwritten by the in-memory store
  (`RunsAgree` leaves it out);
* the breaker's `start_probe` is never called.

Quote loop and recorder:

* after the level of a book settled elsewhere a leg may stay unquoted until the
  next reset (`core.py:741`); a fresh seed forgets the dwell (`core.py:1526`);
* a leg the guard pulls is not cancelled by the plan of that tick (`core.py:1088`);
* the tape's content hash leaves the book's prices out (`TapeHashIgnoresBook`);
  the guard ablation writes both arms into one directory (`composition.py:648`);
* a frame that raises half-way gaps every token "until a fresh book re-seeds it"
  (`ws_book_source.py:754`); the next change whose best prices agree serves it
  again without a seed and without the changes that were skipped (`ErrorSkipsChanges`);
* the queue jump of a quote is derived from the books of every token
  (`QueueJumpMixesTokens`);
* a decision whose reason, price or gate is refused is on the sealed tape without
  its intent (`DecisionsAreComplete` names the exception).

Live runs and verification:

* a sink that raises within a tick leaves a number unspent; finalize then raises
  and the run said to be preserved is lost (`SinkFails`, `FinalizeFails`);
* a stream that ends cleanly before kick-off is sealed with a true close
  (`live_runner.py:320`), though the provider may publish pre-match updates after it
  (`StreamEnds`, `FetchClose`, `Miss`);
* the manifest hash of a live window or standalone replay is not the one the
  verifier recomputes (`ReplaysVerify`), though `verifier/recompute.py` calls it
  the exact anchored payload; an anchor that raises leaves a run without a card;
* the odd leaf of a Merkle level is doubled, so lists of different length can
  have equal roots (`MerkleBinds` states what is bound);
* the replay of a checkpoint run repeats its decisions only if each call ended
  within a tick (`PromptRunsReplay`), against the "byte-for-byte" of
  `directional_agent_adapters.py:493`.

Packs and arena:

* appending after a torn line buries it (`TornTailIsBuried`); the capture's
  deadline is looked at only when a line arrives (`capture_chain.py:500`); the
  content hash covers names and bytes, not which leg a file is listed for;
* a horizon past the end of the tape is scored against the last fair value
  (`EveryQuoteIsScored`), against "never impute" of `scorer.py:85`;
* a fair value of zero under a naive quote voids the arena (`markout.py:75`); a
  price is rounded after its bounds were checked (`agents.py:63`).

## 5. Proofs

50 theorems in eight modules, each for every value of the constants that satisfies
the assumptions named with it; the first of a module is its type invariant, where
there is one. Every safety property that the passing runs check has one. A property
is seldom inductive; what had to be added to it is the argument.

**`MmExecutionProofs`** (`SessionAssumption`, `CallAssumption`: attempts are finite,
constants have their types). The invariants build on each other.

* `PostingInv`, for `PostingSafe`, `DurableSafe` and `FreezeSafe`: a call past its
  reservation is alone in owning the `PENDING` row of its attempt (`CallsOwnRows`)
  and has posted nothing before its post (`PostedOnlyAfter`).
* `ExposureInv`, for `ExposureSafe` and `ReplaceSafe`: an order in transit keeps
  its row unresolved (`VenueMatchesWires`), and a call is the only exposure of its
  session from its clean startup read on (`ClearToPost`).
* `RowsWithinCaps`, for `OrderCapSafe`: rows, not only posted orders, are within
  the caps.
* `EvidenceInv`, for `EvidenceSafe`: a resolution about to be settled is backed by
  what the venue shows, and goes on being (`ResolutionBacked`); only a posted order
  resolves.
* `ReportInv`, for `ReportSafe`: a call knows whether it has sent, and what the
  others do leaves that true.
* `LateInv`, for `LateSafe`: below the cap no late order is counted, and once one is
  no call of its session is on its way to a post (`LateTracked`).
* `ToolImplementsDesk`: `Submit` and `AckLost` are the desk's `Place`, the venue's
  moves close orders, all else stutters.

**`EmergencyStopProofs`** (`StopAssumption`). `StopTypeCorrect`, `SweepSafe` and
`LossBreachSafe`. Stops are ordered (`StopsOrdered`) and from the sweep of the stop
in force on nothing but its racers is in flight or at rest (`NoneBehindTheSweep`).

**`PlanBridgeProofs`** (`PlanAssumption`: any plans). `BridgeTypeCorrect`, `RunSafe`,
`ClaimSafe`, `KillSafe`, `DrainSafe`, `EscapeSafe`. `BridgeInv` ties what was posted
to the leg at hand and to what its future will say; the last two add that no leg is
cancelled under its worker while the loop lives.

**`AgentDeployProofs`** (`ProvisioningAssumption`, `DeployAssumption`, and that `None`
is no task, number or row). Any number of requests, tasks, kills and crashes.

* `WalletInv`, for `WalletSafe`, `RecordSafe` and `CustodySafe`: each task of the
  saga knows of the attempt what its place requires (`SagaKnows`); the provider has
  seen the key only after the claim and has made no wallet before (`KeyUse`); a
  persisted binding has its record (`BindingRecorded`). Other tasks keep all of it
  because rows only go forward. A launch past the gate either found custody disabled
  or comes out of a saga that saw the record; `RecordSafe` assumes nothing of the
  settings.
* `LaunchInv`, for `LeaseSafe`, `VettingSafe` and `KillAnswered`: which rows there
  are for a request and its launch, and whose the lease is (`LaunchKnows`). A lease
  is taken once, for good.

**`CompetitionProofs`** (`RequestsAssumption`, `AgentsAssumption`,
`ScenariosAssumption`, `QueueAssumption`). Any number of start, arena and approval
requests.

* `LogInv`, for `LogSafe` and `SealSafe`: the log belongs to the run of its first
  event; one start writes evidence at a time; a batch that the store accepts and
  that begins at or before the end of the log continues it, since the store refuses
  only a number that is taken; approvals find records of the owning run only.
* `LaneInv`, for `LaneSafe`: a lane has counted its orders, and in a live run its
  breaker has counted the failures in a row and is closed only below its threshold.
* `ClientInv`, for `SpectatorSafe`: what the spectator got is gapless in evidence
  (`GotFacts`), a replay continues it (`ReplayFacts`), the queue is in order
  (`QueueFacts`), and evidence beyond both waits, is not broadcast yet, or was lost
  together with everything after it (`Covered`).

**`QuoteLoopProofs`** (`ConfigIsValid`: what the code's own validation accepts;
`FeedAssumption`, `UnitsAssumption`, `NoneAssumption`). Any feed, any number of
crashes.

* `LoopInv`, for `DwellSafe`: the tape's numbers increase and an open recorder is
  past them (`TapeInv`); no open session is behind a generation on its tape
  (`GenerationsInv`); the guard has seen no generation past that of the newest fair
  value (`CacheInv`); the last tick is behind clock and counter (`TickInv`). So every
  tick passes the watermarks, each arm notes it, and an arm that was shown a
  disturbance carries its dwell until it is served (`ArmsInv`).
* `SealInv`, for `ReplaySafe`: an open recorder remembers the rows of its tape. A
  resumed one sorts them by number, and that is the order they are in
  (`SortedTape`), gap lines included.
* `InStep`, for `GuardSafe`: both arms remember the same venue, so they read the
  same row and the same prices, and the guard can turn a quote only into a refusal
  or into one of its legs (`GuardedQuotesLess`). The comparison is of any two states
  that agree on the venue, whatever the guarded arm learnt of fair values.

**`LiveRunProofs`** (`LiveRunAssumption`: windows that their own validation accepts;
`AgentsAssumption`: the agents of a run differ; `AbsentAssumption`: `None` is no
number, end rule or reason). Any records, agents, replies and windows.

* `LiveInv` is the invariant (`RunLaidOut`). Until a run is sealed, a function says
  where in the log the tick of each snapshot stands; the lines of the agents follow it
  and every decision has its line (`Laid`, `Lined`). A sink that raises leaves a number
  that is given out again (`Spoilt`), which the evidence hash refuses, so no such run is
  ever sealed; a sealed run is what `finalize` makes of the run at hand.
* For `CloseSafe` it also says that a run whose CLV may be ranked ends with a snapshot
  of what the provider had last said, when asked, of every market that was decided on
  (`Closed`, over `told`, which nothing after the fetch changes): the
  rule is given up whenever the stream was interrupted or the fetched close lacks a
  market. A ranked row is one that nothing relabelled, and its price is that
  snapshot's.
* For `CardSafe` the layout is what lets the verifier read back what the runner scored
  from: sorted by tick its states are the snapshots, in the order of the numbers each
  decision falls to its own tick and agent, and the configuration is the one that was
  sealed (`Reread`). The ranking is a function of the sealed rows, so it need not be
  unfolded; the type of a `LiveRun` state is not stated by itself.

**`OrderSigningProofs`** is about functions, not states: the pure steps on either side
of a post, for every input. A hash is the value it hashes, so these theorems assume
hash functions without collisions, and that `None` is none of the values it is
compared with.

* `PostedIsCommitted`, `RefusedIsNotPosted`, `VenueGetsTheOrder`: the commitment sees
  every field that is sent (`CommitmentSeesAll`), so a body that passes the byte check
  is the compiled one, and the compiler and the port carry each field of the desk's
  order into body and typed data (`CompiledFields`, `PortFields`). The value that
  stands for the address of a wrong signature is assumed not to be the wallet's.
* `SaltsKeepKeysApart`: two orders with different salts have different join keys. That
  a port never reuses a salt is `VenueGetsTheOrder`; two ports of one process may.
* `AmountsNeverExceedTheOrder` goes through `TickRounding`, for each tick the venue
  has, and covers both values a float may fall to. `SellIsBuyOfTheOtherToken` needs
  that the complement of a rounded price is on the tick (`ComplementOnTick`).
* `OwnOrdersNeverCross`: comparing the best bid with the best ask is comparing all of
  them, since a set of prices has extremes (`HasLeast`, `HasGreatest`, by counting
  the smaller ones).
* `SilenceNeverReleases`: the verdict of the reconciler and what is frozen on it.
* `ArmedOnlyOnRecord`, `InterlockIsAllOrNothing`, `ReceiptVouchesOnce`,
  `BoundInterlockArms`: what the arming chain lets through has its row, what is not
  complete, or has no store to be recorded in, leaves none, a row vouches for one
  session and attempt, and the chain is not so strict that what the facade bound
  cannot pass it.

Only model-checked:

* liveness under fairness, out of the prover's reach: `UncertainSubmitEnds`,
  `RunEnds`, `LaunchSettles`;
* the assumptions of §3 about functions and folds, on small inputs: what a fold
  computes for every input is induction over data.

## 6. Plan

Done: the money path, the emergency stop, the plan bridge, deployment and
provisioning, competition with lane and policy, and the quote loop with strategy
core and recorder, and live runs with law and verifier, each with its proofs;
stores; boards; agents, replay packs, maker arena; arming and loss accounting; signing and
the live submit; lost acknowledgements; book source, capture sessions and lead
probes.

Left: store operations as several transactions, for the lost update of
`store.py:2720` and the id order of `store.py:3107`.

## 7. Not modelled

* Hashing, elliptic curves and HMAC, the byte layout of the wire and the HTTP
  calls to venue and wallet provider: ideal values and answers in `OrderSigning`.
* The web frontend, the read-only HTTP routes and request parsing: no state the
  system relies on.
* Backtests, the other probes, pollers and archive tools: offline studies and I/O.
* The provider's authentication and the backfill tool.
* Connection handling and DDL text of the store (its keys and references are
  modelled), the agent-OS service's process supervision, entry points.
* The memo transaction of the anchor and the sealed files of the arena, which
  appear as answers and values.
* The real-valued price and score arithmetic below the units of §2.

The components list of `PROJECT.json` gives the status of each part.
