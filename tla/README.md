# Verification of Hermes Personal Options

TLA+ models of Hermes: the gateway and its gates, order routing, the submit path, the audit
store, the broker boundary, the operator's control plane and local terminal, the shadow and
replay pipelines, position reconciliation and the views read back from the store. They are
checked with TLC on small deployments; every safety property and both refinements are also
proved with TLAPS, for every deployment.

## 1. The system and its inventory

Hermes turns a trading candidate into a paper order. A deterministic gateway approves or
rejects a request, a router mints an order ticket, a human confirms it, and a broker
adapter executes it. Everything that happens is a row of an append-only SQLite store; the
operator acts through a control plane of audited commands. Several operating-system
processes may share the store file: a paper run, a second paper run, `python -m ops`.

| Component | State | Operations | Interacts with |
|---|---|---|---|
| Audit store (`storage/`) | rows in `seq` order, UNIQUE `idempotency_key` | `append`, `record_submit_attempt`, `unresolved_open_orders`, `export_jsonl` | written and read by all below |
| Submission minting (`gateway/broker_submission.py`) | none | `mint_broker_submit_intent`, `mint_execution_report` | cycle, control plane |
| Broker adapters (`brokers/`) | orders by key | `submit_order`, `cancel_order`, `get_open_orders`, `get_positions` | cycle, control plane |
| Paper cycle (`services/paper_cycle.py`) | locals of one run, counters | `run_paper_cycle` | gateway, router, confirmer, store, broker |
| Control plane (`ops/control_plane.py`) | none of its own: store and broker | status/show, halt, resume, cancel, flatten, export | store, broker |
| Command line (`ops/commands.py`) | none | parse, confirm, dispatch, audit refusals | control plane |
| Paper operator (`ops/paper_operator.py`) | the code the human must type, the drill's progress | `submit`, `cancel-drill`, `inspect`, `recovery` | cycle, control plane |
| Gateway and gates (`gateway/gateway.py`, `gates.py`, `request.py`, `schemas/`) | none | `validate` | cycle, shadow cycle, replay |
| Order routing (`gateway/order_routing.py`) | none | `decide_order_route`, `mint_order_ticket` | cycle, shadow cycle, replay |
| Position reconciliation (`gateway/reconciliation.py`) | none | snapshots, protection, `reconcile_positions` | store, through its callers |
| Shadow cycle (`services/shadow_cycle.py`, `__main__.py`) | rows, the heartbeat file | `run_shadow_cycle`, `write_heartbeat` | gateway, router, store |
| Replay (`replay/`) | rows, results of a suite | `run_scenarios` | strategy, gateway, router, fakes, store |
| Strategies and market data (`strategies/`, `data/`) | none | `collect_inputs`, `generate` | replay |
| Configuration (`config/app_config.py`) | none | `load_app_config` | shadow cycle, paper cycle |
| Reports and notifications (`reports/`, `ops/notifications.py`) | none; a persisted report is a row | `build_daily_report`, `build_risk_report`, `persist_report` | store |
| Relay (`ops/agent_os_relay.py`, `ops/api.py`, `storage/sqlite_readonly.py`) | none | `GET /status` and three more reads | store, read-only |
| Agents (`agents/`) | none | read-only tools, allow-lists | store, reports |

What is hard to get right here, and hard to test:

- **Crashes.** The attempt is persisted before the broker call and the report after it; a
  process can die between any two of these, and the in-memory brokers die with it.
- **Ambiguous answers.** A broker may raise although it took or cancelled the order.
- **Several processes.** Two cycles on the same ticket, two cancels of the same order, a
  cancel while a cycle is still waiting to store its report, a halt while a cycle runs.
- **Stale values.** A confirmation handed over for a repriced intent with the same key; an
  open-order snapshot authenticated before, and used after, the broker moved on.
- **Partial failure.** A cancel of several orders that fails half way; an insert that raises
  in the middle of a batch.
- **Edges.** Some thirty limits of the gates, in cents, truncated milliseconds and Chicago
  minutes across the days the clocks change, checked again by the intent an approval
  constructs.
- **Two orders of time.** A row is stamped when its writer begins and numbered when it is
  appended; readers go by one or by the other.

`hazards` in `PROJECT.json` lists each at its line with the property that would catch it.

What makes each component correct: the store never accepts a key twice and recovery misses
no open order; the broker boundary executes only what was confirmed; the cycle executes a
key at most once and leaves every failure visible; the control plane never rewrites fill
evidence, never reopens a closed order, audits every command its store can take a row of; the gateway approves
only what is tradable; a pipeline leaves a verdict for every request; a replay result rests
on rows; a report cannot be set back by a late row; a view's parts agree.

## 2. Modules

| Module | Models | How state and actions correspond |
|---|---|---|
| `OrderIntent` | intents, keys, lifecycle, report coherence | values only; a ticket stands for its SHA-256 |
| `AuditStore` | `storage/` | `log[i]` is the row with `seq` i; a committed insert is one step |
| `PaperBroker` | `brokers/` | `book[b][k]` the order adapter b holds for key k, `placed[k]` how many it ever took on (history) |
| `PaperCycle` | `run_paper_cycle` | `pc[p]` the next step of process p; one action per append, human answer or broker call; `granted` the intents a human confirmed (history) |
| `ControlPlane` | operator commands and the command line | `snap`, `todo`, `target` the locals of a cancel; `audits` the artifacts of the current command (history) |
| `PaperTrading` | the whole deployment | composes the above; crashes, remote fills, the bounds, all properties, the inductive invariant |
| `OrderLedger` | what the submit path promises | abstract: standing, placed, exposure per key; `ControlPlane` says how store and brokers look from there (`Ledger`); `PaperTrading` and `LocalOperator` implement it |
| `PaperTradingClaims` | what a comment says of the kill switch and the code does not do | one refuted property |
| `MCPaperTrading` | small deployments for TLC | definitions for the `.cfg` files |
| `PaperTradingProofs`, `PaperTradingSafety` | the proofs about the core; the deployment's refinement of `OrderLedger` is in the second | |
| `ShadowCycleProofs`, `ReplayProofs`, `ReportingProofs`, `LocalOperatorProofs`, `PositionProofs` | the proofs about the module each is named after | |
| `Induction` | induction on the naturals, and what a loop written as a recursive function computes | lemmas only |
| `GatewayRequest` | what the request and its schemas accept | a request is a record; money in cents, prices and deltas in their smallest unit, instants in ticks with the offset they are written in; Chicago time with its two clock changes (`DstStart`, `DstEnd`) |
| `Gateway` | the gates and `validate` | a gate is the set of codes it returns; approval is the tokens and the intent |
| `OrderRouting` | `decide_order_route`, `mint_order_ticket`, ticket and policy schemas | values only |
| `AppConfig` | `load_app_config` | an environment is a function from keys to the texts the parser tells apart |
| `ShadowCycle` | `run_shadow_cycle` and the service's heartbeat | extends gateway, routing and configuration; one action per insert, `Fail` when one raises; `trail` the rows; `session` the cycles started on one store, each with its environment, routing state and batch |
| `CycleVerdicts` | what the shadow cycle promises | abstract: the verdicts of the running cycle and how it stands; `ShadowCycle` implements it, reading both off its rows and `pc` |
| `ShadowClaims`, `SampleRequests`, `MCShadow` | a refuted sentence; a good request, every change of it by one unit, the sessions | |
| `Strategy` | the catastrophe strategy over the fixture adapters | values only |
| `Replay` | `run_scenarios` | composes `Strategy`, the gateway, `PaperBroker` and `AuditStore`; `Kill` and `Rerun` on the same store; `session` the suites replayed on it |
| `MCReplay` | scenarios and suites | |
| `PositionReconciliation`, `MCPositions` | leg tallies, protection, snapshots, comparison | each call is one step on an arbitrary input of the `desk` |
| `LocalOperator`, `MCOperator` | `ops/paper_operator.py` | extends `ControlPlane`: every terminal runs the cycle and the cancel command of the core, `codes` and `accepted` are history |
| `Reporting` | reports, severities, relay, and commands as stamping writers | `log[i].created_at` the domain time, `i` the seq; `view` the relay's answer as far as read, `report` the report built and not yet persisted; `setting` who is at work around the store, with the bounds |
| `ReportingClaims`, `MCReporting` | a refuted sentence; the settings | |

A process is sequential: it is idle, in a cycle, or in a command, and anything another
process does may fall between two of its steps. `Crash(p)` empties the locals of `p` and
the orders of an in-memory fake that belongs to it; the store and remote adapters keep
theirs. A normal exit of a process is the same step taken when it is idle.

Some modelling decisions need their reason.

- *The remote adapter is external.* The repository ships only in-memory fakes, but the
  cycle and the control plane are written against the `BrokerAdapter` interface and handle
  `BrokerError` from any implementation. `"remote"` is such an implementation: it keeps one
  order per idempotency key and returns it when asked again (as the fakes do with
  `FAKE-{idempotency_key}`), keeps orders across a crash, is shared by processes, fills on
  its own, may reject, and may raise with or without having acted. It does not fill while
  answering a cancel: a fill is a step of its own that may come just before.
- *An exception that leaves a job* (a store that cannot be written, a rejected route, a
  confirmer that raises) ends the job with nothing further appended. Where the code catches
  it (the cancel and flatten commands) the handler is modelled, and so is a handler that
  raises in its turn: the artifact that closes a cancel or a flatten goes to the same store,
  outside any `try` (`AuditRaises`), and leaves the command with its cancels done and nothing
  on record of it (`CommandRaises`). So do a switch row and the command line's second REJECT
  (`FollowUpRaises`), after an artifact that is there. A store that raises on a command's
  first row, or on a read, leaves everything as it was or ends where one of these does.
- *Ages, not timestamps.* What the gates read of the four market timestamps is how long before
  `as_of` they lie, so the model holds that, in microseconds, the resolution of a `datetime`.
  `age_ms` converts as `_age_ms` does: it cuts to the millisecond, after a product of floats
  that is a little short for some values. Of those a limit could tell apart only 1001 ms is
  one, and it reads as 1000 (every microsecond up to 12 s was compared in Python).
- *The core keeps `approved` and `routable` as flags of a work item.* They are the verdicts
  of `Gateway` and `OrderRouting`, which `ShadowCycle` and `Replay` compose in full; putting
  30 limits into the interleavings of two processes would multiply states and not cases.
- *`Reporting` has a store of its own,* with times and artifact ids. The core tells no two
  rows apart by them, and its proofs would carry them for nothing.
- *Rows no program in `src/` writes* (position, reconciliation and human-required rows,
  which the schema and the reports know) are inputs of `Record`, at any time up to now.

## 3. What TLC checks

Deadlock is checked in every run but `positions`, which applies pure functions once to each
input and then has nothing left to do. Elsewhere the only state allowed to stop is the one
where every job has ended and the bound on jobs is used up (`Rest`).

| Run | Deployment and bounds | Checks |
|---|---|---|
| `retry` | two processes with fakes of their own (one fills, one works orders) and two prices for one ticket, beside `python -m ops`; every command, one crash | `AtMostOnce`, `PlacedAsConfirmed`, `SwitchAudited` |
| `recovery` | two processes at one remote adapter that may fail for ever, cycle/cancel/flatten/halt, a crash, a remote fill; with fairness | `IndInv`, `NoOpenOrderLost`, `ImplementsLedger`, `JobsEnd` |
| `cancel` | two processes at one remote adapter, three jobs, two contracts, a remote fill; symmetric in the processes | `EvidencePreserved`, `TerminalIsFinal` |
| `batches` | one process, batches of two items that end in every way an item can (a MARKET ticket over the size limit, a repriced duplicate, no price, not approved, not routable), remote adapter, a crash, rows the store refuses | `TypeOK`, `FailureSurfaced`, `CommandAudited` |
| `shadow` | sessions: one request with every limit met and missed by one unit and every pair of such changes; every routing state; every environment over the keys and text classes; two cycles of up to two requests under three environments and three routing states. Every insert may raise; with fairness | `TypeOK`, `OutcomeFollows`, `HeartbeatTruthful`, `ApprovedIsTradable`, `ExpiresAsClaimed`, `NoInternalContradiction`, `ArmedMeansPaper`, `TicketSafe`, `ImplementsVerdicts`, `CycleEnds` |
| `replay` | sessions: pairs of scenarios over seven brokers; rows of three and four gains and losses in every order; suites killed anywhere and run again on their store; with fairness | `TypeOK`, `OutcomeEvidenced`, `UnresolvedAgrees`, `PrefilterAgrees`, `AtMostOneOrder`, `DrawdownIsWorstFall`, `SuiteEnds` |
| `positions` | desks: all books of up to four put lots over three strikes and mixed ones; all pairs of books of up to two lots, with the reports behind them | `ProtectionExact`, `VerdictExact` |
| `drill` | two terminals, one submitting and one drilling, crashes, wrong and copied codes; with fairness | `ConfirmationsFresh`, `DrillProof`, `ImplementsLedger`, `InvocationsEnd` |
| `views` | settings: halt against resume from two processes with late rows, two instants, four rows; two reports of windows that share an instant with other rows in between; four reads of `GET /status` between the appends and crashes of two processes | `TypeInvariant`, `ReportReproducible`, `RelayCoherent`, `SwitchTraceable`, `DelayedAppendKeepsState` |
| `halted`, `zero_dte`, `switch_views` | the smallest deployments in which a sentence of the repository fails | below |

`shadow`, `replay`, `positions` and `views` each ask several questions of one component. A
variable chosen by `Init` and never changed (`session`, `desk`, `setting`) selects the
instance a behaviour belongs to, so that the state spaces add up and do not multiply.

`ApprovedIsTradable`, `ProtectionExact`, `VerdictExact` and `DrawdownIsWorstFall` compare the
code's algorithm with a definition written apart from it: tradability as a conjunction over
the request, protection as the existence of an assignment that gives every short contract a long
contract of its own, a verdict as equality of what is held contract by contract, drawdown as the worst pair of points of the curve.

Two of them say what the code gives away. `ApprovedIsTradable` grants prices the millisecond
that truncation adds to the documented limits: an option quote of up to 1.001 s is approved,
an underlying price of less than 0.501 s. The samples lie on both sides of each limit, at the
microsecond. `ExpiresAsClaimed` compares days to expiry, which the code takes between two
written dates at whatever offsets their values carry, with midnights in Chicago, and says
between which offsets the two agree: with an `as_of` written east of UTC+5 an approval may
claim a day too few. Its samples are written from UTC-12 to UTC+5, expire in the morning and in
the afternoon, and lie across the days the clocks change.

`CommandAudited` is about the ends a command reaches on its own. It does not hold of a command
whose closing row the store refuses, and says so; that such a command still ends is `JobsEnd`,
and that what it cancelled stays as recorded is `EvidencePreserved` and `NoOpenOrderLost`,
which are checked with that step among the others.

The bounds (`MaxJobs`, `MaxCrashes`, `MaxRemoteFills`, `Menu`, and the sets in each `.cfg`)
cap how much happens, never how it interleaves. Two processes and one key are enough for a
race on a key, two keys for a batch that fails half way, two contracts for a partial fill,
one crash for every crash point, three jobs for a cycle, a retry and a cancel. In the pure
parts the inputs are chosen at the limits: two cycles for a heartbeat left by an earlier
one, two runs for a replay of its own store, four lots for two shorts that compete for one
long, four rows for two artifacts and the two switch states appended in the other order.

Symmetry is used in `cancel` and `views`, where no constant tells the two processes apart
(`views` has the setting with one operator for each of them) and the temporal property is an
action property and not a liveness one.

**Fairness.** `FairSpec` assumes weak fairness of each process's own steps: a running Python
process continues. Waiting for the confirmer is excluded (a human may never answer), and
nothing is assumed of starting jobs, crashing or remote fills. `JobsEnd` therefore says a
job ends or is waiting for a human. The same assumption, one process at a time, is that of
`ShadowCycle` (the cycle's own steps; not that an insert raises), `Replay` (the runner's; not
that it is killed or started again) and `LocalOperator` (a terminal's own steps; not what its
human types).

### Where text and code disagree

Three runs refute a sentence of the repository; each is a finding in `PROJECT.json`.

- `halted`: "True when new entries are halted" (`schemas/kill_switch_state.py:42`) — the paper
  cycle never reads the switch.
- `zero_dte`: "uses the DERIVED dte for all risk logic" (`gateway/gates.py:110`) — the 0-DTE
  caps go by a flag of the concentration snapshot.
- `switch_views`: the relay projects the switch "exactly like" the reports
  (`ops/agent_os_relay.py:17`) — the one goes by seq and the other by time, and a halt
  overtaken by a resume is HALTED in one and ARMED in the other.

Further disagreements met while modelling. The model behaves as the code does; no run is
about them.

- "Every command writes exactly one audit event" (`ops/control_plane.py:15`): a refused broker
  command on the command line writes two; a failing `export-audit` none, nor a cancel or a
  flatten whose closing row the store refuses, for all that the handlers "preserve the
  command-audit invariant" (`:617`).
- Unresolved orders "must be reconciled before new activity" (`storage/models.py:124`): the
  cycle does not look.
- The runbook resolves unresolved attempts with `cancel-open-orders`
  (`docs/PHASE_12_PAPER_TRADING_RUNBOOK.md:95`): the command sees only what the broker reports
  as open, so an attempt that never arrived is resolved by no command.
- "Collect ALL failing ReasonCodes" (`gateway/gateway.py:6`): two schemas return their first
  violation only.
- "0-DTE through 5-DTE only" (`CONSTITUTION.md:106`): no gate bounds the DTE from above; and
  the loss "remains inside ... portfolio heat" (`:108`): nothing relates the heat check to the
  candidate.
- "Thresholds (Constitution" section 10: 1000 ms and 500 ms
  (`schemas/broker_data_snapshot.py:23`): ages are cut to whole milliseconds first, so prices
  up to a millisecond older pass.
- "timezone-aware UTC only" (`schemas/contract_metadata.py:7`): every offset is accepted and
  days are counted in it.
- "Every decision, approval, and rejection is audited" (`services/shadow_cycle.py:14`): a
  refused route leaves the cycle as an exception.
- "never a crash out of the runner" (`replay/runner.py:18`): schema errors and an attempt
  already on record do leave it.
- Unresolved outcomes are "non-terminal" (`replay/results.py:62`): a REJECTED or CANCELLED
  answer is reported WORKING, which is why `UnresolvedAgrees` claims one direction only of a
  remote broker.
- Artifact ids are "collision-free" (`ops/control_plane.py:264`): counting and appending are
  two statements, so two processes can mint one id. `SwitchTraceable` says what survives it.

## 4. What TLAPS proves

Every theorem is about the specification TLC runs, for every value of the constants: any
number of processes, brokers, tickets, attempts and prices, every assignment of adapters,
every batch, session or setting, and every bound. The `ASSUME`s of the modules are the only
assumptions, and TLC evaluates them in every run.

| Module | Theorem | Statement: `Spec =>` |
|---|---|---|
| `PaperTradingProofs` | `TypeCorrect`, `Inductive` | `[](TypeOK /\ Shape)`, `[]IndInv` |
| | `AtMostOnceHolds`, `NoOpenOrderLostHolds` | `[]AtMostOnce`, `[]NoOpenOrderLost` |
| `PaperTradingSafety` | `Refinement`, `TerminalIsFinalHolds` | `ImplementsLedger`, `TerminalIsFinal` |
| | `LedgerIsSafe` | `[]LedgerSafe`, of `LedgerSpec` |
| | `DeploymentIsSafe` | `[]Ledger!LedgerSafe`, of the deployment |
| | `SafetyInductive` | `[](IndInv /\ SafetyInv)` |
| | `PlacedAsConfirmedHolds`, `EvidencePreservedHolds` | `[]PlacedAsConfirmed`, `[]EvidencePreserved` |
| | `SwitchAuditedHolds`, `FailureSurfacedHolds` | `[]SwitchAudited`, `[]FailureSurfaced` |
| | `CommandAuditedHolds` | `CommandAudited` |
| `ShadowCycleProofs` | `ShadowInductive`, `ShadowTypeOK` | `[]ShadowInv`, `[]TypeOK` |
| | `OutcomeFollowsHolds`, `HeartbeatTruthfulHolds` | `[]OutcomeFollows`, `[]HeartbeatTruthful` |
| | `ApprovedIsTradableHolds`, `NoInternalContradictionHolds` | `[]ApprovedIsTradable`, `[]NoInternalContradiction` |
| | `ExpiresAsClaimedHolds` | `[]ExpiresAsClaimed` |
| | `ArmedMeansPaperHolds`, `TicketSafeHolds` | `[]ArmedMeansPaper`, `TicketSafe` |
| | `VerdictRefinement`, `InTurnHolds` | `ImplementsVerdicts`, `[]Verdicts!InTurn` |
| `ReportingProofs` | `TypesHold` | `[](Typed /\ TypeInvariant)` |
| | `ReportReproducibleHolds`, `RelayCoherentHolds` | `[]ReportReproducible`, `[]RelayCoherent` |
| | `SwitchTraceableHolds`, `DelayedAppendKeepsStateHolds` | `[]SwitchTraceable`, `DelayedAppendKeepsState` |
| `ReplayProofs` | `ReplayInductive`, `ReplayTypeOK` | `[]ReplayInv`, `[]TypeOK` |
| | `AtMostOneOrderHolds`, `OutcomeEvidencedHolds` | `[]AtMostOneOrder`, `[]OutcomeEvidenced` |
| | `UnresolvedAgreesHolds`, `PrefilterAgreesHolds` | `[]UnresolvedAgrees`, `[]PrefilterAgrees` |
| | `DrawdownIsWorstFallHolds` | `[]DrawdownIsWorstFall` |
| `LocalOperatorProofs` | `OperatorInductive` | `[]OperatorInv` |
| | `ConfirmationsFreshHolds`, `DrillProofHolds` | `[]ConfirmationsFresh`, `[]DrillProof` |
| | `OperatorRefinement` | `ImplementsLedger`, of the terminals |
| `PositionProofs` | `ProtectionExactHolds`, `VerdictExactHolds` | `[]ProtectionExact`, `[]VerdictExact` |

### The arguments

**Who owns a key (`IndInv`).** `AtMostOnce` alone is not inductive: that a broker call places
the first order of its key depends on the attempt row being this process's own and nobody
else having used it. `IndInv` says who owns a key meanwhile. Between its attempt and the
broker call nothing is placed or reported for the key (`AttemptInFlight`); between the answer
and its report the order is placed, unreported, and a terminal answer stays true
(`AnswerInFlight`); only one process is in that window (`KeyOwned`); what is placed is on
record and what is reported was placed (`PlacedOnRecord`); one broker at most holds a key
(`HeldOnce`); a closed key is not executable anywhere (`ClosedNotExposed`); and a cancel
only works on reported orders, exclusively so between the confirmed cancel and its report
(`CancelInFlight`) — this is what the code's authentication against the persisted report
buys: without it a cancel could close an order whose cycle has yet to report it, and that
late report would reopen it. The proof splits `Next` into the kinds of change it can make
to a key (nothing, an attempt, a placement, an answer, a confirmed cancel, a retirement)
and shows each preserves each conjunct. The refinement reuses the same split: each kind is
a step of `OrderLedger`. What `OrderLedger` promises (`LedgerSafe`) is an easy invariant of
that small specification; `DeploymentIsSafe` carries it back to the deployment.

**What the rows owe each other (`SafetyInv`, on top of `IndInv`).**

- `PlacedAsConfirmed` needs the time before the order exists: from the confirmation on, the
  token in hand was granted by a human, and once the attempt is on record its row carries the
  price of the intent in hand (`ConfirmedInFlight`).
- `EvidencePreserved` needs what a cancel carries from its snapshot to its report: the fill
  it holds is the fill every report of the order shows (`EvidenceHeld`). That it cannot be
  outdated by then is `CancelInFlight`.
- `SwitchAudited` counts. The artifact is written first, so in between there are more
  artifacts than rows; `SwitchesPaired` lets the artifacts pay for the switch rows written
  and for those still owed, one per process at that step. A crash only forgives a debt.
- `FailureSurfaced` compares a counter of one process with a store everybody writes. What is
  counted is abandoned: attempted, never reported, in nobody's hands (`FailuresKept`); the
  set of such keys only grows, as only the owner of a key could report it first.

- `CommandAudited` follows from the last step of the command: either it writes the artifact
  itself, or the artifact was there before (`ArtifactHeld`), or it is the exception of a
  closing row the store refused, which the property leaves out.

**The shadow cycle (`ShadowInv`).** Step by step, the last rows of the store are those of the
request at work (`LastRows`), every row was written by a cycle no later than the running one
(`RowsSound`), the counters count rows stamped with this cycle, and the heartbeat names a
cycle that is over, so that no later row is counted against it (`Counted`).
`ApprovedIsTradable` and `NoInternalContradiction` are facts about the gates alone: each
gate that returns no code gives one conjunct of the tradable definition, and the validator of
the intent repeats only what a gate already checked. `ExpiresAsClaimed` follows from the
window: from 09:45 to 13:00 in Chicago, midnight is at least 585 minutes back and more than
660 ahead, and an offset from UTC-12 to UTC+5 moves the clock at most 420 minutes back and
660 ahead, so that the written date is the date in Chicago (`ChicagoDate`).

**The shadow cycle's promise (`Turn`).** `CycleVerdicts` knows a list of verdicts and whether
the cycle runs, is done or failed; the mapping reads the list off the rows of the store, in
their order, leaving out the rows of other cycles (`DecidedIn`). The invariant needed is
where the cycle stands in its batch: the verdicts on record, the request at work and what is
left make up the batch, and what is left is its end. Then an insert of a verdict is `Decide`,
the heartbeat is `Complete`, everything that raises is `Abort`, the next cycle on the store
is `Start`, as no row yet carries its number, and all else is a stutter. That the list grows
by exactly the row inserted, and is empty for a number no row carries, is induction over the
rows.

**Reports and relay.** Everything rests on the log growing only at its end. A built report
reproduces itself on the prefix it was loaded from, also while it waits to be persisted
(`ReportSound`). A status answer is tied to the reads so far: each part holds at least what
the earlier part counted (`ViewSound`). `SwitchTraceable` counts as `SwitchesPaired` does,
per id and instant (`SwitchSound`), which is why it survives two processes minting one id.
`RelayCoherent` says that the breakdown has, type by type, every event counted in the total,
which is stronger than a comparison of the two sums.

**Replay (`ReplayInv`).** The same ownership question with one process that may be killed and
started again on a store that remembers, beside fakes that do not. No two results share a row
(`Claims`); before the broker call the key is new, because the attempt was accepted by the
store and a key the store has refused ends the suite (`Orders`); what the scenario at work
has on record so far is its own (`Own`); and a finished result has one report at most for its
key, which says what the result says (`AllSound`). A later scenario cannot disturb it, since
its own key is another one.

**Local operator (`OperatorInv`).** All terminals submit under one key, so the argument is
which terminal has it: the one whose attempt the store accepted (`Owned`), until it crashes,
and then no one again. Codes are numbered as they are displayed and each is on one screen
(`CodesFresh`). For `DrillProof`, the drill's order is never out of sight: it is open at the
drill's own broker, then in the snapshot, in the list to cancel or the target of the pending
report, and at last cancelled on record (`Drilling`); as it is the only key, nothing else
can be unresolved when the result is printed.

**The terminals and the ledger (`LedgerInv`, on top of `OperatorInv`).** The refinement is the
deployment's, with another reason for each step: a terminal's broker is its own and dies with
it, so exposure also ends when an invocation does, while the record stays open for whoever
reads the store next. `LedgerInv` adds to the ownership of the key what the owner holds
between two steps: before the report, an order that was placed and never reported, and that
no broker can still execute when the answer to be reported is terminal; in a cancel, the one
order of the snapshot, authenticated by an open report before the broker is asked, and no
longer executable when its report is due. Who does not own the key neither reports nor
places, so it disturbs none of this.

**Induction.** Some results are about what a loop computes, on inputs of any length. The
library's induction theorems take a predicate as a parameter, which the provers at hand
cannot instantiate; `Induction` states induction for a *set* of numbers, from the least
element of a set that is not empty, and defines a loop's values as the function whose value
at 0 is the start and at n the body applied to the value at n - 1 (`LoopValues`). A loop is
then a list of values, and a loop invariant a set of positions.

**Drawdown (`EquityInv`, on top of `ReplayInv`).** The loop keeps a total, a peak and the worst
drawdown. After n results the peak is the largest of the totals so far and is one of them,
and the drawdown is a fall between two of them that no other exceeds. For this the results
must have numbers in them, which is an invariant of its own: a result is computed from a
fill whose order is that of the intent submitted.

**Positions.** `GreedyExact` is the heart: the allocation leaves no short unprotected exactly
when an assignment exists that gives every short contract a protective long contract of its
own. Both sides are compared with a count (`Coverable`): at every strike, no more contracts
of one underlying, expiration and type are short at or beyond it than are long beyond it.

- An assignment implies the count, since it maps the former into the latter without
  repetition (`CoveredCounts`).
- The count implies that the loop covers every short. The shorts come most constrained first,
  so a short that came earlier is beyond a later one or shares no long with it
  (`LongsNested`). The longs beyond a short still to come have then lost only what the shorts
  beyond it took (`Balanced`), and what remains covers it.
- A loop that covers every short yields an assignment: it is built along the loop, each short
  taking the units the longs lost in its turn (`Assigns`, `Spent`, `AssignedMore`).

The order in which a short goes through its longs does not matter for this, only that it goes
through all of them: the least-flexible-first order of the longs buys nothing that the order
of the shorts does not already guarantee. `VerdictExact` then needs that equal tallies of lots
mean equal holdings contract by contract, and that reordered legs have equal tallies: two
lists in which every value occurs equally often are permutations of each other (`SameCounts`).

### What the assumptions say

- Those of the core: the constants are of their types and the `No...` values outside them; an
  in-memory fake belongs to one process (`FakeOwnedAssumption`), as each process builds its
  own; `python -m ops` has no broker (`CliAssumption`).
- `RequestTyped`: the numbers of a request are integers, in its smallest units. The schemas
  are Pydantic models with `Decimal`, `int` and `datetime` fields.
- `ShadowAssumption`: a session is a list of cycles over requests and routing states the
  schemas accept. A request that cannot be constructed never reaches `run_shadow_cycle`.
- `SettingsAssumption`: an outside writer (`Record`) writes neither switch rows nor reports,
  which only `ControlPlane` and `persist_report` do.
- `ReplayAssumption`: suites are lists of scenarios that `ReplayScenario` accepts; an intent
  that can be minted is one of the intents of the model, of the order type its ticket has, and
  the multiplier it is priced with is a natural number.
- `PositionAssumption`: the legs handed to the mints are legs, that is, have a positive strike
  and a positive number of contracts, as `PositionLeg` requires.
- `OperatorAssumption`: one ticket (the candidate is pinned and `as_of` is `DEFAULT_AS_OF`,
  from which the ticket takes its `created_at`), attempt number 1 (the cycle's default), and a
  broker of its own for each terminal (`run_local_paper_submit` and `run_cancel_drill` build
  one).

### What a proof attempt changed

`PrefilterAgrees` was false as first stated, and the scenarios TLC had were all too tame to
show it: the proof stopped at two contracts with different multipliers. The strategy reads
the short contract's (`strategies/base.py:135`), the spread schema does not compare the two
(`schemas/contract_metadata.py:99-124`), and the gateway does (`:166`), so such a proposal
is rejected with `CONTRACT_SPREAD_MISMATCH`. The property now says for which contracts the
filter agrees, and the `replay` run has a scenario (`Mixed`) beyond them.

### Only model-checked

`JobsEnd`, `CycleEnds`, `SuiteEnds` and `InvocationsEnd`: liveness under fairness, and the
`ENABLED` it rests on, are outside the prover.

## 5. What is not modelled

- The secrets check, rehydration and provenance checks of the store, payload hashing and
  serialisation: data the properties do not tell apart. Hashes stand for their content.
- Wall-clock time in the core: "the broker's clock may be behind" (a report that cannot be
  minted) and "the token predates the intent". `Reporting` and `GatewayRequest` have clocks.
- `agents/`: fixed allow-lists and read-only tools around an SDK stub. They hold no state and
  call nothing that changes any.
- `data/market_data_contracts_v1.py` and its evidence fixtures: records for offline review,
  with no caller in the program.
- The 0-DTE strategy (it shares the base and is never live-eligible) and the score, which
  orders proposals and decides nothing.
- The relay's heartbeat, audit and daily routes, which each show one read, and refusing a
  missing or foreign database file; `export_filtered_jsonl`, whose file nothing reads back.
- `GET /status` of a corrupt payload, and rows deleted or rewritten behind the triggers.
- Wording of details, logging, argument parsing and printing.

## 6. What could come next

1. Action properties of the local operator and the replay (a row once claimed stays with its
   result; a settled drill stays settled) from `OperatorInv` and `ReplayInv`.
2. The relay's remaining routes, and the agents' read-only tools once they call something.
