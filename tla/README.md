# OnlyAlpha: TLA+ models, model checks and proofs

OnlyAlpha is a trading system written in Rust: a deterministic execution core
(`crates/`), a backend that hosts research and backtests over PostgreSQL and
ClickHouse (`packages/backend`), exchange and data plugins (`plugs/`) and a web
frontend. This directory models the parts of it whose correctness depends on the
order of steps: what may be on disk, in memory and at the venue when a call fails,
a process stops, a report is repeated or an answer is lost.

The rules the code follows, and which the properties below make precise, are
written in the repository's README and in the comments of the crates: *commit the
fact first, project the state second*; *the planner calculates, the projection
installs*; *historical facts are immutable, recovery only goes forward*; *an
UNKNOWN submission is never retried blindly*; *one domain, one write authority*.

- [The system](#the-system)
- [The modules](#the-modules)
- [The runs](#the-runs)
- [The proofs](#the-proofs)
- [What is not modelled](#what-is-not-modelled)
- [Plan](#plan)

## The system

| component | state | operations | interacts with | what is hard | what makes it correct |
|---|---|---|---|---|---|
| **Execution transaction and Runtime store** (`crates/execution/src/coordinator.rs`, `crates/runtime/src/{lib,store,checkpoint_data,readonly}.rs`) | SQLite journal of prepared transactions with Ready and delivered marks, checkpoints, lease; in memory the component owners and `healthy` | create, open, apply, apply_prepared, recover, save_checkpoint, pending_events, acknowledge, read-only snapshots | planner and owners, run loop, readers | a stop or an error of unknown effect between any two of commit, six projections, Ready, complete; stale plans; readers | what is served is the whole Ready journal; facts exactly once; recovery ends |
| **Planning and owners** (`components.rs`, `planning.rs`, `reconciliation.rs`) | six owners: Account, Position, Order, Risk, Strategy ledger, META | prepare, install_payload, complete, verified_source | coordinator, domain managers | the images must chain exactly | every plan starts at the image it was planned on |
| **Order Manager** (`crates/order`) | orders, receipts, venue index, cancel requests, journal | CREATE and twelve commands | execution owners, broker facts | repeated, reordered, contradictory reports; fills racing cancels | no double counting; life cycle only forward; one submission |
| **Broker protocol** (`crates/broker`) | append-only journal, its replayed state, connection and health flags | recover, dispatch, ingest, acknowledge, reconcile, resolve | adapter, journal driver, Runtime receipts | append of unknown outcome, stop around the adapter call, lost answers, full queue | no second submission, no lost fact, no submission under uncertainty |
| **Backtest run loop** (`crates/backtest/src/{run,trading,next_open}.rs`) | replay cursor, participants, clock, `healthy`, pending events | create, open, step, close and finish input, pause, resume, deliver, recover, terminate | Runtime, replay journal, consumer | memory moves before the step is durable; two journals advance in turn | a healthy loop is its journal; every stored step can be derived again; a driven run ends |
| **Replay and reference journals** (`crates/runtime/src/{replay,references}.rs`) | prepared and completed steps | bind, prepare, complete | run loop, execution journal | a stop between prepare and complete | exactly the prepared facts complete the step |
| **Backtest run leases** (`packages/backend/src/persistence/{backtest_run,authority_session}.rs`, `workers/backtest_{worker,service}.rs`) | run row, attempts with fencing tokens and leases, cancel receipts, the runtime binding; journal and evidence on disk | submit, claim, heartbeat, expire, finalize, request_cancel, cleanup, release | PostgreSQL, worker processes, evidence store | expiry races heartbeat and finalize, unknown commits, a job that outlives its lease | a fenced attempt ends nothing; the result is the published evidence; a cancel is neither lost nor invented; the run ends |
| **Market data WAL** (`packages/backend/src/persistence/market_data_wal.rs`) | the files of a segment, the open handle | create_segment, append, seal, collect_verified, recover_segment, abandon | file system, recorder, drain | a stop, a failed call or a power failure inside any file operation | nothing accepted is lost, what is sealed does not change, startup always recovers |
| **Market data drain** (`persistence/market_data/{recovery,catalog,physical}.rs`) | rows in ClickHouse, witness, publication and coverage in PostgreSQL | drain, recover_wal_inputs | WAL, ClickHouse, PostgreSQL | an insert whose answer is lost may be applied later | rows are sent once; the log is collected only when all of it is owned |
| **Event bus** (`crates/event`) | bounded priority queue, subscriptions, phase, diagnostics | publish, publish_many, publish_many_atomic, subscribe, unsubscribe, dispatch_one, drain, close, drop | handlers | reentrancy, full queue, panicking handlers | no accepted event is unaccounted for; handlers see events once and in order |
| **Clock and scheduler** (`crates/clock`) | timer table, callbacks, virtual time or worker thread | schedule, cancel, advance_to, snapshot, restore, close | callbacks, threads | timers set or cancelled while firing, waits that must be interrupted, jumping wall clock | a saved clock can be restored; what is due fires |
| **Account** (`crates/account`) | cash, reservations, receivables, known facts, journal | reserve, stage, release, trade, cash change, settle, observe_broker | planner, Broker | facts delivered again under another command; withdrawals and losses between reservation and fill | each fact is booked once; no check of amounts refuses the fill of a funded order |
| **Position** (`crates/position`) | shares of the account and their attribution to clusters, reservations, restrictions, the Broker's view | reserve, stage, release, trade, restriction, settle, reconcile | planner, Broker | a fill of an order whose cancellation is unconfirmed, while others trade | what the venue still fills is held and can be booked |
| **Risk** (`crates/risk`) | holds, decisions, kill switches, admission epoch, economic watermark | evaluate, reserve, stage, fill, terminal, kill | planner, views of the other owners | acceptances and views overtaken before they are used | every new hold is justified when it is made |
| **Strategy ledger** | attributions | apply | planner | one owner refuses after another accepted | the clusters' ledgers add up |
| **Fee, margin, settlement** | policies, schedules, obligations | bind, assess, settle | Order Manager, Account | decimal arithmetic | conservation of amounts |
| **Market data pipeline, bar construction** (`crates/market-data*`) | delivery state, bar windows | ingest, deliver, recover | data sources, strategies | late and repeated ticks | a bar is closed once |
| **Calculation, indicators, operators, predicates, bridge, strategy host** | graphs, rolling windows, child process | compile, evaluate | strategies | numeric kernels | values |
| **Backend services, transport, security, plugins, frontend, SQL, deployment** | product state | HTTP and websocket commands | everything above | mostly input and output | admission and authorisation |

Calls go one way: a host submits inputs to the run loop, the run loop asks the
Runtime to apply them, the Runtime plans with the owners, commits in its store and
projects into the owners; events leave through an outbox that the run loop drains.
The broker is driven by the host: it reads order commands that the Runtime made
durable, hands them to an adapter, and its facts become inputs of the Runtime,
whose receipts it asks for before it forgets a fact.

## The modules

| module | models |
|---|---|
| `ExecutionLog` | abstract: a journal that takes each economic fact at most once, makes it stable before the next one, and either serves all of it or nothing |
| `ExecutionRuntime` | the Runtime with its coordinator, store, checkpoints, outbox, leases and readers |
| `OrderManager` | the order authority |
| `BrokerProtocol` | the broker boundary |
| `BacktestOutcome` | abstract: the outcome of a run is decided once and the run ends with it |
| `BacktestLease` | one backtest run: row, attempts, leases, services and their jobs |
| `ReplayRun` | the run loop over its replay journal, on top of what `ExecutionLog` promises |
| `DurableSegment` | abstract: what a log segment promises to its recorder |
| `MarketDataWal` | one segment of the write-ahead log, file operation by file operation |
| `MarketDataDrain` | sealed segments on their way to ClickHouse and PostgreSQL |
| `EventBus` | the event bus of a Runtime |
| `TimerScheduler` | the timer table, a library of values and operations |
| `VirtualClock`, `LiveClock` | the two clocks on top of it |
| `Account` | the cash account |
| `Position` | the position of one instrument |
| `Risk` | the risk authority |
| `MC...` | small instances for TLC; `MCMarketData` and `MCKernel` put components that share no state side by side in one run |
| `...Proofs` | theorems |

Definitions called `X_Something` next to a definition `X` are mutants: the code as it
would be with a plausible mistake. They are used by no specification; each shows
that some property notices the mistake.

### ExecutionRuntime

*State.* `records` and `checkpoints` are the SQLite tables. `process`, `healthy`,
`call`, `prepared`, `comp` are the live `Runtime`: whether there is one, its health
flag, the step its current call has reached, the `Prepared` it is about to commit and
its `Components`. `fresh` are the components a recovery rebuilds aside. `plans` are
`Prepared` values callers keep (from `fork_ready`, or decoded from bytes), `cut` what
each read-only reader has verified. `confirmed` and `published` record what callers
and the event consumer have been told.

*Abstraction.* An owner's image is the sequence of inputs that changed it, so equality
of images stands for the equality of the SHA-256 hashes the code compares. Which
owners an input changes is a field of the input; META, the last one, records every
input. The economics of a plan are left out: the planner may refuse any input
(`ApplyRefused`).

*Steps.* `Runtime::apply` is split at each durable effect: `ApplyPlanned` (healthy is
cleared, the plan is made), `Commit` (one SQL transaction), `InstallProjection` per
owner, `MarkReady`, `Complete` (returns Ok). `CallFails` and `Crash` may come between
any two; an error after a durable step is the step followed by `CallFails`, which is
how "errors may be UNKNOWN after persistence" is represented. `Recover` and `Open`
restore the latest checkpoint into `fresh`, the same install steps roll the tail
forward, `RecoverDone` swaps it in. For checkpoints and acknowledgements, which are
one durable step, the parameter `ok` says whether the call reported success.

*Refinement.* `ImplementsLog` maps the inputs of `records` to the abstract log and what
META holds to the abstract view while the Runtime is healthy, and to Unavailable
otherwise. Every step of the Runtime is a step of the log or leaves it unchanged.

### OrderManager

A command is a record with the fields of the code's JSON command. `Verdict` follows
`Manager::apply` from top to bottom: scope and times, the screen every venue report
passes (known receipts, venue identity, report sequence, never dispatched), the answer
of the operation, the time order of local commands. Only "Applied" commands are steps;
every other answer and every error leaves the manager as it was. Prices and the contents
of fee contracts and failure reasons are opaque. The fields of the snapshot that no
guard and no property reads are left out.

### BrokerProtocol

`journal` is what a reload of the durable records computes. Every call begins by
reading the journal again, so decisions are made on it; `Write` is an append, which
succeeds, or fails before or after the record became durable. `dispatch` is five steps:
`DispatchBegin`, `AppendIntent`, `AppendDispatched`, `Send` (the adapter call) and
`AppendResult`; the process may stop between any two. `handed` is what the adapter got
and `applied` what the Runtime has receipts for; both belong to the environment.
`discovered` records all facts that any recorded discovery reported, to state that
none is forgotten.

The model assumes, as the journal port demands ("serialized, scoped owning journal"),
that one process at a time owns the journal. Three things the code leaves to others
are outside it: `ready`, `pending` and `command_state` read the copy in memory, which
is behind after an append that failed but was persisted, until the next operation reads
again; the RuntimeReader must refuse to declare a recorded but undispatched submission
eligible once its order was cancelled (the broker itself compares only submissions);
and a `recover` with a smaller capacity than before fails when the old records exceed it.

### BacktestLease

*State.* `run` is the row (state, cancel flag, pinned result), `attempts` the attempts with
their worker and lease, `receipts` the cancel commands answered, `bound` the binding of the
runtime generation, `journal` and `evidence` what the run's directory and the put-once store
hold, `svc[p]` the service loop of process `p`, its claim and the job thread it spawned.

*Steps.* A database transaction holds the row lock and the session mutex and is one step;
everything between two transactions interleaves. Only one session may write; losing it, a
commit of unknown outcome, a crash, a stop and a failing job are faults, counted by
`MaxFaults`. Server time is reduced to the one question the code asks, whether a lease has
lapsed: `LapseLate` (a heartbeat that comes too late) and `LapseOrphan` (nobody renews).
A job whose service lost its lease keeps running and writing files, as the thread does.

*Refinement.* `ImplementsOutcome` maps the row's state, its cancel flag and the published
evidence to `BacktestOutcome`.

*Observations.* Two situations in which no attempt ends the run are named in `Trapped` and
excepted from `RunEnds`. Only attempt 1 creates the journal, every later one resumes; when
the process stops between the claim of attempt 1 and the end of `RunLoop::create`, the later
attempts all fail (`backtest_service.rs:362`), although a comment says of expiry that "a later
fenced Attempt reopens the same journal" (`backtest_run.rs:783`). And a journal that ended
INCOMPLETE has no result that may be published. An error of `run_one` other than the ones it
handles ends the whole service loop, which is why a supervisor's restart is assumed.

### ReplayRun

*State.* `rows` is the replay journal, `records` the Runtime's (as `ExecutionLog` promises it:
an input is appended and Ready, or its call failed and the Runtime is unhealthy), `consumed`
what the consumer got, `loop` the memory of a live `RunLoop`, `call` the step its current call
has reached.

*Steps.* A transition is derived in memory, which moves clock and participants at once, then
stored as a proposal (`Prepare`), its execution inputs are applied one by one (`Install`), and
the step is made Ready (`Complete`). Each may fail before or after it was persisted. `Recover`
derives every stored step again, each from the execution prefix it started from. Both driver
profiles (`trading.rs`, native, and `next_open.rs`, closed bars) are modelled; a `Program` is
what the strategy and the market do on each bar. Prices and quantities are left out.

### MarketDataWal and MarketDataDrain

The log's handlers check files and then perform a fixed list of file operations. `todo` is what
is left of the recorder's or the recovery's list, `gc` of the drain's, and one operation with
its fsync is one step. A fault strikes *inside* an operation: a call fails and leaves part of its
effect, a kill leaves the page cache (files as written), a power failure loses what was not
synced wholly, partly or not at all, directory entries included. `strikes` are the kinds of
fault of a behaviour. A log is a number of whole frames and the bytes of a torn one.
`ImplementsSegment` is the refinement of `DurableSegment`.

`NeverRefused` is violated (run `wal_collected`): `collect_verified` does not remove `open.json`,
so one power failure between the publication of `segment.json` and the removal of `open.json`
in `seal`, with a drain that has collected the segment in between, makes every later startup answer Corrupt. `RestartRecovers` therefore
speaks of segments that still hold data, and of failures of one kind: when a kill inside an
append (bytes written, not synced) is followed by a power failure in the recovery, the recovery
may have derived `segment.json.tmp` or `corrupt-tail` from bytes that are gone, and refuses from
then on. A failing call does the same without a kill: an append that fails after it wrote its frame
leaves the frame unsynced, a `seal` describes it in `segment.json.tmp`, and a power failure takes it
back. (The second case came up in the search for the invariant of the proof: `RestartRecovers` had
excepted only kills together with power failures.) The comment at `market_data_wal.rs:555` names the
hazard; `rename` deals with it, the files derived in `seal` and `recover_segment` do not.

The drain goes over its segments once per stage (load, submit, insert, verify, publish, cover,
collect). `flight` are inserts the server may still apply after their answer was lost. The right to
send is a row that is written once and whose acknowledged commit alone grants it. A drain whose
insert has an unknown outcome and never lands cannot finish, nor can a later one of the same
segment: the code fails closed and leaves it to the operator.

### EventBus, TimerScheduler, VirtualClock, LiveClock

The bus has one thread: what interleaves is the dispatch of an event with what its callbacks do
(publish, subscribe, cancel, ask for the close, panic). `driver` is the owner's call on the stack,
`dispatch` the event and the handlers left to call, `accepted` and `inbox` are history.

`TimerScheduler` has the timer table as a value, every operation as a predicate and the table
after it, and the validation of snapshots. `VirtualClock` fires the timers due one by one in
`advance_to`; `Fire` and `Complete` are separate because callbacks schedule, cancel and close in
between. `LiveClock` has a worker thread and a condition variable; every action is one critical
section, and timers wait on the monotonic clock while the wall clock jumps. Its worker destroys
callbacks outside `catch_unwind` (`native.rs:287`): a destructor that unwinds ends the thread, the
clock still accepts timers and none fires, whereas `docs/clock.md:98` says that unwinds "do not
turn other Timers off" and the event bus catches the same unwind. `DueFires` excepts it.

### Account

A command is applied to a copy of the state, which replaces it only if it validates; `Apply` is that.
`semantic` maps the identities of a fact (trade, venue trade, source fact, and so on) to the
command that brought it, so a fact that arrives again is recorded and not booked. `booked` is
history. Amounts are small integers; margin, valuation and performance are left out. A trade that
arrives out of its sequence blocks the account until it is reconciled, which the code documents.

### Position

Built as `Account`: a command on a copy that must validate. `position` has the account's book, a book
for each cluster and one for shares that belong to none, the reservations of sell orders, restrictions,
the latest view of the Broker and the order (`watermark`) of the newest trade. `live` is history: the sell
orders that were sent and are neither filled nor confirmed as gone, which is what the venue may still fill.
Facts delivered again change nothing and are no steps; quantities are integers. A SETTLE command has one
owner, as the planner sends it.

Of the cost of the shares and the profit realized with it, `scale` keeps how many decimal places they carry
beyond those of prices, quantities and multiplier. `release_cost` gives the cost of a part of a cluster's
shares at least twelve digits more than the cost had (`position/src/model.rs:174-176`), and nothing drops them
before all shares are sold and a new book is started; `bounded` refuses a number of more than 512 places
(`model.rs:102-109`). `MaxScale` is what is left of the 512, and a trade brings in `places` how many the
division adds. The account's own cost has the most places that one of its clusters' had, so its bound adds no
refusal. Amounts, fees, cycles, their history and valuation are left out.

`VenueFillBooks` has two exceptions, both of them refusals the code makes on purpose: no close is booked while
shares are unallocated (`POSITION_UNALLOCATED_CLOSE_UNSUPPORTED`), and the close of a part of the shares is
refused when its cost does not fit the bound (`POSITION_ARITHMETIC_BOUND`; `docs/position.md:143`).

*Observation.* The second one is reached by a long but legal sequence: a cluster that buys and sells parts and
never goes flat meets it at about the fortieth partial close, although the shares are held, owned and settled.
Selling all of the cluster's shares is always possible and ends it; the property shows this too.

### Risk

`risk` is the manager: holds by order, decisions by request, active kill switches, and the counters that
protect a decision. `epoch` moves with every reservation, report and change of a kill switch, and voids
acceptances; `watermark` moves with every fill and terminal report, and makes older views unavailable.
The crate owns neither cash nor shares. The views of the account, the strategy ledger and the position are
part of the EVALUATE command, so they are inputs here: `Views` has old, new and missing ones with any figures,
and a decision keeps the views it was given for, as `request_inputs` keeps the payload. A request's cash
requirement is a figure of its own beside its notional (`pipeline.rs:213-214`, `docs/risk.md:139`).

`AdmissionSound` therefore says what the crate can promise: the views an order was judged by are not overtaken
by a fill or terminal report when it gets its hold, and they cover it together with every other hold. Whether
their figures are still the owners' figures then is not Risk's to know: a withdrawal or a loss moves neither of
its counters. The planner reads the owners, evaluates and reserves in one plan (`planning.rs:486-513`), and
the Account checks its own cash again when it reserves. Checks of the request alone and the market's verdict
only decide which requests arrive. A command delivered again is no step.

*Observation.* Rounding of each fill's notional (`execution/src/model.rs:541`) is outside the model: partial fills
whose rounded notionals add up to more than the rounded notional of the order would be refused by the guard
of Risk (`risk/src/reservation.rs:155`), and with it the whole input.

## The runs

Each run is `tlc -config <cfg> <module>` in this directory.

| run | module, configuration | instance | distinct states |
|---|---|---|---|
| runtime_crash | MCExecutionRuntime, ExecutionRuntime_crash.cfg | 3 owners, 3 inputs touching different owners, 1 reader, 3 faults | 127 thousand |
| runtime_live | MCExecutionRuntime, ExecutionRuntime_live.cfg | 2 owners, 3 inputs of which two share a source, 1 held plan, 2 faults, fair | 175 thousand |
| order_reports | MCOrderManager, OrderManager_reports.cfg | two orders of one account and 37 commands | 58 thousand |
| broker_dispatch | MCBrokerProtocol, BrokerProtocol_dispatch.cfg | 6 commands over 3 orders and 2 clients, 2 contradicting facts, queue of 1 | 1.65 million |
| broker_reconcile | MCBrokerProtocol, BrokerProtocol_reconcile.cfg | 1 submission, 5 facts, 7 discovery answers, queue of 2 | 127 thousand |
| lease_faults | MCBacktestLease, BacktestLease_faults.cfg | 2 processes, 2 cancel commands, 3 attempts, 3 faults | 1.57 million |
| lease_live | MCBacktestLease, BacktestLease_live.cfg | 2 processes, 1 cancel command, 4 attempts, 1 fault, fair | 105 thousand |
| replay_faults | MCReplayRun, ReplayRun_faults.cfg | 7 programs of 2 or 3 bars, 1 pause, 2 faults, fair | 249 thousand |
| market_data | MCMarketData, MarketData_faults.cfg | a segment with 3 observations and 4 faults of three fault models; 3 sealed segments, 4 faults | 66 thousand |
| wal_collected | MCMarketData, MarketData_collected.cfg | a segment, 1 power failure | violation |
| kernel_parts | MCKernel, Kernel_parts.cfg | bus: 2 handlers, 2 priorities, queue of 2, 3 events; clock: 2 timers, 3 instants; account: 20 commands, 7 applied; position: 2 clusters, 3 sell orders, 22 commands; risk: 2 clusters, 4 requests, 6 reports, 3 views, 6 commands applied | 975 thousand |
| clock_live | MCLiveClock, LiveClock_threads.cfg | 2 timers, 3 instants, wall clock jumping between 2 readings, fair | 794 thousand |

**Runtime.** `ServedStateIsJournal`: a healthy Runtime holds in every owner the image
of the complete, Ready journal, whatever was interrupted before. `NoEffectWithoutRecord`:
no owner, not even half-way through an installation, holds anything that is not the
image of some durable record. `StoreReadable`: the store never writes what its own
readers would refuse. `OutboxSound`: events leave only for Ready facts and are acknowledged
only after they left. `ReaderCutStable`: what a reader verified does not change under it.
`ExactlyOnce`: neither identity nor source is ever booked twice, by stale or decoded plans
either. `ImplementsLog`: the refinement, which includes that nothing confirmed is taken back.
`CommittedBecomesReady` and `RecoversEventually` are the liveness properties.

**Orders.** `SnapshotValid`: the checks of the snapshot constructor never refuse an accepted
command. `DuplicateIsProof`: "Duplicate" is given only when the very effect asked for is
recorded. `LifecycleForward`: what a command may never take back, a started submission included.
`VenueOwnership`: a venue identity belongs to one order. `TradesCountOnce`: filled quantities
are sums over distinct trades.

**Broker.** `NoBlindRetry`: the adapter gets no command, submission of an order, or client
identity a second time. `SubmitsWaitForCertainty`: a submission leaves only while nothing
else is uncertain and no conflict is recorded; the run latches conflicts from contradicting facts,
with appends that fail after they were persisted. `FactsAreNotLost`: a fact stays pending until
the Runtime applied it. `ResolvedIsSettled`: a resolved command has none of its facts open,
also not those a later answer left out.

**Leases.** `Fenced`: the run is ended by its newest attempt only, and two services never
both hold it. `ResultIsEvidence`: the pinned result is the published evidence and that is how
the journal ended, whichever of several jobs wrote which. `CancelHonoured`: no cancellation is
invented, none with a receipt is lost. `BindingOutlivesJobs`: the runtime generation stays bound
while any job, a fenced one too, may use it. `ImplementsOutcome`: the refinement. `RunEnds`:
the run ends and its binding is released.

**Run loop.** `MemoryIsJournal`: between calls, a healthy loop holds exactly what its Ready
journal says. `JournalRederives`: whatever failed, deriving the stored steps again gives the
stored steps, so recovery never refuses. `RunTerminates`: no failure leaves a journal that cannot
be brought to its end.

**Market data.** `ImplementsSegment`, `RestartRecovers`, `RowsOnce` (ClickHouse never holds, and can
never come to hold, two copies) and `CollectedIsOwned` (the log goes only when segment, proof, coverage
and rows are all durable).

**Bus, clocks, owners.** `AcceptedIsSettled`: each accepted event is queued, being dispatched, or counted
once, and a Closed bus abandoned none. `SeenInOrder`: every handler sees its events once, in order of
acceptance, and no younger handler sees what an older one of the type did not. `SavedIsRestorable`: between
advances, the table passes the snapshot's validation, restoring gives the same pending set, and exactly
the scheduled timers have callbacks. `DueFires`: a due timer fires. `BookedOnce`: cash is the initial cash
and each booked fact once. `FundedFillBooks`: a fill that fits an open reservation leaves a state that validates, also when the journal is
full by count. `VenueFillBooks`: every fill the venue may still send of a sell order is accepted, whatever was cancelled,
blocked, restricted or traded meanwhile, with the two exceptions named under Position. `AdmissionSound`: when an order
gets its hold, no kill switch forbids it, the enforced limits hold with it, and the views it was judged by are not
overtaken and cover all that is held.

*Bounds.* `MaxFaults` counts crashes and failing calls: three are enough for a crash in an
apply, a second one in the recovery from it and a third in the recovery from that; more
repeat the same situation. Three inputs give a journal whose middle record has both a
predecessor and a successor, three owners an installation with a first, a middle and a last
owner. One held plan is made stale by any other input. Quantity 2 distinguishes a partial, a
completing and an excessive fill; the order commands contain reports that repeat another
one's event or trade identity, contradict its venue identity or reason, and come with lower,
equal and missing sequences. `MaxOrders` and `MaxJournal` are the code's own limits, reduced so
that they are reached. A queue of two can be empty, partly full and overrun by a batch. The
broker's runs have no fault bound: its state space is finite with crashes and failed appends at
will. Two processes let one take over from the other; three attempts let the third meet jobs of
both earlier ones. The programs of `ReplayRun` have an order that is filled, one that is refused, one
that stays open and a signal on the last bar. Three observations give a log with synced,
unsynced and torn frames at once; four faults interrupt a write, its recovery, and that one's
recovery, with one to spare. Three events overrun the bus's queue of two. Two timers suffice for one
callback to act on another timer, three instants for a periodic timer to fire twice. Two sell orders of one
cluster compete for its shares, with a third of another cluster for the account's; divisions that add 12 places meet `MaxScale` = 20 at the
second partial close of a cycle, as they meet the code's 512 at the fortieth or so. Six risk commands are two
evaluations and two reservations with two reports or kill switches between. Three views are one read at the
start, one read late and one without the cash. `Horizon`, `MaxQuantity`, `MaxSequence`,
`MaxMono`, `MaxWall`, `MaxEvents`, `MaxBatch`, `MaxAttempts`, `MaxPauses` and `MaxAmount` are bounds of the
model only. Transactions, payloads of a fact, processes, cancel commands and timers are interchangeable where a
configuration says SYMMETRY; no such run checks liveness.

*Deadlock* is checked except where the system may rightly stop: all orders closed and capacity
used up, a run ended, a bus dropped, a clock closed, nothing left to drain.

*Fairness.* `runtime_live`: the steps inside a call are weakly fair, because a call runs
synchronously to its end unless it fails or the process stops, which are steps of their own
and bounded by `MaxFaults`. `Open` is weakly fair: a process that ended is started again.
`Recover` is weakly fair while the Runtime is unhealthy: it is the only operation such a
Runtime accepts, and the run loop's own `recover` calls it. Nothing is assumed of new inputs,
checkpoints, acknowledgements or readers; the run has no readers, since a reader that never
lets go of its lease would rightly keep a writer out. `lease_live`: the async runtime polls each
service and its timers, the job's thread runs, a supervisor restarts an ended host, and server
time passes a lease that nobody renews; no command, stop or fault is assumed. `replay_faults`: the
steps inside a call, recovery after a failed call, and `Drive`, which is what the owning worker
does (create or open, step, deliver, finish); pauses and cancels are not assumed. `clock_live`: the
operating system schedules the worker and callbacks return.

## The proofs

Every safety property of a passing run is proved: 57 theorems, which hold for every value of the
constants that satisfies the named assumptions.

| assumption | what it says, and what of the code justifies it |
|---|---|
| `NAssumption`, `InputAssumption`, `BoundAssumption` | at least one owner (META); input sequences are positive and None is no input; bounds are natural |
| `CommandAssumption` (OrderManager), `CommandAssumption`, `CashAssumption` (Account), `PositionAssumption` | what the parsers of payloads establish: the fields an operation needs, nonnegative quantities and amounts, known kinds and stages |
| `BrokerAssumption` | facts are finite and determined by identity and fingerprint, answers have their shape, the queue holds at least one |
| `LeaseAssumption` | cancel commands are finitely many, at least one attempt is allowed |
| `ReplayAssumption` | a program has a profile and a sequence of bars |
| `DrainAssumption`, `WalAssumption` | segments are finitely many, the two tables differ; at least one record; fault models are sets of kinds of fault |
| `RiskAssumption` | as above, for requests, views and reports; a request id names one request (`request_inputs`) |
| `KernelAssumption` | the bus's capacity is positive, intervals of periodic timers are positive, None and the names of accounts and clusters differ |

**ExecutionRuntimeProofs.** `TypeCorrect` and `ForwardOnly` need types only. The others rest on
`ProtocolInvariant`, inductive together with `TypeOK`: the journal is a chain of sound plans whose
META image lists exactly the committed inputs (`JournalSound`); every checkpoint is the image of its
Ready prefix (`CheckpointsValid`); every plan the planner made is sound with respect to the image it
was made on (`PlansSound`); and every call is at a definite point (`CallSound`), where `Rolling`
says that components under installation differ from a committed image by exactly the first
`pending.next` owners of the next record. None of the properties is inductive without it: that a
finished recovery is the journal's image depends on what each installation step left, which depends
on the chain. From it follow `ServesJournal`, `AlwaysReadable`, `FactsExactlyOnce` (two inputs in
the journal are both in the META image of the later one, which the planner compared),
`ConfirmedForGood`, `OutboxCorrect` (acknowledged implies published implies Ready), `CutsStable` (no
writer has the lease while a reader holds its cut), `EffectsAreRecorded` (an owner in memory, a
half-installed one too, is at the image of some record) and the refinement `RuntimeImplementsLog`:
one step lemma per action says which step of `ExecutionLog` it is. TLC checks `ProtocolInvariant`
too, in runtime_live. `TypeCorrect`, `ForwardOnly` and `ConfirmedForGood` have no run of their own:
the refinement, which is checked, implies what they say of the journal.

**OrderManagerProofs.** The invariant `OrdersInv` is one formula per order (`EntityInv`): its type,
its quantity bound, `SoundlyDispatched` and `ValidSnapshot`. They are proved together because each
transition's guard in one excludes bad cases of the other: a fill is impossible before dispatch
because of the screen, hence an unsent order has no venue facts. One lemma treats the stamp at the
end of `apply`, one the local commands, one the reports; the action property `OrdersForward` comes
from the same case analysis. `VenueIdsOwned` adds the lookup index to the invariant,
`DuplicatesAreProof` what receipts and states record of earlier commands, and `TradesCounted` that
no two recorded fills of an account share a trade identity. A filled quantity is a sum over a finite
set; the few facts about such sums that are needed (one element more, one less, no element) are
proved by well-founded induction over strict inclusion of finite sets, stated for the set at hand.

**BrokerProtocolProofs.** `BrokerInv` says what the journal may contain (two recorded commands never
clash, facts are pending or applied, reconciled commands hold all facts ever discovered), where a
call may stand (a command at "send" is recorded Unknown and was not handed before; a submission
under way coexists with no uncertain command and no conflict), and that handed commands are recorded
and distinct. Because a failed append may have been persisted, each event is shown to lead from
sound journal to sound journal before the actions are treated, and the actions then only choose
among sound journals.

**BacktestLeaseProofs.** `LeaseInvariant` ties the row to the attempts and to its own end
(`RowSound`) and every service to row, attempts, journal and evidence (`ServiceSound`): its claim is
an attempt of its own, a working job holds the binding, a result a job reports is the published
evidence, a job that cancels does so because the row says so, and a release happens only when the
end is proved. The properties are conjuncts of the invariant, since each is needed for another: a
finalize is safe because the evidence is the job's result, and the evidence is put once because the
journal ends once. Services other than the acting one are treated by a lemma on what a step may
change under them. `LeaseImplementsOutcome` follows step by step.

**ReplayRunProofs.** `ReplayInvariant` says that only the last stored step may be a proposal and
that the execution records are the facts of the steps in order (`Lineage`), that each stored step
comes out again when derived from the memory before it and its own execution prefix (`Chain`), and
where each call stands (`LoopSound`): `Current` between calls, `Preparing` while the derived step is
only in memory, `Installing` while its facts are executed, `Rederiving` while recovery goes over the
journal. `JournalAlwaysRederives` is the chain; it is kept by an appended execution record because a
step reads only the prefix it started from.

**MarketDataProofs.** *Drain:* `DrainInvariant` says that without a witness nothing was sent
(`Unsent`), that the insert under way has a witness and the facts follow the raw rows
(`InsertSound`), and what each stage has established for the segments it has passed (`StageSound`).
*Log:* `WalInvariant` says in `FilesSound` what may be on disk: there is one log, under one of four
names; the open one has synced at least what was accepted and holds at least what is synced; a
sealed one is synced throughout; an abandoned one is empty; a log whose creation has no name yet is
blank; without a log nothing was accepted or the catalog owns all of it. The other part is about the
operations still to be done: each is quiet (it touches documents only, or collects what the catalog
owns) or the one operation of its list on the log, with what that relies on (`Planned`). The proof
has three layers. A power failure, the sync of a directory, and every operation, done, half done or
not done, lead from sound files to sound files and move the segment by at most one step of
`DurableSegment` (`PowerSound`, `PlanStep`, `CreateStep`, `OpenWritten`). Every plan that `create`,
`seal`, `collect_verified` and each branch of startup recovery make from sound files is `Planned`
(`RecoverPlanned` and the lemmas before it). And each action keeps the invariant; a kill may
interrupt the recorder's and the drain's operation at once, which are then both on a segment the
catalog owns, and two such moves are one. `LogImplementsSegment` follows. It holds for every fault
model, also for kills and power failures together.
*Restarts:* `RestartsRecover` needs all the documents of a segment, not only its log, but not what of
them is synced: `Data` forgets that. `RestartInvariant` says that the contents have one of a few shapes
(`Shape`: nothing but a nameless creation, a laid, an open, a prepared, a stored, an emptied, an
abandoned segment), and that the operations still to be done are the tail of a list that fits the shape
(`Fits`), so that each finds its file and none contradicts it. Four layers. An operation of the files is
an operation of their contents, done or half done (`DataOfResult`, `DataOfPartial`); where only the power
fails, every operation starts from files that are synced (`Clean`), and a power failure inside it leaves
contents that a kill there could have left (`DataOfPower`). The head of a list that fits leaves a shape
however far it gets, and its tail fits what it leaves (`FitsStep`, one lemma per list). For each shape, the
branch of `RecoverWalInputs` it reaches has a plan, and the plan fits (`RecoveryProceeds`). And each action
keeps the invariant. Two conjuncts are about the two actors: while the drain collects, the recorder has at
most the removal of `open.json` left, which the collection does not notice (`EndOpenCollects`); and no
list of the recorder is a list of the drain, so only recovery and the drain itself ever collect.
The same invariant shows that no operation of the recorder, of recovery or of the drain ever finds a file
in its way, misses one or continues one with other bytes (`OperationsAlwaysApply`). Where recovery ends does
not need it, and holds for every fault model: when it finds nothing to do, what was accepted is in a sealed
segment that loads, or was collected (`RecoveryLeavesNothing`).

**AccountProofs.** `AccountInvariant`: the state is typed and passes the account's own validation,
every booked fact is bound to its identities, and `BookedOnce`. `FactsBookedOnce` sums over the
booked commands, `FundedFillsBook` over reservations and receivables: a fill that fits its
reservation lowers cash by no more than it lowers what is reserved, so what covered the reservations
before covers them after. This is about `State::validate` and the count of commands: with checkpoint version 5 the
expanded size is bounded in bytes for every command (`account/src/manager.rs:241-247`, `docs/account.md:77`), which
can refuse a trade too and is not modelled. The sums are treated as in OrderManagerProofs.

**KernelProofs.** *Clock:* `ClockInvariant` describes the timer table that may be firing (numbering,
deadlines as a function of the fires, failures, the dispatch under way, the pending set); a table
that is not firing and satisfies it is exactly one that `ValidSnapshot` accepts, and restoring it
gives the same pending set (`SnapshotsRestore`). *Bus:* `BusInvariant` adds to `BusCount`, which is
nearly `EventsSettled`, the order of numbers: what a subscription was handed came before what it is
about to be handed, which came before what is queued (`BusNumbers`), and of two subscriptions to a
type the younger one's inbox, as it will be at the end of the dispatch under way, is a suffix of the
older one's (`BusSubscriptions`). *Position:* `PositionInvariant` is validity, the bound on places included, that a hold is freed
as a whole or not at all, and that live orders have a hold that was sent and not released;
`VenueFillsBook` then shows every other check of a fill's booking to succeed, and that a fill which
leaves no quotient needs no room for one. *Risk:* `RiskInvariant` is the type and that an acceptance whose
epoch is current would be given again for its own views (`DecisionsSound`): whatever raises a hold, a kill
switch or the watermark also moves the epoch. `AdmissionsSound` is an action property of the step that makes
a hold: what the acceptance left free is enough for the hold it becomes.

Recursive definitions are avoided in the models that are proved about, or are functions with a
recursive definition whose few unfoldings are used (`Batched` of the bus). Some operations have a
name of their own in the model only so that lemmas can speak of them (`Restored` of the timer table,
`Staged`, `Released`, `Matured` of the position, `Staged`, `Filled` of risk).

*Only model-checked.* The liveness properties `CommittedBecomesReady`, `RecoversEventually`,
`RunEnds`, `RunTerminates` and `DueFires`: fairness and ENABLED are beyond the proof system.
`NeverRefused` is false (run `wal_collected`). `LiveClock` has only its liveness property. What TLC
checks of the theorems' invariants, it checks within the bounds of the runs.

## What is not modelled

Within the modelled components: the bytes of journals, canonical JSON, hash computation
and the migration of old store formats; byte-size capacities (among them the one of a version 5 checkpoint of
the Account, which can refuse the trade of a funded order); prices and economic results;
`Manager::restore` of the Order Manager and of the Account, which replay a journal of applied
commands through `apply` in a new manager and so reach only states already considered; margin,
valuation and performance of the Account; the amounts of cost and profit, cycles and valuation of the Position;
what happens to the owners' figures between the views of a Risk evaluation and the reservation (one plan of the
planner); more than one instrument; segments of the log other than the one looked at
(they share no file); the retained samples of the bus's diagnostics.

The repository has some 154 thousand lines in 377 implementation files, and this project covers a
few percent of them: the protocols whose correctness depends on the order of steps. Left out:

- *Strategy ledger*: the same shape as Account (a command on a copy that must validate, facts known
  by identity, reservations that are staged, consumed and released) over attributions. It is an owner
  in `ExecutionRuntime`.
- *Fee, margin, settlement, indicators, operators, predicates, calculation graph*: exact decimal
  arithmetic, out of TLC's reach, with no protocol around it. The one protocol rule, a fee contract
  before dispatch, is in `OrderManager`.
- *Market data pipeline and bar construction*: window arithmetic over time and calendars.
- *Research and qualification services*: the lease pattern of `BacktestLease` over other tables.
- *Strategy host, calculation bridge*: run user code, or a child process, against a read view.
- *Transport, bootstrap, security, plugins, frontend, migrations, deployment*: input and output
  around the application services.

## Plan

Modelled and checked: everything in the table of modules. Proved: every safety property of
the runs. Next: the link between `ReplayRun` and `ExecutionLog`, the run loop's `records` as an instance of
the abstract log.

Left to model, should the project grow: the planner as the composition of orders, account, position,
risk and ledger (a submission reaches the venue only with all its reservations, and no owner refuses
what the others book); research execution leases.
