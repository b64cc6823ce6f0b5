# OpenAlgo's decisions over shared state in TLA+

OpenAlgo is a self-hosted trading application: a Flask server (`src/app.py`)
that offers one REST interface over many brokers, a WebSocket proxy for market
data, a complete paper-trading exchange (the *sandbox*, "analyzer mode" in the
interface), workflows and stops that trade by themselves, and a host for the
user's Python strategies. This directory models the parts where several threads,
processes or clients decide over the same rows and tables, checks the models with
TLC and proves what matters most with TLAPS.

What makes this code hard is the same everywhere: rows and dictionaries are read,
decided upon and written by key; the writers are HTTP handlers, threads that
deliver ticks, pollers, schedulers and sweeps; and any of them may stop between
two commits. The models therefore take **one database transaction, one critical
section or one network call as one action**, and leave every interleaving of
those open.

Contents: [parts](#1-the-parts-of-the-system) · [modules](#2-modules) ·
[runs](#3-what-the-runs-check) · [fairness](#4-fairness) ·
[findings](#5-where-the-code-departs-from-what-it-says) ·
[proofs](#6-what-is-proved) · [limits](#7-what-is-not-modelled) ·
[plan](#8-plan)

Run everything from this directory:

    tlc -workers 2 -config GTTFire.cfg MCGTT.tla
    tlapm GTTProofs.tla

## 1. The parts of the system

`PROJECT.json` lists all 27 parts with what is modelled of each, and every
hazard at its line. This is the inventory behind it. Paths are under `src/`.

### Sandbox: GTT lifecycle (`sandbox/gtt_manager.py`)

* **State.** `sandbox_gtt` (`gtt_status`, `margin_blocked`), `sandbox_gtt_legs`
  (`leg_status`, `leg_margin`, `triggered_order_id`, `claimed_at`), the child
  order's `gtt_leg_id` in `sandbox_orders`, and the user's `sandbox_funds` row.
* **Operations.** Requests: place, modify, cancel. Sweeps: expiry
  (`expire_due_gtts`), stranded legs, stranded parents. Evaluators
  (`get_active_legs`, `try_claim_trigger`, `fire_leg`, compensation).
* **Interacts with** the fund manager (reserve and release), the order manager
  (`place_order` for the child), the polling engine, the WebSocket engine and the
  catch-up scan (three callers of the evaluators), the thread manager (sweeps
  once a minute).
* **Hard.** Two legs exclude each other while three threads evaluate them;
  `fire_leg` commits five times and a crash may fall between any two; recovery
  cannot tell a live fire from a dead one but by age; one half of the code moves
  margin by an UPDATE and the other by reading, computing and writing.
* **Correct means** at most one leg ever orders; a GTT that was cancelled,
  expired or rejected never orders; a child order in the book is never undone;
  the reservation follows the GTT; an interrupted fire is resolved.

### Sandbox: engines, orders, funds, positions

* `sandbox/websocket_execution_engine.py` keeps, under one lock, the index of
  open orders by symbol, the set of positions that hold the feed, and refcounts
  by user and symbol; it calls the feed outside the lock. Correct: no open order
  is forgotten, the feed is held exactly while someone needs it.
* `sandbox/execution_engine.py` decides fills and executes them (trade and status,
  then the position with its margin, in several commits). It is also the polling
  engine and the WebSocket engine's fallback. Correct: one fill per order,
  positions are the sum of their trades.
* `sandbox/order_manager.py` places, modifies and cancels. Correct: what an order
  blocked is what its end releases.
* `sandbox/fund_manager.py` moves margin, either staged inside the caller's
  transaction (`stage_block`, `stage_release`: an UPDATE with its condition) or
  committed on its own from a row in memory (`block_margin`, `release_margin`).
  `reconcile_margin` rebuilds `used_margin` from positions and active GTTs.
  Correct: the balance and the margin in use add up, and the margin in use is
  what orders, positions and GTTs stand for.
* `sandbox/position_manager.py`, `squareoff_manager.py`, `holdings_manager.py`,
  `catch_up_processor.py`: netting, square-off, T+1 settlement, expiry. Their
  jobs run from a scheduler beside requests. Correct: each closes or settles a
  position once.
* `sandbox/execution_thread.py` starts, stops and upgrades the engines. Correct:
  one engine at a time.

### Action Center

`database/action_center_db.py`, `services/order_router_service.py`,
`services/pending_order_execution_service.py`, `blueprints/orders.py`.

* **State.** Rows of `pending_orders`: `status`, `order_data`, `broker_order_id`,
  `broker_status`.
* **Operations.** Queue, approve, reject, delete, approve all, execute, record the
  broker's answer.
* **Hard.** A decision is a read and an UPDATE by primary key that does not repeat
  the condition it read; the broker is called between two commits; ids are given
  out again by SQLite.
* **Correct means** an approved order goes to the broker once, a rejected one
  never, and the rows say what happened.

### Event bus (`utils/event_bus.py`) and its subscribers (`subscribers/`)

* **State.** Subscriber lists by topic, `_pending`, `_dropped`, a thread pool whose
  own queue is unbounded.
* **Operations.** publish, subscribe, unsubscribe, the wrapper of a callback.
* **Hard.** A slot is taken by one thread and given back by another, on every path
  of failure.
* **Correct means** no slot leaks or is returned twice; callbacks are dropped only
  at the cap; what was admitted runs.

### Flow workflows (`services/flow_*_service.py`, `blueprints/flow.py`)

* **State.** Price alerts and order-update watches in memory, each with its worker
  pool; scheduled jobs in a job store; `flow_workflows` (`is_active`,
  `schedule_job_id`) and execution records in the database; a lock per workflow;
  during a run the results of conditions and the number of visits of each node.
* **Operations.** Activate, deactivate, delete; the price monitor's polling loop; an
  order event; a job; a webhook; Run Now; the walk of the graph by
  `execute_node_chain`.
* **Hard.** A trigger that fires once is removed while its run waits in a queue; the
  loop that was told to stop may still be in a slow quote when the next one starts;
  a gate is skipped until its inputs are there and must be reached again.
* **Correct means** one run at a time for each workflow, one run for each registration
  of a watch that asks for one, nothing that trades for a workflow that was switched off
  or deleted, and a node executed
  only on a branch that was decided that way.

### Scalping risk monitor

`services/scalping_risk_monitor_service.py`, `database/scalping_db.py`,
`blueprints/scalping.py`, `services/websocket_client.py`.

* **State.** Stops by leg and trading mode in `scalping_sl_state`; `_states`,
  `_subscribed`, `_exit_inflight` in memory under `_lock`; what the proxy feeds.
* **Operations.** Save and delete a stop, the sync worker, a tick, an exit (guard,
  order, delete, clear, unsubscribe), reconnect, restart, change of the mode.
* **Hard.** A call of the feed waits, with the lock held, for an answer that only the
  event loop can take, on which the callbacks of ticks also run; an exit deletes the
  row of a stop that a request may have saved anew.
* **Correct means** one exit per leg, no more on order than the position, no stop
  cleared before its exit is on order, and every stored stop watched and fed.

### Python strategy host (`blueprints/python_strategy.py`)

* **State.** Processes of the operating system, `RUNNING_STRATEGIES` and
  `STRATEGY_CONFIGS` in memory, `strategy_configs.json` on disk, cron jobs.
* **Operations.** Start, stop, delete, clear-error; scheduled start and stop; the
  enforcer; the reaper; restoration after a start or a login; the starter of pending
  strategies; exit and crash of the server.
* **Hard.** Processes outlive the server; what is checked before the lock and written
  after it is old by then; a process that the server may not inspect looks dead.
* **Correct means** one process per strategy, each of them on record, and a dead one
  noticed.

### WebSocket proxy (`websocket_proxy/`)

* **State.** By client: `user_mapping`, `subscriptions`; by subscription:
  `subscription_index`; by user: an adapter with its `ConnectionPool`
  (`subscription_map`, `adapter_symbol_counts`, one broker connection after the
  other).
* **Operations.** Authenticate, subscribe, unsubscribe, unsubscribe_all, the end of a
  connection; the pool's upgrade and downgrade of a symbol's mode, its capacity, its
  recovery from an expired token; invalidation and the clean-up by a login.
* **Hard.** Clients share one subscription of the broker in its highest mode; a
  downgrade is three calls of which each may fail; the pool may be rebuilt in the
  middle of a request, or torn down by another thread.
* **Correct means** whoever holds a subscription is fed, the pool counts exactly what
  it tracks, and it tracks nothing that nobody wants.

### Parts that are not modelled

| part | state and hard behaviour | plan |
|---|---|---|
| Settlement (`holdings_manager.py`, `catch_up_processor.py`) | commits between the steps of one position | planned |
| Thread control (`execution_thread.py`) | two engines during an upgrade | planned |
| Market data cache (`services/market_data_service.py`) | freshness, subscribers by priority | planned |
| OAuth rotation (`utils/oauth_tokens.py`) | one conditional UPDATE | small |
| Subscribers of the bus (`subscribers/`) | output; the strategy book buffers fills | book planned |
| Order update adapters | sockets with reconnection, by broker | no |
| Brokers, order services, REST routes, pages, sessions, analytics, history, portfolio and SIP | translation, I/O and arithmetic without shared decisions | no |

## 2. Modules

| module | what it is | code |
|---|---|---|
| `GTT` | GTT lifecycle with funds and child orders, crashes and recovery | `sandbox/gtt_manager.py`, parts of `fund_manager.py`, `order_manager.py`, `execution_engine.py` |
| `GTTPromise` | abstract specification: armed, then fired by one leg or withdrawn | what `gtt_manager.py:1-15` promises |
| `WSEngine` | index, refcounts, feed, tick thread, fallback poller, fills | `sandbox/websocket_execution_engine.py`, `execution_engine.py`, `order_manager.py` |
| `SandboxLedger` | orders, fills, position and margin of one account | `fund_manager.py`, `order_manager.py`, `execution_engine.py`, `position_manager.py`, `squareoff_manager.py` |
| `ActionCenter` | queue, decision, execution, recording | the four files above |
| `EventBus` | admission, pool, failures, shutdown | `utils/event_bus.py` |
| `FlowTriggers` | what starts a workflow, and its runs up to their end | `flow_price_monitor_service.py`, `flow_order_update_monitor_service.py`, `flow_scheduler_service.py`, `flow_executor_service.py`, `blueprints/flow.py` |
| `FlowWalk` | one run's walk of its graph | `flow_executor_service.py`, `flow_workflow_validator.py` |
| `ScalpingMonitor` | stops, exits, sync and the feed | the four files above |
| `StrategyHost` | processes and what is on record of them | `blueprints/python_strategy.py` |
| `WSProxy` | clients, their subscriptions, and the pool of broker connections | `websocket_proxy/server.py`, `connection_manager.py`, `database/auth_db.py` |
| `*Proofs` | theorems about `GTT`, `WSEngine`, `SandboxLedger`, `ActionCenter` with `EventBus`, `StrategyHost`, `WSProxy`, `FlowTriggers` with `FlowWalk`, `ScalpingMonitor` | |
| `MC*` | the same modules on small sets, with symmetry where it is sound | |

How they compose. The sandbox account appears in three: `GTT` with its reservations,
`WSEngine` with who looks for a fill, `SandboxLedger` with what a fill costs. They meet
in the order row: for `GTT` a child is a row that rests, is cancelled or is rejected;
`SandboxLedger` is what becomes of its margin, without a GTT. `FlowTriggers` treats a run
as something that begins and ends, and `FlowWalk` is what happens in between.
`ScalpingMonitor` and `WSEngine` are clients of the feed that `WSProxy` gives out.

Operators marked `slip:` in a comment are plausible bugs of the definition they
precede. No specification uses them: the mutants that `PROJECT.json` lists put one in
the place of the real definition, to show that the property named there notices.

### GTT

A row of each table is a function of the GTT or leg: `status` is `gtt_status`,
`reserved` is `margin_blocked`, `leg[l]` has `leg_status`, `leg_margin` and whether
`triggered_order_id` is set, `order[l]` is the order whose unique `gtt_leg_id` is `l`.
`avail` and `used` are the funds. A GTT's own margin moves by one UPDATE (`Move`);
`block_margin` and `release_margin` read the balances under `FundManager`'s lock (`Take`,
into `turn`) and commit what they computed in a later step (`Write`), whatever the balances
are by then, and `raced` remembers that a move came in between. `wk[w].pc` is where an evaluator is between two
commits of `try_claim_trigger`, `fire_leg` and `_compensate_failed_fire`:

    idle -Observe-> crossed -Claim-> claimed -ClaimParent-> owned -Release-> released
      -PlaceBlock-> blocked -PlaceInsert-> placed -Mark-> idle
    and, when a step fails:
    failed -Restore-> restored -Persist-> revert -RevertParent-> disown -RevertClaim-> idle
    failed -Restore-> unfunded -Reject-> disown

`BlockRead`, `RestoreRead`, `RecoverRead` and `CancelRead` take the lock before
`PlaceBlock`, `Restore`, `ReapBlock` and `CancelChild`.

`cl` holds what a request or the expiry sweep has read before its conditional
UPDATE, `rp` the list and the place of `reclaim_stranded_parents`. Conditions
that a run turns on are in `Faults`: a commit that raises, a refresh that raises behind
`place_order`'s INSERT, a child order that the engine rejects (`late_cancel`: while a cancel
of it is on its way), the weekly reset, and `live_reaper`, the sweep during a live
fire. Left out: prices (a leg may be observed as crossed at any moment it is
pending), validation of requests, which never changes a row, and order books.

### WSEngine

One user and one symbol without a GTT: indexes and refcounts are kept by user and
symbol and only those of one pair interact. `watch` is the order index, `posref`
the position's entry in `_position_refs`, `refs` the refcount, `feed` whether the
proxy sends the symbol. `th[t].pc` is where a thread is in `place_order`,
`cancel_order`, `_check_and_execute_order`, `_execute_order` and
`_update_position`. The tick thread is a real operating-system thread
(`services/websocket_client.py:22-30`), so its steps interleave with requests even
under eventlet. `pos` is the position's quantity, with sides +1 and -1: enough to
open it and bring it to zero. The position's row exists, as it does once a symbol
has been traded. Margin, the price rules (an order may be filled at any tick), GTT
legs in the index, start, stop and rebuild of the engine, and subscriptions that
the proxy refuses are left out. `untold` is history: orders left open by a request that
failed before it told the engine.

### SandboxLedger

One user and one MIS symbol. `funds` and `pos` are the rows of the account and the
position, `order` the order rows with the margin each recorded, `trades[o]` how often
`o` traded, `net` the sum of all trades (the position as it should be). `th[t]` has the
rows a thread has read and still holds in its session: what it writes is computed from
those, and a commit makes it read again. That is how a lost update arises, and why
`NoOverRelease` needs the guard in `release_margin`. `alone` is a ghost: no two
operations have overlapped so far and none has failed. A share takes `Price` of margin
at any price; profit and loss, the time gates of MIS, GTT margin and deliveries (CNC)
are left out. Quantities matter: partial closes release in proportion and round, a
reversing order blocks for its excess only.

### ActionCenter

`row[i]` is the row with primary key `i`, `item` the order it holds, `sent[k]` how
often the broker received order `k`. A handler is in the middle of a read and its
commit ("deciding", "deleting"), about to execute ("approved"), in the network call
or recording its answer. Two schedulings matter. In production the server is one
gunicorn worker with eventlet, where only a network call yields: `Runs(c)` keeps
other handlers out while one is between a read and its commit. `uv run app.py`
uses real threads: `"threads" \in Faults` lifts that. `NewId` is SQLite's choice of a
key, one more than the largest in use: the id of the last row is given again once that row
is deleted. `reissued` is history: ids that were given again while the broker's answer for
the row that had them was outstanding.

### EventBus

`task[d]` is the life of one callback of one event: admitted under the lock, queued
in the pool, running, done; or dropped at the cap; or refused by a pool that was
shut down. `pub[p]` is where a publisher is in `publish`. Topics only share the
slots, so one topic stands for all. `submit` may also raise after it has queued the
callback, when the pool cannot start a thread (`"thread_fails"`).

### FlowTriggers

`row`, `jobs` and `trigger` are in the database; `alert`, `watch` and `monitor` (`_running`,
the stop event, the thread) are in memory: a `Crash` empties them and registers the
watches of active workflows anew (`restore_order_update_watches`). Every registration has a number, so `flag`
tells a registration from the next one of the same workflow; `fired` counts the runs of a
watch since a request registered it, and the restarts that armed it again. `Update` is
`PUT /flow/api/workflows/<id>`, which may write `is_active` and the name of the job and
touches no registration; `loose` is history: the workflows to which that has happened, or
at which two requests were at once. `run[r]` is an
execution from the queue of its pool through the test of `is_active`, the test of the
lock, the lock, to its end. `monitor.crossed` is history: whether two threads have been in
`_stop_monitoring` at once. `th[t]` is where a request is in activation (alert, watch,
job, row, in the order of the code) or removal, and where a polling loop is in its
cycle; `Workers` bounds each pool. What is waited for is the environment's choice.

### FlowWalk

The graph is chosen in `Init` among *all* graphs of `N` nodes that the strict validator
lets through: acyclic, reachable from the trigger, wires named as the kinds require.
Two edges between one pair of nodes are left out. `stack` is the recursion of
`execute_node_chain`: of each call, the edges it has still to follow, in any order.
`result` is `condition_results`, `visits` the visit budget, `had[n]` (ghost) what the
condition came out as. The kinds are those the walk tells apart.

### ScalpingMonitor

`row[l]` is the stored stop by mode, as the number of the save it comes from; `state[l]`
is the stop in memory; so a stop that a late tick has written back after its deletion
is told apart (`Ghost`); a run begins with rows of the time before (`Old`, of the modes in `Before`). `net` is the
position and `resting` what is on order for it and not filled: the sandbox fills an exit at
once, or accepts it and leaves it open for want of a quote. `lock` is held by a worker that waits for the feed, `late` are
calls that timed out and whose frames are still to be handled, `loop` is the callback
the event loop is in. `failed`, `cleared`, `crossed`, `stale`, `torn` are history: which kinds of
calls failed, which legs an exit cleared, whether an exit has passed its guard in another
mode (the mode could not be read) or the mode has changed since, in which legs the book
moved under an exit or had an order in it that an exit did not see, whether
a clear began, or the connection was lost, between a subscription (of the sync worker or of
the reconnection) and its mark. Whether
a price hits a stop and whether a throttle lets a tick through are free choices, which
cover the trail's arithmetic.

### StrategyHost

`proc[p]` is the strategy that pid `p` is a live process of; `table`, `config` and `disk` are
the three records. `lock` is `PROCESS_LOCK`; `th[t]` has the operation, the strategy and
the pid in hand, and for the loops (enforcer, restoration, starter of pending
strategies) the list they took and the rest of it. A step is what a thread does
between two points at which it may wait. `Deny(p)` withdraws a process
from the server's sight: checks of it may then say that it is dead, each anew. `lost` has
these and the processes that no record leads to; `misled` the strategies that a restoration
called failed while they ran, see section 5.

### WSProxy

One user, as the documentation has it. `client`, `subs`, `index` and `attached` are the
server's tables, `pool` is the connection pool: a sequence of connections with their
counts, what each makes the broker send of every symbol (`feed`), and the connection by
which each subscription is tracked. An unsubscription that succeeds ends the feed or does
not (`Ended`): the adapter of the repository answers success without asking the broker
(`acagarwal_adapter.py:129`), and one that asks ends it. The server is one event loop and its handlers call
the pool without `await`, so a request is one step, with the outcomes of the broker's
calls as its alternatives (`Outcome`): success, error, an error that reads like an
expired token. Where a handler goes through many subscriptions (leaving, restoration)
each is a step. A login in the server's own process (`Purge`) may come between any two.
`lost` is a ghost: the subscriptions whose feed went with a torn pool or with a downgrade
that was refused twice or raised; it forgets them when they are fed again. Left out: sockets,
ZeroMQ, throttling, depth levels, order subscriptions, adapters that stay connected
when the last client leaves (`flattrade`, `shoonya`), reconnection inside an adapter.

## 3. What the runs check

Runs that must pass:

| run | question | bounds |
|---|---|---|
| `gtt_fire` | Can any interleaving fire two legs, undo a fire, or mark a leg that has no order? | one OCO, two evaluators, one request, one crash, commits that fail, children that are rejected, the weekly reset, margins 1 and 2 of capital 3 (2.5 million states) |
| `gtt_recovers` | Is every rupee accounted for but for a lost update, is an armed GTT funded, is `GTTPromise` kept, is an interrupted fire resolved? | an OCO and a single-leg GTT that compete for 2, one evaluator, one request, one crash, fairness (600 thousand) |
| `ac_turns` | Is a decision taken once and an order sent once, and do the rows tell the truth? | three orders, two handlers, ids given again, lost answers, any number of crashes (800 thousand) |
| `eb_slots` | Is `_pending` exact and the cap kept while subscribers come and go and the pool shuts down? | two events, callbacks and publishers, one pool thread, cap 2 (160 thousand) |
| `ws_orders` | Is an order filled once, never forgotten, and the refcount exact? | three orders, two requests, the tick thread, position commits and reads of a status that fail (1.8 million) |
| `ledger_threads` | Is margin ever released that is not there, is cash ever made, does every order trade once, does a fill put the margin right? | two orders of up to 2 shares, one request thread, the poller, capital 4, price 2, one crash or failed commit (2.8 million) |
| `flow_fires` | Can two polling loops or two runs of a workflow coexist, does a one-shot watch fire once for each registration, is a workflow that was switched off silent? | one workflow, one request thread and updates, two loops, two runs, two registrations, one fault (2.9 million) |
| `flow_graphs` | Over every valid graph: is a gate evaluated once and not forgotten, is every node on a branch that was decided so? | 4 nodes, 5 edges, depth 3, 6 visits (7 million) |
| `scalp_stops` | Does a leg have one exit, is never more on order than the position, is no stop cleared before its exit is on order, is every stored stop watched and fed? | one symbol with two products, a table with or without stops of before, two exit workers, one save, deletion or change of the mode, one failure, restart or trade of the user (1.8 million) |
| `host_processes` | Does a strategy ever run twice, is every process on record, is a dead one noticed? | one strategy, two threads, three pids, one crash or unkillable process, one process that may not be inspected, fairness (1.1 million) |
| `proxy_shares` | Is every holder of a subscription fed, is the pool exact, does anything stay behind? | two clients, three modes of one symbol and one of another, two connections of one symbol each, adapters that end a feed and that do not, one refused call, one login (2.0 million) |

One run must be found violated, `flow_alert_dropped` (section 5).

**Why these bounds are enough to be interesting.** Every hazard is a conflict
between two actors over one row, with at most one more to change the row between;
two evaluators and one request give all pairs and triples. An OCO has both kinds of
leg conflict, and two GTTs are needed only where they compete for money. One crash
separates what happened before from what recovery does after, and a second adds
nothing that the first one's rows do not already show. Two margins distinguish "the
larger leg" from "this leg", and a capital of 2 makes a restored reservation fail when
another GTT took it. Cap 2 with up to four callbacks reaches the cap and one pool
thread makes callbacks wait. Three orders let one fill, one rest and one arrive. A
ledger of two orders and quantities up to 2 has partial closes, reversals and a
resting order beside a fill, and capital 4 refuses the third share. Two loops and two
registrations are the old one and the new one. Four nodes with five edges are the
smallest graphs that have a condition, two joins and a gate behind them; a depth of 3
and 6 visits make both limits bite. Two products of one symbol share a feed while each
has its own stop, and a table that may hold a stop of each gives two exits, a clear and a
resync without any request. Three pids are a process, its duplicate and the next; strategies
share no more than the lock. Three modes are needed for "the next lower one", two connections
of one symbol for a full one and a free one; a call of a downgrade that raises counts as one
failure and ends like a refusal of its rollback.

`CHECK_DEADLOCK FALSE` is in every configuration because each model bounds what its
users do (GTTs are placed once each, ids, events and orders run out), so a behaviour
may end with nothing left to do. That nobody waits forever is what `StrandedRecovers`,
`AdmittedRuns` and `DeadIsNoticed` say. The one place where a thread waits for another
with a lock held is the scalping monitor's call of the feed, which times out.

Each property is stated in its module, under a comment that says what it means for
the code. That the tables and the threads keep their types is proved for every module,
as a theorem or as the first part of its inductive invariant (section 6).

## 4. Fairness

* **`GTT!FairSpec`**: weak fairness of an evaluator's next step once it has begun a
  fire, of the reaper's steps once it has begun a sweep, and strong fairness of
  beginning one. The evaluators and the sweeps are loops of daemon threads
  (`sandbox/execution_thread.py:106`, `execution_engine.py:173`) that run as long as
  the process does; a sweep is tried once a minute, so it meets a moment
  between fires, or one in which the lock of the funds is free, if there are such moments
  again and again. A cancel that holds that lock goes on. Nothing is assumed of the
  market (`Observe`) or of users, and crashes are bounded.
* **`EventBus!FairBusSpec`**: weak fairness of a publisher inside `publish` and of the end
  of a callback, strong fairness of the start of a queued callback. The pool's queue
  is first in, first out, so a queued callback's turn comes whenever threads keep
  becoming free. That callbacks end is an assumption on the subscribers, which
  `_safe_call` does not enforce.
* **`StrategyHost!FairSpec`**: weak fairness of the steps of whoever holds
  `PROCESS_LOCK`, for all of its waits have time-outs; strong fairness of the reaper, a
  job of every 60 seconds that waits for the lock, whose semaphore wakes those who
  wait in their order. Nothing is assumed of users, of the scheduler's other jobs or of the
  processes.

The other runs check safety only: whether a price is met, an event arrives or a client
asks is up to the environment.

## 5. Where the code departs from what it says

`flow_alert_dropped` is a run that TLC must find violated: after the polling loop has
queued the run of a one-shot alert it removes the alert (`flow_price_monitor_service.py:301`),
and a worker that takes the run after that drops it for having no alert. The comment at
:394 means that check for runs that were withdrawn. The alert's order is never placed.

The following are seen by changing a configuration, by checking a formula that is
defined and not run, or by leaving an exception out of a property, each within seconds to
minutes.

| change | what fails | what happens |
|---|---|---|
| `"live_reaper"` in the `Faults` of `GTTFire.cfg` | `FiresOnce` | `reclaim_stranded_parents` has no age test: while a worker is between its parent claim and its INSERT, the sweep re-arms the GTT, and both legs of an OCO order |
| `"refresh_fails"` there | `FiresOnce` | `place_order` answers with an error when the refresh behind its INSERT raises (`order_manager.py:781`): compensation arms the GTT again with the child in the book, and the other leg orders too |
| `"late_cancel"` there | `Exclusive`, `FiresOnce` | `cancel_order` writes "cancelled" over the "rejected" of a failed fill, and a GTT that was handed back has a child that counts as fired |
| `Client = {c1, c2}` there | `ReleasesWhatIsHeld` | `cancel_gtt` reads `margin_blocked`, a modify commits a new amount and leaves the status alone, and the cancel's conditional UPDATE releases the old amount |
| `Backed` on `GTTRecovers.cfg` | | `block_margin` and `release_margin` (`fund_manager.py:309-405`) write balances computed from what they read; a GTT's staged move in between is lost, with one client and no fault |
| `"fill_fails"` in `GTTRecovers.cfg` | `ArmedIsFunded` | a rejected child keeps the leg's unique id, so a leg that was armed again can never order |
| the same with two workers and capital 5 | `LedgerExact` | and the second INSERT is refused after its margin was blocked, which nothing gives back |
| `"commit_fails"` there | `ArmedIsFunded`, `LedgerExact` | `_compensate_failed_fire` passes over a commit that fails: the margin was taken back, `margin_blocked` was not written, and the GTT is armed again with nothing recorded |
| `OcoMode = "sum"` there | `ArmedIsFunded` | after a crash behind the release `reclaim_stranded_parents` takes back the larger leg's margin (`gtt_manager.py:1316`), whatever mode the reservation was made in |
| `Client = {c1, c2}` there | `LedgerExact` | the cancel and the modify of the second row |
| `Poller = {p1, p2}` in `LedgerThreads.cfg` | `BookMatchesTrades` | a fallback poller that is told to stop is joined for 10 seconds (`websocket_execution_engine.py:594`), so the next one may start beside it; one fills a stop-limit order and the other, which read it before, writes "open" over "complete" |
| `SendsWhatWasSeen` on `ACTurns.cfg` | | a row is deleted, the next order gets its id, and an approval clicked on the old page sends an order nobody has looked at |
| `RowsTellTruth` without `reissued` | | the thread that records the broker's answer names its row by the id alone: the answer lands on the order that was given the id meanwhile |
| `"threads"` in `ACTurns.cfg` | `SentOnce`, `RowsTellTruth`, `DecisionIsFinal` | under `uv run app.py` a decision's UPDATE does not repeat the condition that was read |
| `"thread_fails"` in `EBSlots.cfg` | `Bounded` | `submit` raises after it has queued the callback; publish and the callback both return the slot |
| `"fallback"` in `WSOrders.cfg` | `FillsOnce` | the fallback poller and the tick thread, or the request that placed the order, both look for a trade before either commits one |
| `CountedIsFed` on `WSOrders.cfg` | | the feed is called outside the lock: the unsubscribe of a dropped order reaches the proxy after the subscribe of the next, and a counted symbol is silent |
| `OpenIsWatched` without `untold` | | a read of the status that raises behind the INSERT (`order_manager.py:765`, 781) leaves an open order that the engine is never told of |
| `PositionIsMargined` on `LedgerThreads.cfg` | | a reducing order blocks nothing; its cancellation (`order_manager.py:970`) releases a recomputed amount, the margin of the open position |
| `SkippedIsReached` on `FlowGraphs.cfg` | | `flow_executor_service.py:2995`: skipping a gate is safe "because the later input's own traversal reaches this gate again"; an input wired from the branch that is not taken never does |
| `"fundCheck"` in the `Kinds` of `FlowGraphs.cfg` | `BranchesAreDecided` | a `fundCheck` saved with a legacy operator opens both branches; the comment at :3039 says neither |
| `InactiveIsSilent` without `loose` | | `PUT /flow/api/workflows/<id>` (`blueprints/flow.py:176-223`, `flow_db.py:231`) writes `is_active` and tears nothing down: the workflow is off and its alert, watch or job goes on; two requests about one workflow do it as well |
| `WatchFiresOnce` without `restarts` | | `restore_order_update_watches` (`flow_order_update_monitor_service.py:302`) arms a once-only watch that has fired |
| `ClearedIsClosed` without its `failed` condition | | a position book that cannot be read counts as flat, and the stop of an open position is cleared (`scalping_risk_monitor_service.py:422`, against :17) |
| `ClearedIsClosed` with "flat" for "on order" | | an accepted exit order of the sandbox may stay open (`order_manager.py:695`, 752); the stop is cleared, and the order may be dropped later (against `scalping_risk_monitor_service.py:16-18`) |
| `NeverReverses`, `ClearedIsClosed` without `stale` | | an exit order that rests is not in the book: a stop that is saved again or resynced sells the position a second time; so does a user who closes it between the book's reading and the order |
| `ClearedIsClosed` without `crossed` | | a mode that cannot be read passes the guard (`scalping_risk_monitor_service.py:405`), and one that changes behind it is followed: the exit goes to the other book |
| two live processes of one strategy, `lost` counted, on `HostProcesses.cfg` | | `restore_running_strategy_process` answers "not running" for a live process that it is refused (`python_strategy.py:2770-2775`), and the restoration starts a second one (:2830-2833) and writes its pid over the first |
| `ConnectedIsUp` on `ProxyShares.cfg` | | `ConnectionPool.connect` answers "Connected" for a connection whose `connect()` returned an error or `False` (`connection_manager.py:551`: "Handle all response formats from adapters") |
| what is sent is tracked; no higher than the highest mode; at most `MaxSymbols` symbols on a connection; on one connection; on `ProxyShares.cfg` | | `unsubscribe` of the adapter (`acagarwal_adapter.py:129-144`) answers success without asking the broker, which goes on sending; the pool counts the room as free |

Observed while modelling, and part of the models' behaviour:

* **Flow.** Price alerts are not restored after a restart while the workflow is still
  active. Activation registers the alert before it commits `is_active`, so its first run
  may be dropped. A watch that fires once is registered again by a restart. The end of a
  run can remove a watch that was added meanwhile. A failed commit of activation leaves
  the registrations alive. A run that meets another one of its workflow uses up a
  one-shot watch. An update that sets `is_active` registers nothing, and one that overwrites
  `schedule_job_id` leaves a job that no deactivation finds. With two request threads
  `OneLoop` fails, for `_start_monitoring`
  (`flow_price_monitor_service.py:175`) tests and sets `_running` without a lock. The run has
  one. Two threads in `_stop_monitoring` at once (a request and the loop itself, say) may both
  find the table of alerts empty, and the later one marks as not running a loop that an
  activation has started in between; the next activation adds another (`crossed`, which
  `OneLoop` excepts).
* **Scalping.** A subscription between the sync worker's call and its mark is lost
  (`torn`); an error returned by `subscribe` is ignored (:262); `_clear_state` calls the
  feed with `_lock` held while the event loop waits for it, a stall until the time-out
  (:471, :206), and `_on_auth` blocks its own loop; a tick that persists a trail after the
  row's deletion writes the row back (`Ghost`); a resync replaces a trailed stop by the stored
  one; in either mode a resync can sell again a position whose exit is accepted and not yet
  filled (`stale`); an exit that is answered with an error may have been committed, and the
  next tick sends another; a table or a mode that cannot be read at a sync leaves stored stops
  unwatched.
* **Strategy host.** A scheduled job that waits for the lock, or
  `check_and_start_pending_strategies`, starts a strategy its user has stopped meanwhile
  (against the documentation at `python_strategy.py:2236`). A crash between `Popen` (:533)
  and the save (:584) leaves a process that no record leads to, and the restart starts a
  second one (`lost`). Restoration calls failed a strategy another thread has just
  started (`misled`), after which Stop no longer stops it. `check_process_status` (:845) calls
  a process it is refused dead, so a stop may report success and leave it running. Stop goes by a stale pid
  (:610) without the comparison of command lines that restoration makes (:2744). Delete
  ignores a failed stop.
* **WebSocket proxy.** A pool that could not be initialised answers with a form of error
  that `authenticate_client` does not recognise (`server.py:910`), so its retry never runs.
  The result of a further connection's `connect()` is ignored (`connection_manager.py:344`),
  and the first connection with room gets every new symbol, dead or not. A downgrade that
  is refused together with its rollback leaves the symbol tracked and silent, and later
  subscribers are told "Already subscribed"; an exception of `subscribe` in a downgrade
  (:804, 841) does the same without a rollback call. After a failed recovery or a purge the pool
  works through new connections but is never `connected`, so the next client that
  authenticates evicts it and silences the others. After an invalidation the subscriptions
  of those who stay are in the index and fed by nothing until they ask again. All of these
  are in `lost`.

## 6. What is proved

TLC shows a property on the bounds above; these hold for every number of GTTs, threads,
orders, events, strategies, clients and connections, and every amount the `ASSUME`s allow.

| theorem | states | under |
|---|---|---|
| `GTTProofs!TypeCorrect` | `TypeOK` | every fault |
| `ConservedAlways` | balance + margin in use = capital | every fault, lost updates included |
| `MarksAreTrue` | `MarkedHasOrder` | every fault, the reaper in live fires included |
| `ExclusionHolds` | `Exclusive` | `Orderly` |
| `FiringIsOnce`, `OwnerStandsAlone` | `FiresOnce`, `OwnerIsAlone` | `Orderly` |
| `WithdrawalIsFinal`, `FiringIsFinal` | two action properties: what was withdrawn or fired stays so | `Orderly`, `NoFillFailure` |
| `ImplementsPromise` | `Spec => GTTPromise!PSpec` under the mapping | `Orderly`, `NoFillFailure` |
| `ArmsAreFunded` | `ArmedIsFunded` | `Undisturbed` (no fault but the reset), mode "max"; any requests, workers, crashes |
| `LedgerIsExact` | `LedgerExact`: nothing but a lost update unbalances the ledger | `Quiet` (no fault), `OneClient`; both modes, any workers and crashes |
| `WSEngineProofs!Types`, `Refcounts`, `NoneForgotten` | `TypeOK`, `RefsExact`, `OpenIsWatched` | every fault, both engines running included |
| `NoDoubleFill` | `FillsOnce` | `NoFallback` |
| `SandboxLedgerProofs!TypeCorrect`, `CashIsConserved`, `ReleaseIsCovered`, `EndIsFinal` | `TypeOK`, `CashAddsUp`, `NoOverRelease`, `TerminalIsFinal` | every fault, any number of pollers |
| `AloneExact`, `FillsReconcile` | `AloneIsExact`, `FillReconciles` | every fault, any number of pollers |
| `BookIsTrue` | `BookMatchesTrades` | `OnePoller`; every fault |
| `ActionCenterProofs!ApprovalIsSentOnce`, `RowsAreTrue`, `DecidedOnce` | `SentOnce`, `RowsTellTruth`, `DecisionIsFinal` | `OneWorker`; ids given again, crashes, lost answers |
| `ActionCenterProofs!SlotsNeverLeak`, `CapIsKept`, `DropsAreForced` | of `EventBus`: `PendingExact`, `Bounded`, `DropsOnlyAtCapacity` | `ThreadsStart` |
| `StrategyHostProofs!NeverTwoProcesses`, `NothingForgotten` | `OneProcess`, `NoneForgotten` | every crash, any number of threads; of the processes the server may inspect and has not lost |
| `WSProxyProofs!HoldersAreFed`, `NothingStays`, `PoolStaysExact` | `SubscribedIsFed`, `NothingLeftBehind`, `PoolIsExact` | every refusal, any number of logins, adapters that end a feed and that do not |
| `FlowTriggersProofs!RunsExclude`, `OnceIsOnce` | `OneRunAtATime`, `WatchFiresOnce` | every crash and failed commit, any number of threads; one run for each registration |
| `OneLoopPolls` | `OneLoop` | `OneClient` |
| `OffIsSilent` | `InactiveIsSilent` | any number of threads; workflows that updates or overlapping requests have not touched (`loose`) |
| `FlowTriggersProofs!GatesFireOnce`, `NoGateLeftBehind` | of `FlowWalk`: `GateFiresOnce`, `GateReached` | every graph the validator lets through |
| `OnlyOpenedBranches` | of `FlowWalk`: `BranchesAreDecided` | no `fundCheck` among the kinds |
| `ScalpingMonitorProofs!OneExitPerLeg`, `NothingIsSoldTwice`, `StopsEndFlat`, `RestsWatchful` | `OneExit`, `NeverReverses`, `ClearedIsClosed`, `SavedIsFed` | every failure, restart, change of the mode and trade of the user, with what each property excepts |

Every invariant and action property of the passing runs is stated by one of these.

The hypotheses are not conveniences: section 5 shows the property false without
`Orderly` (no sweep during a live fire, no refresh that raises behind an INSERT, no cancel
of a child while its fill fails), `NoFallback` (one engine), `ThreadsStart`
(the pool can start a thread), `OneWorker` (the production server), `OnePoller`, `OneClient`,
the kinds without `fundCheck`, and the hypotheses of the two theorems
about money. What a property excepts by a history variable (`raced`, `reissued`, `untold`,
`loose`, `restarts`, `crossed`, `stale`, `torn`, `lost`, `misled`) happens in the code, and
section 5 says how; the theorem then says that nothing else breaks it. `LedgerExact` also fails with `"funds_reset"`, because `_reset_funds`
(`fund_manager.py:172`) sets the margin in use to zero under rows that still claim theirs,
and both fail with `"live_reaper"`. `NoFillFailure` (a resting child is not rejected by
the engine) is needed because a rejected child does not count as a fire: the GTT would
be "fired" and then not.

**GTT.** `FiresOnce` is not inductive, and leg statuses cannot make it so: compensation
and recovery hand legs back. What does is `Exclusive`: whoever is between the parent
claim and the INSERT owns the parent row alone, the GTT is on `triggered` and has no
order; what is on the reaper's list is on `triggered` and has no owner; a GTT with an
order is on `triggered`; its orders are one. It is checked by `gtt_fire` as an
invariant, and proved by three lemmas: a step that decides nothing keeps it
(`ExclusiveFrame`), a step that takes a GTT which has not fired away from `triggered`
keeps it if nobody owns that GTT afterwards (`ExclusiveDecide`), and then one case per
action. `TurnTrue` says that whoever holds the lock of the funds is where it was when it read,
and writes what its row says. `StepEffect` sums up every action in one of three forms (decides a GTT,
inserts an order, or neither), from which finality and the refinement follow. `MarkedHasOrder`
needs only that a worker behind its INSERT has its order in the book (`PlacedIsInBook`) and that
no order leaves the book, so it holds under every fault.

*Its money.* `ArmedIsFunded` speaks of rows at rest, and what is not in a row is in somebody's
hands: `Settled` says of every GTT under fire that its row holds all of what its larger leg
asks for or nothing; of the worker that owns it that in the second case it remembers the
amount; and of the reaper that it asks for exactly what the row has lost. That one owner
decides (`Exclusive`) is what lets a thread rely on what it read. `LedgerExact` is about
sums. The sum of a function with values in `Nat` is the cardinality of the set of its units,
`Sum` in `GTT`, so that the library's facts about cardinalities stand in for an induction
that the provers lack; one lemma says how a sum changes when one summand does (`SumChange`).
Until a write meets balances that have moved since it read them (`raced`), every step that is
not a crash is `Balanced`: it changes the margin in use by as much as it
changes what the orders, the rows and the threads own. For a cancel that is so because the
amount it has read is still the row's, or, when a fire took the row over, the amount that the
fire carries (`Known`); with a second request it is not. A crash can only strand what threads
had in flight, which is why in-use is at least what is owned ever after.

**WSEngine.** `RefsExact` needs that an order enters the index once and leaves it once.
`Arriving`: a request that has yet to notify the engine has an order that is not in
the index, and is the only one that has it. `Leaving`: only the tick thread drops
orders, what it holds is in the index and is not among what it has still to do.
`Known`: whatever a thread or the index knows of has been placed, so a new order is
none of these. `FillsOnce` needs in addition that a thread about to record a trade is
looking at an order without one (`OneFill`), which rests on `Arriving` and on
`place_order` notifying the engine only after its own immediate execution.

**SandboxLedger.** The invariant says of the tables that they are of their types and the
accounts sound (both balances add up to the capital, neither margin is negative), and of
every thread that *the rows it has read are as sound as the table's*: a thread writes
what it computes from them, at any later time. `ShareOf` is the arithmetic of a
proportional release: a share of the margin, rounded down, is no more than the margin.
`EndIsFinal` is a fact about one step and the threads' hands, without an invariant
of the account.

`AloneIsExact` and `FillReconciles` say what holds while nothing has overlapped. `Solo` is
the invariant: one thread at most is at work, and what it has in hand is what the tables
hold (`Own`): the row of its order, the position as it was before its fill, the total it is about
to write. `BookMatchesTrades` has to hold with overlaps. `Booked`: an order being placed is in
nobody else's hands (`PlacesAlone`), one that its own request fills never rested for a trigger
(`FillsOpened`), and one whose trigger is met has not traded (`Untraded`). The last is where a
second poller would come in.

**ActionCenter.** Ids are given again, orders are not: an order is in one row at a time
(`OneRow`). `RowInv` relates a row's status to how often its order was sent, and `HandlerInv`
says what a handler knows: of its row until it has read it for the last time, then of the order
it took from it, whichever row has the id by then. `Apart` says that two handlers do not send
the same order. Under `OneWorker` nobody is between a read and its commit when another one
reads, so what was read still holds.

**EventBus** (the last section of `ActionCenterProofs`). `PendingExact` needs `Handover`:
publishers work on different callbacks which the pool does not have, and one that gives a slot
back has a refused callback. The cap is then `pending <= MaxPending`, and queued or running
callbacks are some of the slots.

**StrategyHost.** One process is not inductive: it follows from where the pid of a live
process that the server may inspect may be. Table and configuration agree wherever both have a live pid (`Inv`); a
live process that the table lacks can only be there before a restoration has run, which
is when nothing is started (`Tamed`); who is starting or stopping holds the lock; and
every live process of a strategy that is being started or stopped is the one in hand.
`NoneForgotten` adds `Recorded`: a live process is being started, or configuration and file both
have its pid, or a restoration has called its strategy failed. Few steps matter: `Tame` describes
those that give no process, delete nothing and write no pid, and `RecordedStays` is what they
share.

**WSProxy.** The index is what the clients hold; what a client holds is tracked, lost, or
on the list of a restoration; and of every symbol either everything tracked is fed
(`Heard`) or whatever is not fed is lost (`Missed`). The last is what makes it
inductive: a mode that is dropped, sent lower or counted again is reasoned about one
symbol at a time, and `CoveredElsewhere` says that the other symbols do not notice.
`SubscribeAdds` and `UnsubscribeRemoves` sum up every outcome of the two operations of the pool,
over all failures, in terms of what is tracked and fed, and each action follows from
them. The highest mode of a set exists because the numbers are well founded
(`WFMin`). Only authenticated clients hold anything, and a user without an adapter has
an empty pool: so the last one to leave may drop it.

`PoolIsExact` is about what the pool tracks, not about what the broker sends. It needs of the
pool, without the clients, that a symbol is on one connection with all of its modes (`On`), and that a
connection's count is the number of symbols that are on it (`Counted`). A subscription, an
upgrade, a downgrade and its rollback are each shown to move one symbol (`Moved`) and to change
the counts by one or not at all (`Recounted`).

**FlowTriggers.** `Marked`: a workflow is in `pending` exactly while one thread has its
alert's run queued or under way, and no other thread has one. `Exclusive`: nobody holds a
lock that another thread holds, although each asked for it some steps before it took it.
`Counted` is about the watches: a registration number belongs to one workflow, in the
table and in the runs it queued; and a one-shot watch has queued one run at most more than
restarts have armed it, none more while it is armed (`Due`). So a latch given back for an
every-time watch never re-arms a one-shot one, and a restart is the only thing that does.

`Loops` says what `_running` stands for: a loop that has not been told to stop is the
monitor's, which is running, and who starts one has seen that none is running. `Silent`
follows a request through the removals in their order: behind each of them the alert, the
job, the watch is gone (`Held`), and a job is known to its row, so that it is removed with
it. Another request about the same workflow would put one back, and an update of the flag
removes none: the workflows to which that has happened are left out (`loose`).

**FlowWalk** (the last section of `FlowTriggersProofs`). `Once`: a gate has a result exactly
when it has been evaluated, once. `Reached`: a gate whose inputs are all there and which has
not been evaluated has an edge on the stack, `Pending`, so a run cannot complete without it; the
last input to arrive puts it there. `Decided`: every edge on the stack comes from an executed
node and, if it is the branch of a condition, from one that came out that way.

**ScalpingMonitor.** `Single` and `Holder` are about the threads: exits under way are of
different legs, exactly those in `_exit_inflight`, and the lock is held by the worker that is
about to drop its symbol, which no stop in memory needs. `Sold`: behind its guard an exit has
the mode there is and the quantity there is, with nothing on order beside it (`Sized`), of a leg
whose book nobody else has moved, and a stop about to be cleared has its position flat or on
order (`Flat`). `Watches`: the table and what is in memory agree,
unless somebody has yet to ask for a sync, an exit has cleared the leg, or a sync could not
read the table or the mode. `Feeds` follows each
symbol of a stop in memory: it is marked or about to be; what is marked is on the feed, or on
its way there in a call that timed out and is made late; and nobody who drops a symbol has one
that a stop needs. That breaks where a clear runs between a subscription and its
mark, which is `torn`.

**Only model-checked.** The liveness properties `StrandedRecovers`, `AdmittedRuns` and
`DeadIsNoticed`: fairness and `ENABLED` are out of the provers' reach. `DroppedIsWithdrawn` is
false, and the run that checks it shows where. What the theorems say only under a
hypothesis, the runs check under the same one.

## 7. What is not modelled

* Numbers beyond what decides a comparison: prices, profit and loss, leverage, the trail's
  arithmetic. The price rules of order types and of triggers (`leg_is_triggered_by`,
  `_process_order`, `evaluate_trail`) are pure functions of one tick.
* The thread manager's automatic upgrade of the engine (`execution_thread.py:355`), and the
  GTT part of the WebSocket engine's index: `_drop_gtt_leg` (`websocket_execution_engine.py:434`)
  decrements whatever it finds.
* Settlement: `holdings_manager.py:241` commits between the steps of one position.
* Atomicity that the code takes from its scheduler, and that the models take over: under eventlet the strategy host's
  unlocked writes of flags in `index()` and the proxy's handlers do not interleave, and the
  models do not split them. `save_configs` that fails without a word and pids reused by
  other programs are left out.
* The reconnection of a broker's connection below the proxy and its adapters, and the
  scalping client's surrender after five attempts to reconnect.
* The webhook's cached row, executions left on "running" by a crash, imports and exports
  of workflows; an update (`PUT /flow/api/workflows/<id>`) that gives an active workflow
  another graph, whose registrations stay those of the old one.
* Broker plugins, the REST layer, web pages, analytics, charts and history: translation
  and I/O, or arithmetic without shared state.
* SQLite itself. A transaction that begins with an UPDATE is atomic because SQLite
  serialises writers; where a transaction begins with a read that another writer can come
  between, the read and the write are two steps (`block_margin` and `release_margin` in
  `GTT`, the decisions in `ActionCenter`, the rows held in `SandboxLedger`). `GTT` takes the
  weekly reset as one step. Lock timeouts appear as commits that fail.
* After a crash: the WebSocket engine's index, which is built anew from the open orders.

These are a large part of the repository by lines, most of it in the last but one item:
broker plugins, pages and analytics have no state of their own that two actors share.

## 8. Plan

Done: `GTT` with its promise, `WSEngine`, `SandboxLedger`, `ActionCenter`, `EventBus`,
`StrategyHost`, `WSProxy`, `FlowTriggers`, `FlowWalk` and `ScalpingMonitor`, with proofs.
Next, in this order:

1. `EngineControl`: start, stop, upgrade and fallback around `WSEngine`, and GTT legs in the
   index.
2. `Settlement`: T+1 and catch-up as crash-prone jobs over stale lists.
3. Market data freshness, OAuth rotation, the strategy book's buffer; the price rules as
   operators against reference definitions.
