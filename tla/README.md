# TLA+ models of qaexchange-rs

These modules model the parts of qaexchange-rs in which several threads, a crash,
a lost message or a full queue decide whether the program is right: the order
router with matching, risk and accounts; the hybrid storage and what is restored
from it; elections and the replicated log; the services around the router; market
data, factors and the indexes. TLC checks them on small instances; TLAPS proves
what matters most of the router, the hybrid storage, elections, the replicated
log, the priority queue, trading sessions and three services, for any number of
threads, nodes, accounts and orders (section 4).

To check: `tlc -workers 2 -config <X>.cfg <module>` for every row of the table of
runs (section 3), `tlapm <module>` for the modules named in section 4.

## 1. The system

Paths are below `src/src/`. "State" is what outlives a call.

| Component | State | Operations | What makes it correct |
|---|---|---|---|
| Order router (`exchange/order_router.rs`) | `orders` (status, filled volume, engine id), `user_orders`, `engine_id_to_order`, tick buffer | `submit_order`, `cancel_order`, `route_to_matching_engine`, `process_matching_results`, `handle_ioc_remaining`, `restore_orders_from_accounts`, tick flush worker | status, account, tracker and book agree on an order; no fill is lost or applied twice |
| Matching (`matching/engine.rs`, the qars library) | one order book per instrument behind a lock | `process_order` | price/time priority; nobody trades more than asked |
| Trade gateway (`exchange/trade_gateway.rs`) | registries of per-instrument and account WALs, notification senders | `handle_order_accepted_new`, `handle_trade_new`, `handle_cancel_accepted_new`, `update_account` | WAL, recorder and account see the same events; the journals can be replayed |
| Pre-trade check (`risk/pre_trade_check.rs`) | `active_orders` per account | `check`, `register_active_order`, `remove_active_order` | the tracker covers what rests in the book |
| Accounts, capital (`exchange/account_mgr.rs`, `capital_mgr.rs`, `service/http/transfer.rs`) | accounts behind a lock each, two stores of records | open, close, deposit, withdraw, transfer, snapshot, restore | records explain the money; accounts survive a restart |
| Users (`user/user_manager.rs`, `user/recovery.rs`) | users, name, phone and mail indexes, roles, bindings | register, bind, change roles, recover | a stored user survives, with its roles |
| Settlement and risk (`exchange/settlement.rs`, `risk/risk_monitor.rs`) | settlement prices, history, liquidation queue; alerts, loops | `daily_settlement`, force close worker, `force_liquidate_account`, `do_risk_check` | a settlement ends; a queued liquidation gets through; what is over the line is noticed |
| Trading sessions (`exchange/trading_session.rs`) | exchange and instrument states | the calendar thread, `set_global_state`, `set_instrument_state`, `validate_order`, `validate_cancel` | orders pass only in a session that permits them |
| Conditional orders (`exchange/conditional_order.rs`) | orders and their index by instrument | create, cancel, `check_triggers` | every order triggers at most once |
| Priority queue (`exchange/priority_queue.rs`), call auction (`matching/auction.rs`) | three queues; none | enqueue, dequeue; clearing price | urgent first, nothing lost; the most volume is executed |
| Hybrid storage (`storage/hybrid/oltp.rs`, `storage/wal/manager.rs`, `storage/memtable`, `storage/sstable`), compaction, checkpoints | WAL files, MemTable, SSTables, counters, checkpoint files | `write`, `write_batch`, `flush`, `recover`, `create`, merge, `create_checkpoint` | what was acknowledged survives and can be read |
| OLAP conversion (`storage/conversion`) | persisted records of conversions | scan, convert, retry, zombies, cleanup | a source is gone only when its copy exists |
| Recovery (`storage/recovery.rs`, `storage/unified_recovery.rs`) | the journals | replay, windows of time | the newest state of everything |
| Elections (`replication/role.rs`, `failover.rs`, `heartbeat.rs`) | role, term, vote, votes received | detector, election timer, vote and heartbeat handlers | one vote and one master per term |
| Log replication (`replication/replicator.rs`), gRPC service (`replication/grpc.rs`) | log, commit index, next and match index; term, vote, log, snapshot files of the service | append, replicate, apply, commit; append, vote, heartbeat, stream, snapshot | committed entries stay; what was answered is kept |
| Notifications (`notification/`, `storage/subscriber.rs`) | priority queues, duplicate cache, gateways, sessions, batches | publish, dispatch, batch, write | in order everywhere; what was taken is stored |
| DIFF protocol (`protocol/diff/`, `service/websocket/diff_handler.rs`) | snapshot and pending patches per user; sessions | `push_patch`, `peek`, merge; login, subscribe, peek | patches once and in order, no lost wake-up |
| Older WebSocket protocol (`service/websocket/session.rs`, `handler.rs`, `market/broadcaster.rs`) | sessions, subscriptions, bounded channels | subscribe, broadcast, poll, requests | events and answers in order; what is listed is sent |
| Market data (`market/kline*.rs`, `market/snapshot_generator.rs`) | open and finished bars, statistics of the day | tick, timer, replay, snapshot | bars agree with ticks |
| Factors (`factor/`) | ring buffers, DAG, WAL of values, checkpoints | update, add and remove nodes, execute, save | step by step equals the definition |
| Lookups (`storage/index`, `storage/sstable/block_index.rs`, `query/hybrid.rs`, `query/unified.rs`, `storage/hybrid/batch_source.rs`, `cluster/consistent_hash.rs`) | indexes, stream buffer, ring and cache of routes | insert, query, route | every path finds the same |
| DSL, Polars queries, IPC, utilities | see PROJECT.json | | |

How they interact: an HTTP or WebSocket handler calls the router, on its own
thread or through the one handler thread of the older protocol. The router calls
the pre-trade check, locks the account to freeze margin, takes the lock of one
order book to match, and **gives it back before it handles the events of the
match**: for each of them it updates the order under the order's own lock and
calls the trade gateway, which appends to the WAL, records the trade, locks the
account and spawns tasks that push DIFF patches and notifications. Storage is
reached through a subscriber and its channel.

Not everything is reached from `main.rs`. It starts the router, accounts, users
and their recovery, the storage subscriber, the conversion manager, the snapshot
generator (to which nobody subscribes) and the services. It creates the risk
monitor and never starts it. Replication, the unified and the market recovery, the
priority queue, the trading state machine, the secondary indexes, the unified
query engine and the hash ring are built and tested, and called by nobody at
start. Models of those say what the component promises a caller.

Hard behaviours, by kind (PROJECT.json "hazards" has each one at its line):

- *interleaving and stale state*: everything the router does between two of its
  locks; check and act apart in the FOK check, the funds check, `cancel_order`,
  `withdraw`, `close_account`, `handle_vote_request`; a WAL rotated by two writers, or
  opened by two first users; a term's lock given back before the log is written;
- *partial failure*: a WAL write that fails after the match; a write that fails
  with its bytes still in the buffer; a batch that is tried again; a role
  change stored before its registration;
- *crash and restart*: torn entries, counters that start again from 0, an empty
  newest file, snapshots of accounts older than the book, half-written checkpoints;
- *unreliable delivery, retries*: votes, appends and heartbeats late, twice or never;
  notifications published twice; conversions retried while a zombie still works;
- *ordering*: events of one match handled late; bars closed by the timer or by a tick;
- *liveness*: an IOC remainder that must leave the book, writers that must
  return, a lost wake-up in `peek`, conversions whose worker died, a settlement
  that sends into a bounded queue;
- *resource bounds*: full queues of notifications, of sessions and of factor values;
- *numeric edges*: `filled_volume` assigned and added to, medians of even
  groups, commit indexes that move backwards, sliding windows.

## 2. Modules

One module per component, and four modules that compose them into instances.
Components that share no state share a run all the same: `MCServices`, `MCFaults`,
`MCShared` and `MCSequential` have a variable `part` that the initial state
chooses; only that part moves, so that the state spaces add up. A property of a
part is asked for in that part only, since in the others its state does not
change. Where a part is restricted further, the MC module says so next to its step.

| Module | Models | Checked by |
|---|---|---|
| `OrderBook` | the qars book, from how the router uses it (external) | with `OrderRouter` |
| `OrderRouter` | router, gateway, pre-trade check and account, per thread | `router`, `router_seq` |
| `OrderRouterProofs`, `OrderRouterLedger` | theorems about `OrderRouter`: status, tracker and margin against the book; what is added up, IOC, FOK and self-trade | TLAPS |
| `Sums` | lemmas about sums over finite sets | TLAPS |
| `DurableLog` | what the storage promises a writer (abstract) | refined in `storage` |
| `HybridStorage` | WAL, MemTable, flush, compaction, checkpoint, crash, recovery | `storage`; `HybridStorageProofs` |
| `Failover` | elections and heartbeats | `faults` (elections), `double_vote`; `FailoverProofs` |
| `ReplicationRpc` | the gRPC service of one replica | `faults` (rpc); `FailoverProofs` (votes) |
| `UserManager`, `AccountRecovery`, `UnifiedRecovery` | users; accounts and resting orders; the unified journal: across restarts | `faults` (users, accounts, recovery) |
| `GatewayJournal` | the gateway's WALs, opened by concurrent handlers | `faults` (journals) |
| `TickFlush`, `KLines`, `SnapshotGenerator` | ticks to storage; bars; snapshots of the market | `faults` (ticks, klines, snapshots); `HybridStorageProofs` (ticks) |
| `DiffSession` | the DIFF sessions of one user | `faults` (sessions) |
| `FactorStore` | WAL and checkpoints of factors | `faults` (factors, states) |
| `LogReplication` | the replicator of every node | `shared` (log); `LogReplicationProofs` |
| `OrderPriority`, `TradingSessions` | priority queue; trading state machine | `shared`; `AdmissionProofs` |
| `Notifications` | broker, gateways, storage subscriber | `services` (storage, gateway) |
| `PatchLog`, `DiffSnapshot` | what the snapshot manager promises (abstract), and the manager | `services` (diff); `ServicesProofs` |
| `JsonMerge`, `CallAuction` | merge patches; the clearing price: algorithms | `services` (json, auction) |
| `ConditionalOrders`, `Conversion`, `Capital` | as named | `services`; `ServicesProofs` |
| `Settlement`, `RiskMonitor`, `WsSession` | as named | `services` |
| `FactorEngine` | sliding windows, Welford, RSI; the graph and its executor | `router_seq` |
| `RecordQueries`, `HashRing` | indexes; queries over stream, storage and files; the ring | `router_seq` |
| `MCOrderRouter`, `MCHybridStorage`, `MCSequential`, `MCFaults`, `MCShared`, `MCServices` | instances | |

### OrderRouter

One thread runs one client call. `pc[t]` is the section the call has reached,
`cur[t]` its order, `todo[t]` the events of its match it has not handled yet. An
action is one section: what the code does under one lock or between two.

| Code | Actions |
|---|---|
| `submit_order_with_options` up to the funds check | `SubmitOrder`, `FokPrecheck` |
| `send_order` under the account lock | `FreezeFunds` (with the second check of the funds) |
| insertion into `orders`, `register_active_order` | `RegisterOrder` |
| routing that fails | `RouteError`, `RouteRefused` |
| `process_order` under the book lock | `RouteToMatchingEngine` |
| Accepted event | `AcceptStatus`, `AcceptMap` (the reverse map comes later) |
| Filled / PartiallyFilled of the taker | `TakerStatus`, `TakerTrade` |
| ... of the maker, found through `engine_id_to_order` | `MakerStatus`, `MakerTrade` |
| WAL append fails in the gateway | `TradeFails`, and the second disjunct of `AcceptMap` |
| `handle_ioc_remaining`, `cancel_order` | `IocCheck`, `ClientCancel`, `CancelCheck`, `CancelBook`, `CancelStatus`, `CancelRelease` |

Abstractions. One instrument and offset OPEN; margin is one unit of money per lot.
One number stands for the three ids an order has (order id, qars id, engine id);
the maps between the ids are sets of the orders entered so far, because *when* an
id is entered is what matters. The two fills of a match are one record with a
maker and a taker. A deal releases the whole freeze of the order, as
`receive_deal_sim` does. `persist_tick` and order-book persistence only log their
errors, so the WAL appends of the gateway are the fault points. The trade recorder
is written before the account is updated, as in `handle_trade_new`.

### HybridStorage and DurableLog

A record is a number, in the order of its timestamps; a WAL file is the set of its
entries with a state: `whole`, `stray` (fewer than four stray bytes at the end,
which replay reads over), `broken` (replay fails). Writers draw a sequence from
the atomic, look at the file size, perhaps rotate, append under the file lock,
insert into the MemTable and perhaps flush: one action each. `file_size` is raised
before the lock in `append` and after it in `append_batch`; both orders are in the
model. A failing write leaves the entry in the `BufWriter` (`unflushed`): the next
write of the file, or the drop of the writer on rotation, brings it to disk
although its call returned an error. `Crash` keeps the disk and drops the rest,
and may tear the entry that was being written; `Open` is `create` with
`open_existing`, followed by `recover` or `recover_from_checkpoint`. `DurableLog`
knows a log, the records acknowledged, and those that truncation took away;
`HybridStorage` implements it with `log <- InWal` (the property
`ImplementsDurableLog`).

Abstractions. Sizes count records. The old `BufWriter` is assumed to reach the
disk when it is dropped on rotation; directory entries are durable. One checkpoint
is kept and one merge runs at a time.

What fails. An append fails with its entry in the buffer. A rotation fails
(`RotateFails`, `manager.rs:625-636`) before the new file, or with its header whole
or half written; the old file stays the current one. A flush fails (`FlushFails`)
with a file that is not whole; with a whole file, at its sync, and the MemTable as
it was; or, because `try_flush` clears the MemTable (`oltp.rs:417`) before it opens
the file (`:420`), with a whole file that is neither opened nor registered and an
empty MemTable. The records are then in the WAL and in that file, and no query
finds them until a restart replays the WAL. The history variable `orphans` has
these files: `AckedVisible` and `FlushedRegistered` say that nothing else is
missing.

### Failover

`role`, `current_term`, `voted_for` and `votes_received` have a lock each. Every
handler is split where it gives a lock back: `handle_vote_request` is
`ReceiveVoteRequest` (message and first read of the term), `RaiseTerm`, `Follow`,
`ReadTermAgain`, then `RejectVote`, or `DecideVote` and `GrantVote`. A node runs
as many calls at a time as it has `Threads`. `Spec` interleaves them freely;
`SerialSpec` lets a call begin only when none is under way. Steps of different
nodes share only the network, so serialising calls over the whole group stands for
serialising them on each node. The code does not serialise them: what the
elections of the `faults` run show holds of the code only under a caller that
does, and `double_vote` shows what happens otherwise.

Abstractions. The transport is external (`failover.rs` leaves sending to its
caller): a message is delivered once, late, or never. Timeouts are
nondeterministic. Log and commit index of a node do not change during an election.
The two detectors (`start_failover_detector` and `start_timeout_checker`) do the
same to the state and are one action. `set_term` takes the locks of term and vote
in one step.

### The replicated log: LogReplication, ReplicationRpc

`LogReplication` runs `replicator.rs` on every node: `AppendLog`, the request
built from `next_index`, `apply_logs`, the response and `update_commit_index`. A
request is a message that may be delivered any number of times, late or never (the
client retries a call whose answer was lost); an answer is handled once or lost.
An election is one step: a majority of voters, each comparing the candidate's last
sequence with its own *commit index*, as `handle_vote_request` does. That step
hides the steps of `Failover`; the two share no run.

Not claimed, because the code does not have it: a slave's commit index may move
back (`replicator.rs:243`), and entries of an old term are never taken out of a
log: the log is checked with old masters that leave nothing of their own on other
nodes. Both are in "hazards".

`ReplicationRpc` is the gRPC service of one node. Every handler is cut where it
gives a lock back (term, log, vote and commit have one each), two handlers run
together, and appends are called again. The leaders are external: nothing in
`src/` builds their requests; their logs are constants. `AckedKept` and
`VotesKept` are conditional on the set `mishaps` being without the ones that break
them: an append that comes after a longer one of the same leader removes what was
answered for (`grpc.rs:243` keeps only smaller sequences and equal terms), a
leader of an old term gets in between the check of the term and the write of the
log, a snapshot's term is compared with nothing, a heartbeat raises the term in
two steps. After the first mishap a behaviour is not followed further. A snapshot
stream may break, which installs nothing, or end before its last chunk
(`SnapshotEndsEarly`), and what came is then installed all the same.

### Restarts: UserManager, AccountRecovery, UnifiedRecovery, GatewayJournal

`UserManager`: registrations by concurrent calls (check of the names, insertion,
write), bindings and role changes, a storage that loses a write, a crash, and
`UserRecovery`, which puts records in order by their second and applies them one
by one. `UsersSurvive` does not promise a role changed before its registration was
written, nor that a user without roles stays without (it comes back as Trader).

`AccountRecovery`: accounts opened, orders that freeze, match and finish in the
steps a snapshot can come between, snapshot files written one by one, torn or left
old, the account WAL, and a start in main's order: snapshots, WAL, freezing,
orders. `AccountsRestored` says that after any crash the book has no more of an
order than the account, and exactly as much when the snapshots were up to date;
and that all accounts are there when they were. The WAL adds none: the subscriber's
storage writes `{storage}/__ACCOUNT__/wal` (`oltp.rs:112`, `main.rs:560`), the start
reads `{storage}/wal/__ACCOUNT__` (`main.rs:905`, `storage/recovery.rs:57`), and the
model keeps the two apart (`StorageDir`, `RecoveryDir`). If they were one, a record's
user id, cut to 32 bytes of a UUID's 36 (`subscriber.rs:230`), would not be found by
`open_account` (`account_mgr.rs:103`, `UserFound`). Run `account_wal` shows an account
whose stored record does not bring it back.

`UnifiedRecovery`: one journal with entries of concurrent writers, who take a
number before they have the file, and a recovery with any window of time and any
kinds of records. An AccountUpdate is looked up by its field `user_id`
(`unified_recovery.rs:652`), into which the gateway puts the account's id
(`trade_gateway.rs:1595`) and the subscriber its first 32 bytes: updates of longer
ids (`LongIds`) find no account, and `RecoversNewest` does not count them.
`GatewayJournal`: the two WALs an event is written to, with
managers looked up and put into the map in two steps, a header that is written
after the file is made, failing flushes and crashes. `JournalKept` excepts
directories opened twice in one run and files left without a header (`spoiled`):
both make the journal unreadable, and the run stops there.

### Market data: TickFlush, KLines, SnapshotGenerator

`TickFlush`: threads fill the buffer, flush workers drain, write and, if a batch
fails, put it back in front. `stop_batch_flush_worker` waits 100 ms, not for the
thread, so two workers may overlap; then order is not claimed. `KLines`: ticks
through the channel of the actor, bars finished by a tick or by the timer, gaps,
late ticks, the WAL of bars and its replay. `SnapshotGenerator`: one channel from
which every subscriber's forwarding thread takes, so that a snapshot goes to one of
several subscribers. A comment in `start` (`snapshot_generator.rs:257`) and
`docs/03_core_modules/market/snapshot_generator.md:12` say that it is broadcast to
all of them. `SnapshotsKept` says neither that all get it nor that only one does: no
snapshot is lost but one with each subscriber that hangs up, and each subscriber
sees what it sees once and in order.

### Sessions: DiffSession, WsSession

`DiffSession`: sessions of one user at the level of their actor's mailbox, with
peeks, streams of quotes and the removal of the user as tasks that go on after the
session. It uses what `PatchLog` promises of the snapshot manager. Order is not
claimed of a stream replaced before it was empty.

`WsSession`: the older protocol. A Subscribe adds to the session's list and
*replaces* the broadcaster's subscriber by what this message names, on a new
bounded channel; older listeners drain what is left for them. Listeners run on
timers that go off in turn, drop half of a backlog and send a batch.
`MarketInOrder` does not speak of sessions that subscribed again while more was
waiting than one batch, `ListedAreSent` only of a session that subscribed once and
was not dropped as slow. One handler thread answers all requests. Requests and
market data of a session share nothing, and `MCServices` checks them apart.

### Notifications, DIFF snapshots and their abstract specification

`Notifications`: `publish` (duplicate cache, queue by priority, refusal when
full), the processor with its quotas, one gateway with batches for sessions, and
`StorageSubscriber` with its buffer, timer and failing writes. `DiffSnapshot`:
`push_patch`, `peek` with `notified()` and its timeout, `initialize_user`,
`remove_user`, by concurrent tasks that may hold a state the manager has dropped.
It implements `PatchLog`, whose queues are the `pending_patches` of the states a
user has had (`ImplementsPatchLog`): a patch is handed out once, to one peek, in
order, and at last, unless the user is removed. `JsonMerge` is `merge_patch` and
`create_patch` as recursive functions over small JSON values: what `create_patch`
makes brings `original` to `updated`, as far as the format allows (a null cannot
be set).

### Accounts, orders and settlement

`Capital`: `open_account`, `close_account` (which removes the account before its
checks), `deposit` and `withdraw` with and without records, the HTTP handlers and
bank transfers with their own store, and what `get_all_transactions` tells of both,
by concurrent calls. Two withdrawals that were both covered may overdraw; the
records still add up. What is told does so only while an account's transfers fit
one page: `get_records` without a page gives the first 20 (`transfer.rs:97`,
`PageSize`), and neither handler asks for another (`management.rs:241`, `:313`).
`get_transactions` tells of the transfers alone: it asks the capital manager for the
user's id (`management.rs:234`), and the records are kept under the account's.
`Settlement`: `daily_settlement` in its phases by several callers, the bounded
queue, the worker, `force_liquidate_account` and an account that goes on trading.
`RiskMonitor`: loops that may be left over from an earlier start, alerts with a
limit, levels. `ConditionalOrders`: `check_triggers` holds the index of an
instrument over all its orders and an order's entry while the router answers.
`CallAuction`: the clearing price against its definition: no price executes more.
`OrderPriority`: calls look at one queue after the other, each behind its own
lock. `TradingSessions`: the calendar, the thread that follows it, states set by
hand, and calls that read the clock twice.

### Conversion and FactorStore

`Conversion`: the scheduler's pass (find, group, write a record, send), workers
(convert to a temporary file, rename, archive the sources), zombies, retries,
crashes at every step. The scan takes `oltp/*.rkyv` of an instrument
(`scheduler.rs:135`, `:203`) while the storage writes `sstables/*.sst`
(`oltp.rs:391`): the sources of the model are files that something outside of `src/`
puts there. `SourceProtected` holds in the `services` run because
batches of one pass do not reach one name there: with two batches in one second
they do (run `conversion_overwrites`). `FactorStore`: a bounded channel whose full
end drops values, group commit, shutdown, replay; checkpoints by several savers
that clean up behind each other.

### Algorithms: FactorEngine, RecordQueries, HashRing

Numbers of `FactorEngine` are whole (inputs are multiples of 12, so that the
quotients are exact); every operator is compared with its definition over the last
inputs. Graphs: a value is the set of sources and settings it was computed
from, so a stale value is seen as such; maps are iterated in any order. Nodes that
lost their last dependency after a sort keep their depth, and levels are then not
claimed (`dag.rs:347`). `RecordQueries`: what the indexes by time, instrument and
type and the sparse block index find is what a scan finds; and queries
over stream buffer, storage and files answer by the cutoffs of the code. `HashRing`:
routes computed, cached and invalidated while nodes come and go.

## 3. Runs

| Run | Question | Bounds |
|---|---|---|
| `router` | Do router, tracker, accounts and book agree under every interleaving of two calls? Does an IOC order always leave the book? | 2 threads, 2 accounts, 3 orders out of 4 requests (a FOK order that the engine refuses among them), 1 failing WAL write |
| `router_seq` | With one call at a time, is everything settled between calls, FOK all or nothing, no self-trade? Do the operators and the graph of factors compute what they are defined to, do lookups find what was stored? | 1 thread, 4 orders out of 9 kinds of request, 1 fault; 5 inputs, window 3; 4 factors, 1 removal; 4 index entries; 3 stored records; 3 nodes, 2 keys, 2 routing threads, 3 changes of the ring |
| `storage` | Does the storage implement the durable log; are sequences unique, acknowledged records readable, flushed files registered; do writes return? | 2 writers, 3 records, batches of 2, 1 crash, 1 fault, and a checkpoint or a merge |
| `faults` | Does what the cluster agreed on, what was stored and what was sent survive crashes, lost messages, failing writes and retries? | 3 nodes and 2 terms; 2 registrations, 3 orders, 2 events, 4 journal entries, 3 ticks, 2 quotes, 5 checkpoints, 3 calls; one or two crashes and failing writes of each kind |
| `shared` | Is a committed entry on a majority; do the urgent go first; do sessions hold? | 3 nodes, 2 terms, 2 entries, requests repeated; 4 orders, 2 servers, 2 calls; 4 instruments, 6 moments of a day |
| `services` | Do the services keep order, explain the money, lose no source, trigger once, and finish what they begin? Does the snapshot manager implement a patch log? | 5 notifications with queues of one place; 2 pushers, 2 peekers; 2 conditional orders, 3 prices; 2 source files, 1 crash; 4 calls of 2 threads; 2 settlers; 4 market events |
| `maker_fill_lost` (violated) | Does a resting order hear of every match? | 2 threads, 3 orders |
| `checkpoint_truncates` (violated) | Does truncation remove only what lies below the checkpoint? | 2 writers, 2 records, 1 checkpoint |
| `rotation_race` (violated) | Can the log be replayed when nothing fails? | 2 writers, 3 records |
| `double_vote` (violated) | Does a node vote once per term when two of its tasks run together? | 3 nodes, 2 tasks each, term 1 |
| `account_wal` (violated) | Does an account come back whose AccountOpen was stored? | 2 accounts, 1 start, 1 failing write |
| `conversion_overwrites` (violated) | Is a source archived only after its records are in a Parquet file? | 2 workers, 2 source files in 2 batches, 1 crash |

Why the bounds suffice. *Router*: every conflict in the code is between two calls
and two orders that match; the third order makes a taker trade twice, a partial
fill be followed by a full one, and a canceller meet a taker. Volumes 2 and 3
leave remainders on either side. *Storage*: one entry fills a file and one record
the MemTable, so three records rotate twice, leave an empty newest file, and let a
flush happen during a merge; a batch of two spans the limit. *Elections*: three
nodes are the default group (`min_votes_required: 2`); term 2 is needed for a
second election and for a master to be deposed; one of the nodes lacks a committed
entry, so the check of the log matters. `MaxMessages` limits only when an election
or a heartbeat may start, not what is in flight. *Log*: batches of one entry and
two requests per master make a request arrive after its successor. *Everything
else*: limits of queues, batches, channels and histories are 1, 2 or 3 where the
code has 100 or 10000, so that each is reached, passed and drained within the
bound; conflicts are between two tasks; one crash is enough where a restart leaves
nothing in memory, and a second start is there where counters begin again. What an
MC module excludes beyond that is stated at its `...Next`: mostly symmetric
beginnings (r2 registers after r1), and parts of a component that share no state,
checked apart. Four exclusions are more than that. `storage` has a checkpoint or
a compaction in a behaviour, not both. In `shared`, the requests under way at a time
go to one node, and the loop of the trading calendar runs beside questions about the
one instrument that asks for its state. In `router_seq`, factors are sorted by hand only
before the last removal, and nothing follows a route that a change of the ring
overlapped. In `faults`, nothing follows a spoiled journal or a mishap of the gRPC
service. The theorems of section 4 have none of these restrictions.

Deadlock is not checked: with a bound on orders, records, terms or events, every
system here comes to rest when the bound is used up.

What the violated runs show. Each contradicts a sentence of the repository that
PROJECT.json quotes: a maker that is matched before its own thread
has entered it into the reverse map loses the fill (`:961`); a checkpoint removes
the WAL file being written, with acknowledged records above the checkpoint
(`wal/manager.rs:678`); two writers that rotate together write two headers into
one file, and the log cannot be read again (`:621`); a node votes twice in a term
(`failover.rs:165`); an account opened after the last snapshot is not restored from
the WAL, which is written to one directory and read from another (`main.rs:905`);
two batches that the conversion scheduler makes within a
second get one Parquet name, the second replaces the first, and the first batch's
sources are archived all the same.

Properties that hold only in part say so in their antecedent: FOK, self-trade and
settledness are claimed for one call at a time (the code checks, releases, and
acts later); `IocNeverRests` without a storage fault, since a failing WAL append
returns early and leaves the order in the book; `AckedVisible` as long as nothing
was truncated or merged away, and, like `FlushedRegistered`, but for files whose
flush failed after they were whole; `RecordsExplainMoney` of what
`get_all_transactions` tells, as long as the transfers fit one page. The elections of `faults` run with calls one after
the other, which the code does not ensure (`double_vote` shows the difference).
What the other modules except is in section 2 and in the comment of each property.

Merged properties. Where components are checked in one run, what they say in
common is one property with one conjunct per component, such as `RestartRestores`,
`MarketDataKept`, `AlgorithmsAgree` or `OrderKept`. Each conjunct
is a named definition of its own module, with its own comment.

Fairness. `router` assumes weak fairness of the steps of a call that has begun: a
thread that runs is scheduled, and parking_lot locks are held for bounded
sections. Nobody has to submit or cancel. `storage` assumes weak fairness of each
writer's own steps: nobody has to start a write, crash, checkpoint or merge. The
writers' fairness lets a writer that waits for the MemTable lock go on when the
flush is over. In `services`, each in its own part: the processor, the receiver
and the timer of the storage subscriber (threads and tasks in a loop); each peek,
whose timeout of 30 s goes off and which the client then repeats
(`docs/09_archive/zh_docs/snapshot_manager.md:49`); the scheduler, the workers
and, strongly, the collection of all zombies: the hour after which a record is one
passes again and again, though other steps come in between; settlers and the force
close worker; the loops of the risk monitor. Nobody has to publish, push, settle,
trade or crash. `faults`, `shared` and `router_seq` have only safety properties
and no fairness.

## 4. What is proved

TLAPS proves the following for every value of the constants. The only assumptions
are the named ones of the modules (types of the constants; sets of nodes, threads,
files and moments finite; limits positive), which TLC evaluates in every run, and
the hypotheses given here. The inductive invariants (`IInv`, `...Inv`) are theorems
of their own, but for ticks and votes, where one theorem says it all; so are the type
invariants, but for these two, capital and conversion.

| Module | Theorem | What it says |
|---|---|---|
| `OrderRouterProofs` | `FinalOrdersAreOut`, `RestingOrdersAreTracked`, `RestingOrdersAreCovered` | an order reported final has nothing in the book; what rests is tracked; its margin is frozen |
| `OrderRouterLedger` | `MoneyIsConserved` | money of an account is free, frozen for an order, or margin of a position |
| | `FillsAreAppliedOnce`, `VolumesInvariance` | no lot is booked or counted twice, no order is filled beyond its volume |
| | `ImmediateNeverRests` | without a storage fault nothing of an IOC order stays in the book |
| | `NoSelfTradeAlone`, `FokAllOrNothingAlone` | with one thread (`OneThread`): no self-trade, FOK all or nothing |
| | `SettledAlone` | with one thread and no fault: between calls route status, account, tracker and book agree |
| `HybridStorageProofs` | `ImplementsLog` | the storage implements `DurableLog`, step by step |
| | `SequenceNumbersUnique`, `AcknowledgedVisible`, `FlushedAreRegistered` | no sequence twice; what was acknowledged can be read and what was flushed is registered, but for whole files whose flush failed |
| | `TicksAreKept` | no tick is lost on its way to the storage but those of a last write that failed; they are stored in order while workers do not overlap |
| `LogReplicationProofs` | `LogsHaveNoGaps`, `CommittedIsReplicated` | no log has a gap; in groups of up to three nodes a majority holds what is committed |
| `FailoverProofs` | `MastersElectedOnce`, `OneThreadElectsOnce` | one vote of a node and one master in a term, and a master has what was committed, when calls of a node do not overlap |
| | `VotesAreKept` | asked over gRPC, a node says yes to one candidate in a term, but for terms another handler was raising in steps |
| `AdmissionProofs` | `UrgentGoFirst` | nobody is overtaken by a less urgent order, none is lost or given twice |
| | `AnswersFollowTheCalendar` | what is answered agrees with the calendar at both readings of the clock |
| `ServicesProofs` | `SubmittedOnce` | a conditional order is submitted at most once, and not after it was cancelled |
| | `DiffRefinesPatchLog` | every step of the DIFF snapshots is one of `PatchLog` or a stutter |
| | `SourcesAreProtected` | while a pass makes one batch (`OneBatch`), no source is archived without its copy |
| | `RecordsAddUp` | the records of an account, with the calls that have moved money and not recorded it yet, add up to its money; so does what is told of them while transfers fit one page |

### The arguments

**Router: status, tracker, margin.** None of the three invariants is inductive. An
event a thread still has to report must be true when it is reported, after others
have matched the same orders: `EventsSound` (an event "filled" was true when it
was produced, and orders never grow) and `CancelsSound` (the cancel the book
accepted took everything) carry it. That an order is never put into the book again
needs `RoutedOnce` (an order that has not been routed belongs to one thread) and
`UnseenUntraded`; that it is frozen and tracked when it enters needs
`ReadyToRest`; `IssuedOnly` keeps order numbers from being used before they are
given out. `IInv` is their conjunction with `TypeOK` and the three. There is one
lemma per action, one step per conjunct under it; steps that only move a thread
forward use the `...Moves` lemmas about the program counter.

**Router: what is added up.** The library gives sums over sets as folds, of which
it proves nothing. `Sums` has the lemmas that are missing: the recursive function behind `SumFunctionOnSet` exists and does not depend on the
order in which members are taken (shown by the smallest subset that would be an
exception, since induction principles cannot be instantiated), a sum changes by
what one member changes, and is no more than another where every member is. With
them `FrozenOnce` (an order is frozen once) gives `MoneyConserved`. For the fills
the invariant counts what is under way: position, plus what threads have still to
book, is at most what the book executed; the same for `filled_volume`
(`CountedOnce`). A match must not pay twice, which needs that its two orders are on
opposite sides (`EventsOpposed`) and were seen by the book (`MatchedSound`).
`ImmediateHeld` says who will cancel a resting IOC remainder, `AcceptedFirst` that
the cancel will not be refused because the order was not accepted yet. FOK and
self-trade are checked before the book is locked, so they hold for one thread
only: `NoOwnCross` and `FokCovered` say that what was checked is still so when the
order arrives. `CountedOnce` allows `filled_volume` to be too small: the last fill of
an order is assigned to it, where the others are added (`order_router.rs:1132`).

**Router: agreement between calls.** `Settled` says nothing of the middle of a call,
where everything is out of step. `SeenAgree` says by how much: position plus what
the one thread has still to book *is* what was executed, what the account has left
is what rests plus what is still to be booked, and an order of which nothing rests
and nothing is pending has been reported, untracked and released, unless its cancel
is under way (`CancelUnderWay`). That no fill is dropped on the way needs `Mapped`
(all other orders are in the reverse map when a match is handled); that the last
report of an order says it is filled needs `FilledIsTold` (an event that is the
last of the call tells what the book left of the incoming order);
`StatusFollowsBook` and `RejectedByFault` leave no other way to a final status. With
several threads the equalities do not hold: run `maker_fill_lost` drops a fill
because `Mapped` fails between `accept` and `map` of another thread.

**Storage.** The invariant says where a record is: with one writer, in the buffer,
or in one WAL file (`OnePlace`, `StoredKept`); that numbers drawn and numbers on
disk are below the counters (`SeqsDrawn`, `FlushNumbered`), so that
`open_existing`, failing writes and torn tails never give a number twice; and what
the MemTable lock protects (`FlushHeld`, `HeldKept`). A flush that fails after its
file was whole moves the file's records from what can be read to `Unread`, and the
file to `orphans`, in one step. The refinement maps `log` to
the records in a WAL file. The run restricts a behaviour to a checkpoint or a
compaction; the theorems do not.

**Replicated log.** Entries are never taken back, so the invariant can say what a
master *believes*: its match and next index, requests and answers under way are
true of the entries the two nodes have in common (`BeliefsTrue`), also in the next
term. `update_commit_index` takes the entry at
`len / 2` of the sorted match indices it has, and it has one of a slave only after
that slave has answered: at least one slave holds the entry (`CommittedTwice`),
hence `CommittedIsReplicated` under `Cardinality(Nodes) <= 3`. The bound is exact:
of four nodes, the master and the one slave that has answered are no majority.

**Elections.** `OwnSpec` lets calls of different nodes interleave and those of one
node wait for each other; `SerialSpec`, which the run checks, implies it, and so
does `Spec` when nodes have one thread. Votes stand as long as their term, a
candidate has counted no vote nobody gave, and what a call has read is still so at
each of its steps (`CallTrue`); two majorities meet. That the commit index of a
node is no higher than its log is an assumption on constants here; the invariant
of `LogReplicationProofs` shows it of the logs.

**Priority queue.** A call looks at one queue after the other without a common
lock: the invariant says what it knows of the queues it has passed (nothing is
left there that was waiting when it began, or it has all it wanted), and that an
accepted order has one place.

**Trading sessions.** The lemmas are about the calendars: sessions do not overlap,
and the state of a session says the same of what is allowed as its set of kinds
of orders (`CalendarsWellFormed`, `OpenBySession`). So the two readings of
`validate_order` are two views of one thing. `PendingByCalendar` keeps what was
read at the first; `OneLoop` says that, unless a state was set by hand or two
loops run, nobody writes `global_state` between a loop's read and its write.

**Conditional orders, DIFF snapshots, conversion.** An order given to the router
stays Pending only while one checker holds its entry (`SubmittedHeld`). A task that
has found a state found one that was made (`StatesFound`), and a state holds only
patches that were pushed (`OnlyPushed`); the log of `PatchLog` is the pending
patches of the states. Copies of a conversion record in the queue, with the
scheduler and with workers are about the files of the record (`CopiesAgree`), as
are the files of its name (`FilesAgree`). Names are made of seconds: with one batch
in a pass no second has two records (`NamedInOrder`). With more batches the
property is false, see `conversion_overwrites`.

**Capital.** What is kept of an account is two lists, of its transactions and of
its transfers (all that is told is the first and a page of the second, which
`ShownAll` shows to be the whole while it fits). The sum of a list is a sum over its
places: it is split where
one list ends and grows where a record is appended (`SumInTwoParts`, `SumLonger`).
`CapInv` counts an account's money as what it was opened with, its records and the
moves of calls that have not recorded them; that an account that is not open has
no history keeps an opening from changing a sum. Money and record change in
different sections, for a transfer in those of two accounts, so the equation
without the calls under way is false in between.

**Ticks.** All ticks that came are those in the storage, in batches, in the buffer
and given up (`EveryTick`). Order needs more (`OneWorker`): while one worker runs,
batch and buffer together are the last ticks that came, one after the other, so
what comes before the batch is stored or given up already, and a part of the batch
that a failing write left behind may be stored twice but never too early. A second
worker that is started before the first is gone ends both (`overlapped`).

**Votes over gRPC.** A vote that was answered is of no newer term than the node's,
and one of its term is the vote it remembers (`VoteIsGranted`). Heartbeats, streams
and snapshots read the term in one step, write it in another and, heartbeats, forget
the vote in a third. `RaisedAlone` says that one handler at a time is doing so, that
the term it will write is still newer, and that no vote is given between its writing
the term and its forgetting the vote; `mishaps` has "mixed" when two handlers meet
there, and then the property does not hold. That no candidate is `NoVote`, the
value for none, is an assumption.

### What is only model-checked, and why

- Liveness (`IocLeavesBook`, `WriteReturns`, `AcceptedIsStored`, `ServicesFinish`,
  and the last part of `ImplementsPatchLog`): the prover has no rule for fairness
  and ENABLED.
- What recursive or folded definitions compute for every input (`OperatorsAgree`,
  `AlgorithmsAgree`, `LookupsAgree`, `FactorsFollowSources`): induction over data.
- Properties stated with folds over sequences or sorted sets (`UsersSurvive` and
  `AckedKept` in `RestartRestores`, `FactorsKept`, `MarketDataKept`): no facts about
  those operators are in the library.
- The other parts of `RestartRestores`, and `OrderKept`: not proved yet. Type invariants of parts are joined in the MC modules; the parts
  of the components above are proved.

## 5. What is not modelled, and the plan

About a third of the repository's Rust is tests inside the source files, and much
of the rest is formats, HTTP handlers that parse and answer, statistics, builders
and configuration. Not modelled on purpose: byte formats of WAL, SSTable and
message records, Polars queries, the DSL, HTTP parsing, JWT and logging, the
external iceoryx2 transport, EMA and MACD, views and reports. `perf/spsc.rs` wraps
a channel of crossbeam; the memory pool has no user. The market recovery
(`market/recovery.rs`) is called by nobody.

Inside modelled components: market-price conversion, position and risk-ratio
limits, the priority-queue switch, CLOSE offsets and position costs, several kept
checkpoints, higher compaction levels, the slave timeout list, the cluster
manager's clients, the conversion of notifications into patches.

Hazards no property covers, with their reason in PROJECT.json: the lock order of
`RoleManager` (`role.rs:112`), the split vote that nothing resolves
(`failover.rs:279`) and the tasks that push the patches of an account in any order
(`trade_gateway.rs:1623`): the code has them, so a property that excludes them
does not hold.

Plan. The state of the components is modelled and the theorems of section 4 cover
the core; what is left is proof:

1. `JournalKept` of `GatewayJournal` and `CheckpointsKept` of `FactorStore`: who
   has a file open, and which checkpoint a saver may remove.
2. `SameOrderEverywhere` of `Notifications`: the queues of one priority as one
   sequence cut in pieces.
3. `AccountsRestored` of `AccountRecovery`: what a start reads of an order is never
   less than the book had of it, and which accounts a start has.
