-------------------------- MODULE SnapshotGenerator --------------------------
(***************************************************************************)
(* Snapshots of the market (MarketSnapshotGenerator,                       *)
(* market/snapshot_generator.rs): a thread that takes one of every         *)
(* instrument at each interval, the statistics of the day behind them, and *)
(* the threads that forward them to subscribers.                           *)
(*                                                                         *)
(* The module's comment (line 257) and the project's document of it (docs, *)
(* 03_core_modules/market/snapshot_generator.md) have every snapshot go to *)
(* every subscriber.  The code has one channel that the threads of all of  *)
(* them take from: a snapshot goes to one of them, and without any the     *)
(* channel grows.  Snapshots are numbered in the order they are sent.      *)
(***************************************************************************)
EXTENDS Integers, FiniteSets, SequencesExt

CONSTANTS
    Listed,        \* config.instruments, a sequence
    Subscribers,   \* calls of subscribe
    SnapPrices,    \* prices of trades and closing prices, above 0
    SnapLimit,     \* bound on the snapshots
    StatMoves      \* bound on trades, closing prices and resets

ASSUME SnapshotAssumption ==
    /\ Listed \in Seq(ToSet(Listed)) /\ Listed # <<>> /\ IsFiniteSet(Subscribers)
    /\ SnapPrices \subseteq Nat \ {0} /\ {SnapLimit, StatMoves} \subseteq Nat

VARIABLES
    lastprice,      \* lastprice[i] of the order book, 0 before the first trade
    daily_stats,    \* daily_stats[i]: NoStats or [high, low, volume]
    turn,           \* the generator's place in its list
    snapshot_tx,    \* the channel
    forwarder,      \* forwarder[s]: [pc, snapshot], the thread of a subscriber
    subscriber_rx,  \* subscriber_rx[s]: what it has been sent
    hung_up,        \* subscribers that have dropped their receiver
    made,           \* snapshots made
    stat_moves

snapVars == <<lastprice, daily_stats, turn, snapshot_tx, forwarder, subscriber_rx,
              hung_up, made, stat_moves>>
statVars == <<lastprice, daily_stats, stat_moves>>
channelVars == <<turn, snapshot_tx, forwarder, subscriber_rx, hung_up, made>>

SnapInstruments == ToSet(Listed)
NoStats == [high |-> -1, low |-> -1, volume |-> 0]
Stats(price) == [high |-> price, low |-> price, volume |-> 0]
NoThread == [pc |-> "none", snapshot |-> 0]

SnapInit ==
    /\ lastprice = [i \in SnapInstruments |-> 0]
    /\ daily_stats = [i \in SnapInstruments |-> NoStats]
    /\ turn = 1 /\ snapshot_tx = <<>>
    /\ forwarder = [s \in Subscribers |-> NoThread]
    /\ subscriber_rx = [s \in Subscribers |-> <<>>]
    /\ hung_up = {} /\ made = 0 /\ stat_moves = 0
------------------------------------------------------------------------------
(* The statistics of the day. *)

StatMove == stat_moves < StatMoves /\ stat_moves' = stat_moves + 1

\* A trade in the book, and the trade gateway's call of update_trade_stats: the
\* volume is counted only when there are statistics already.
TradeReported(i, p) ==
    /\ StatMove
    /\ lastprice' = [lastprice EXCEPT ![i] = p]
    /\ daily_stats' = IF daily_stats[i] = NoStats THEN daily_stats
                      ELSE [daily_stats EXCEPT ![i].volume = @ + 1]
    /\ UNCHANGED channelVars

\* Statistics that are not there yet take the closing price for high and low
\* too; others keep theirs.
SetPreClose(i, p) ==
    /\ StatMove
    /\ daily_stats[i] = NoStats
    /\ daily_stats' = [daily_stats EXCEPT ![i] = Stats(p)]
    /\ UNCHANGED <<lastprice, channelVars>>

ResetDailyStats ==
    /\ StatMove
    /\ daily_stats' = [i \in SnapInstruments |-> NoStats]
    /\ UNCHANGED <<lastprice, channelVars>>
------------------------------------------------------------------------------
(* The generator. *)

\* A low of 0 is one that no trade has set.
WithPrice(stats, p) ==
    [stats EXCEPT !.high = IF p > @ THEN p ELSE @,
                  !.low = IF p < @ \/ @ = 0 THEN p ELSE @]

\* generate_snapshot, under the locks of the book and of the statistics, and the
\* send into a channel without a bound.
GenerateSnapshot ==
    LET i == Listed[turn]
        stats == WithPrice(IF daily_stats[i] = NoStats THEN Stats(lastprice[i]) ELSE daily_stats[i],
                           lastprice[i])
    IN  /\ made < SnapLimit
        /\ daily_stats' = [daily_stats EXCEPT ![i] = stats]
        /\ snapshot_tx' = Append(snapshot_tx,
                [id |-> made + 1, instrument |-> i, last_price |-> lastprice[i],
                 high |-> stats.high, low |-> stats.low, volume |-> stats.volume])
        /\ made' = made + 1
        /\ turn' = (turn % Len(Listed)) + 1
        /\ UNCHANGED <<lastprice, stat_moves, forwarder, subscriber_rx, hung_up>>
------------------------------------------------------------------------------
(* Subscribers. *)

Subscribe(s) ==
    /\ forwarder[s] = NoThread /\ s \notin hung_up
    /\ forwarder' = [forwarder EXCEPT ![s].pc = "receive"]
    /\ UNCHANGED <<statVars, turn, snapshot_tx, subscriber_rx, hung_up, made>>

\* try_recv of the common channel: an empty one is looked at again later.
Received(channel) == Tail(channel)
TryReceive(s) ==
    /\ forwarder[s].pc = "receive" /\ snapshot_tx # <<>>
    /\ forwarder' = [forwarder EXCEPT ![s] = [pc |-> "forward", snapshot |-> Head(snapshot_tx)]]
    /\ snapshot_tx' = Received(snapshot_tx)
    /\ UNCHANGED <<statVars, turn, subscriber_rx, hung_up, made>>

\* A thread that finds its subscriber gone ends, and the snapshot with it.
Forward(s) ==
    /\ forwarder[s].pc = "forward"
    /\ IF s \in hung_up
       THEN forwarder' = [forwarder EXCEPT ![s] = NoThread] /\ UNCHANGED subscriber_rx
       ELSE /\ subscriber_rx' = [subscriber_rx EXCEPT ![s] = Append(@, forwarder[s].snapshot)]
            /\ forwarder' = [forwarder EXCEPT ![s] = [NoThread EXCEPT !.pc = "receive"]]
    /\ UNCHANGED <<statVars, turn, snapshot_tx, hung_up, made>>

HangUp(s) ==
    /\ forwarder[s] # NoThread /\ s \notin hung_up
    /\ hung_up' = hung_up \cup {s}
    /\ UNCHANGED <<statVars, turn, snapshot_tx, forwarder, subscriber_rx, made>>

SnapNext ==
    \/ ResetDailyStats \/ GenerateSnapshot
    \/ \E i \in SnapInstruments, p \in SnapPrices : TradeReported(i, p) \/ SetPreClose(i, p)
    \/ \E s \in Subscribers : Subscribe(s) \/ TryReceive(s) \/ Forward(s) \/ HangUp(s)

SnapSpec == SnapInit /\ [][SnapNext]_snapVars
------------------------------------------------------------------------------
(* Properties. *)

InHand == {s \in Subscribers : forwarder[s].pc = "forward"}
Somewhere ==
    {snapshot_tx[n].id : n \in DOMAIN snapshot_tx}
    \cup {forwarder[s].snapshot.id : s \in InHand}
    \cup UNION {{seen.id : seen \in ToSet(subscriber_rx[s])} : s \in Subscribers}

\* No snapshot is lost but at most one with every subscriber that has hung up,
\* and none is seen twice by a subscriber.  What he sees is in the order of the
\* market: the numbers rise, and the last price is between the day's low and
\* high.
SnapshotsKept ==
    /\ Cardinality((1..made) \ Somewhere) <= Cardinality(hung_up)
    /\ \A s \in Subscribers, n \in 1..made : n \in DOMAIN subscriber_rx[s] =>
         LET seen == subscriber_rx[s][n] IN
         /\ seen.low <= seen.last_price /\ seen.last_price <= seen.high
         /\ n > 1 => subscriber_rx[s][n - 1].id < seen.id
=============================================================================
