------------------------------- MODULE KLines -------------------------------
(***************************************************************************)
(* Bars of one instrument: broadcast_tick into the channel of the          *)
(* KLineActor (src/src/market/broadcaster.rs), aggregation by ticks and by *)
(* the timer (KLineAggregator, src/src/market/kline.rs), and the WAL of    *)
(* finished bars with its replay (src/src/market/kline_actor.rs).          *)
(*                                                                         *)
(* The timer and the loop over the channel run on the actor's one thread,  *)
(* one after the other.  A tick is its time and stands for one unit of     *)
(* volume; prices are left out.  Periods are multiples of a time unit.     *)
(***************************************************************************)
EXTENDS Integers, FiniteSets, SequencesExt

CONSTANTS
    Periods,         \* lengths of the periods
    Capacity,        \* channel_capacity
    MaxHistory,      \* max_history
    GapLimit,        \* most bars the timer fills in at once
    Horizon,         \* bound on the clock
    MarketTicks,     \* bound on the ticks
    AppendFaults, ActorRestarts

ASSUME KLinesAssumption ==
    /\ IsFiniteSet(Periods) /\ Periods \subseteq Nat \ {0}
    /\ {Capacity, MaxHistory, GapLimit, Horizon, MarketTicks} \subseteq Nat
    /\ {AppendFaults, ActorRestarts} \subseteq Nat

VARIABLES
    time, channel,
    current_klines,    \* current_klines[p]: NoBar or [timestamp, volume]
    history_klines,    \* history_klines[p]: sequence of bars
    last_price,        \* Some or not
    kline_wal,         \* sequence of [period, bar]
    market_ticks, append_faults, actor_restarts,
    handled,           \* history: handled[t]: ticks of time t aggregated
    unstored,          \* history: bars with volume that are not in the WAL
    whole,             \* history: every bar finished by this process is in it
    orderly            \* history: see HandleTick

klineVars == <<time, channel, current_klines, history_klines, last_price, kline_wal,
               market_ticks, append_faults, actor_restarts, handled, unstored, whole, orderly>>

NoBar == [timestamp |-> -1, volume |-> 0]
Bar(start, volume) == [timestamp |-> start, volume |-> volume]
AlignTimestamp(p, t) == (t \div p) * p
LastN(s, n) == SubSeq(s, IF Len(s) > n THEN Len(s) - n + 1 ELSE 1, Len(s))
BarsOf(p, records) ==
    LET of == SelectSeq(records, LAMBDA r : r.period = p)
    IN  [i \in DOMAIN of |-> of[i].bar]
PeriodSeq == SetToSortSeq(Periods, <)

KLineInit ==
    /\ time = 0 /\ channel = <<>>
    /\ current_klines = [p \in Periods |-> NoBar]
    /\ history_klines = [p \in Periods |-> <<>>]
    /\ last_price = FALSE /\ kline_wal = <<>>
    /\ market_ticks = 0 /\ append_faults = 0 /\ actor_restarts = 0
    /\ handled = [t \in 0..Horizon |-> 0] /\ unstored = <<>>
    /\ whole = TRUE /\ orderly = TRUE

NextTime ==
    /\ time < Horizon /\ time' = time + 1
    /\ UNCHANGED <<channel, current_klines, history_klines, last_price, kline_wal, market_ticks,
                   append_faults, actor_restarts, handled, unstored, whole, orderly>>

\* Threads read the clock before they send, so a tick may come a little late;
\* into a full channel it is not sent.
BroadcastTick(t) ==
    /\ market_ticks < MarketTicks /\ market_ticks' = market_ticks + 1
    /\ t \in {time, time - 1} \cap Nat
    /\ channel' = IF Len(channel) < Capacity THEN Append(channel, t) ELSE channel
    /\ UNCHANGED <<time, current_klines, history_klines, last_price, kline_wal,
                   append_faults, actor_restarts, handled, unstored, whole, orderly>>

\* Finished bars of one call, period by period: into the history, and into the
\* WAL except for those whose append fails.
FinishBars(finished) ==
    LET all == FlattenSeq([i \in DOMAIN PeriodSeq |->
                 [j \in DOMAIN finished[PeriodSeq[i]] |->
                    [period |-> PeriodSeq[i], bar |-> finished[PeriodSeq[i]][j]]]])
    IN  /\ history_klines' = [p \in Periods |-> LastN(history_klines[p] \o finished[p], MaxHistory)]
        /\ \E failed \in SUBSET DOMAIN all :
             LET Kept(keep(_)) ==
                   LET at == SetToSortSeq({i \in DOMAIN all : keep(i)}, <)
                   IN  [i \in DOMAIN at |-> all[at[i]]]
             IN  /\ append_faults + Cardinality(failed) <= AppendFaults
                 /\ append_faults' = append_faults + Cardinality(failed)
                 /\ kline_wal' = kline_wal \o Kept(LAMBDA i : i \notin failed)
                 /\ unstored' = unstored \o Kept(LAMBDA i : i \in failed)
                 /\ whole' = (whole /\ failed = {})

\* Mutant of NeedNewKLine: a late tick counts for the bar that is open.
NeedNewKLineLater(bar, start) == bar = NoBar \/ bar.timestamp < start
NeedNewKLine(bar, start) == bar = NoBar \/ bar.timestamp # start

\* on_tick.  Bars stay in order as long as no tick belongs to a bar before the
\* open one and none opens a bar that is not the next; the timer fills gaps,
\* ticks do not.
HandleTick ==
    /\ channel # <<>>
    /\ LET t == Head(channel)
           Start(p) == AlignTimestamp(p, t)
           new == {p \in Periods : NeedNewKLine(current_klines[p], Start(p))}
       IN  /\ FinishBars([p \in Periods |->
                        IF p \in new /\ current_klines[p] # NoBar
                        THEN <<current_klines[p]>> ELSE <<>>])
           /\ current_klines' = [p \in Periods |->
                IF p \in new THEN Bar(Start(p), 1)
                ELSE [current_klines[p] EXCEPT !.volume = @ + 1]]
           /\ handled' = [handled EXCEPT ![t] = @ + 1]
           /\ orderly' = (orderly /\ \A p \in Periods :
                            \/ current_klines[p] = NoBar
                            \/ current_klines[p].timestamp \in {Start(p), Start(p) - p})
    /\ channel' = Tail(channel)
    /\ last_price' = TRUE
    /\ UNCHANGED <<time, market_ticks, actor_restarts>>

\* on_timer: a bar that is over is finished, the periods up to now get a bar
\* without volume each.
GapKLines(p, from, to) ==
    LET gaps == (to - from) \div p - 1
    IN  [i \in 1..(IF gaps < GapLimit THEN gaps ELSE GapLimit) |-> Bar(from + i * p, 0)]

OnTimer ==
    /\ last_price
    /\ LET Start(p) == AlignTimestamp(p, time)
           over == {p \in Periods : current_klines[p] # NoBar
                                    /\ current_klines[p].timestamp # Start(p)}
       IN  /\ FinishBars([p \in Periods |->
                IF p \in over
                THEN <<current_klines[p]>> \o GapKLines(p, current_klines[p].timestamp, Start(p))
                ELSE <<>>])
           /\ current_klines' = [p \in Periods |->
                IF p \in over \/ current_klines[p] = NoBar THEN Bar(Start(p), 0)
                ELSE current_klines[p]]
           /\ orderly' = (orderly /\ \A p \in over :
                            Start(p) - current_klines[p].timestamp <= p * (GapLimit + 1))
    /\ UNCHANGED <<time, channel, last_price, market_ticks, actor_restarts, handled>>

\* The process dies and starts again; the WAL is replayed into the history.
RestartActor ==
    /\ actor_restarts < ActorRestarts /\ actor_restarts' = actor_restarts + 1
    /\ channel' = <<>> /\ last_price' = FALSE
    /\ current_klines' = [p \in Periods |-> NoBar]
    /\ unstored' = unstored \o
         LET open == SelectSeq(PeriodSeq, LAMBDA p : current_klines[p] # NoBar)
         IN  [i \in DOMAIN open |-> [period |-> open[i], bar |-> current_klines[open[i]]]]
    /\ history_klines' = [p \in Periods |-> LastN(BarsOf(p, kline_wal), MaxHistory)]
    /\ whole' = TRUE /\ orderly' = FALSE
    /\ UNCHANGED <<time, kline_wal, market_ticks, append_faults, handled>>

KLineNext ==
    \/ NextTime
    \/ \E t \in 0..Horizon : BroadcastTick(t)
    \/ HandleTick \/ OnTimer \/ RestartActor

KLineSpec == KLineInit /\ [][KLineNext]_klineVars
------------------------------------------------------------------------------
(* Properties. *)

KLineTypeOK ==
    /\ Len(channel) <= Capacity
    /\ \A p \in Periods :
         /\ current_klines[p] # NoBar => current_klines[p].timestamp \in 0..time
         /\ Len(history_klines[p]) <= MaxHistory

VolumeAt(bars, s) ==
    FoldLeft(LAMBDA sum, b : sum + (IF b.timestamp = s THEN b.volume ELSE 0), 0, bars)
TicksIn(p, s) == FoldSet(LAMBDA t, sum : sum + handled[t], 0, {t \in 0..Horizon : AlignTimestamp(p, t) = s})

\* Of every period and every start, the bars together have the ticks of that
\* time, none counted twice or for a neighbour, whichever of the tick loop and
\* the timer finished them, although late ticks close a bar and open the one
\* before again; so bars of all periods agree with each other.
\* The history is the end of what is in the WAL, before and after a restart.
\* And while everything comes in time there is one bar for every period.
BarsExplainTicks ==
    \A p \in Periods :
        LET stored == BarsOf(p, kline_wal)
            bars == stored \o BarsOf(p, unstored) \o <<current_klines[p]>>
        IN  /\ \A s \in 0..Horizon : VolumeAt(bars, s) = TicksIn(p, s)
            /\ whole => history_klines[p] = LastN(stored, MaxHistory)
            /\ orderly /\ whole =>
                 \A i \in 2..Len(bars) : bars[i].timestamp = bars[i - 1].timestamp + p
=============================================================================
