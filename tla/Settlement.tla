----------------------------- MODULE Settlement -----------------------------
(***************************************************************************)
(* Daily settlement and forced liquidation: SettlementEngine of            *)
(* src/src/exchange/settlement.rs, with daily_settlement called by several *)
(* administrators, the force close worker, force_liquidate_account and an  *)
(* account that goes on trading.                                           *)
(*                                                                         *)
(* Prices, profits and the kept reports are left out: whether an account's *)
(* risk is over the threshold is a choice made when it is computed.  A     *)
(* position is a side, long or short, of the one instrument.               *)
(***************************************************************************)
EXTENDS Integers, FiniteSets, Sequences

CONSTANTS
    SettleAccounts,   \* 1..n, in the order get_all_accounts gives them
    Settlers,         \* threads in daily_settlement
    ForceQueue,       \* capacity of the force close queue (1000)
    Settlements,      \* bound on calls of daily_settlement per thread
    Deals             \* bound on changes of positions, sessions and router

ASSUME SettlementAssumption ==
    /\ SettleAccounts = 1..Cardinality(SettleAccounts) /\ IsFiniteSet(Settlers)
    /\ {ForceQueue, Settlements} \subseteq Nat \ {0} /\ Deals \in Nat

VARIABLES
    hold,            \* hold[a]: sides with a volume
    market_open, router,
    worker_started,
    settler,         \* settler[s]: [pc, flags, at]
    force_queue,
    force_worker,    \* [pc, account, plans]
    liquidator,      \* force_liquidate_account: [pc, account, plans]
    forced,          \* forced[a]: sides whose volume a force order has frozen
    called, deals,
    enqueued, processed  \* history: tasks put into and taken through the queue
positionVars == <<hold, market_open, router, deals>>
settlerVars == <<worker_started, settler, called, enqueued>>
settleVars == <<positionVars, settlerVars, force_queue, force_worker, processed, liquidator,
                forced>>

Sides == {"long", "short"}
Resting == [pc |-> "idle", account |-> 0, plans |-> {}]
NotSettling == [pc |-> "idle", flags |-> <<>>, at |-> 0]

SettleInit ==
    /\ hold \in [SettleAccounts -> {{"long"}, {}}]
    /\ market_open = TRUE /\ router = TRUE /\ deals = 0
    /\ worker_started = FALSE
    /\ settler = [s \in Settlers |-> NotSettling]
    /\ force_queue = <<>>
    /\ force_worker = Resting /\ liquidator = Resting
    /\ forced = [a \in SettleAccounts |-> {}]
    /\ called = [s \in Settlers |-> 0]
    /\ enqueued = [a \in SettleAccounts |-> 0]
    /\ processed = [a \in SettleAccounts |-> 0]
------------------------------------------------------------------------------
(* Around the engine: trading, the trading session, the router. *)

Deal == deals < Deals /\ deals' = deals + 1

Trade(a) ==
    /\ Deal
    /\ market_open
    /\ \E side \in Sides :
         IF side \in hold[a]
         THEN /\ hold' = [hold EXCEPT ![a] = @ \ {side}]
              /\ forced' = [forced EXCEPT ![a] = @ \ {side}]
         ELSE hold' = [hold EXCEPT ![a] = @ \cup {side}] /\ UNCHANGED forced
    /\ UNCHANGED <<market_open, router, settlerVars, force_queue, force_worker, processed,
                   liquidator>>

\* The market closes; the engine's Weak reference no longer finds a router.
CloseMarket ==
    /\ Deal
    /\ \/ market_open /\ market_open' = FALSE /\ UNCHANGED router
       \/ router /\ router' = FALSE /\ UNCHANGED market_open
    /\ UNCHANGED <<hold, settlerVars, force_queue, force_worker, processed, liquidator, forced>>
------------------------------------------------------------------------------
(* daily_settlement. *)

SettlerAt(s, pc) == settler[s].pc = pc

\* start_force_close_worker, and the list of accounts.
DailySettlement(s) ==
    /\ SettlerAt(s, "idle") /\ called[s] < Settlements
    /\ called' = [called EXCEPT ![s] = @ + 1]
    /\ worker_started' = TRUE
    /\ settler' = [settler EXCEPT ![s] = [NotSettling EXCEPT !.pc = "calculate"]]
    /\ UNCHANGED <<positionVars, enqueued, force_queue, force_worker, processed, liquidator, forced>>

\* The next account of a phase, and the phase that follows the last one.
NextAccount(s, from, to) ==
    /\ SettlerAt(s, from)
    /\ settler' = [settler EXCEPT
         ![s].at = IF @ + 2 \in SettleAccounts THEN @ + 1 ELSE 0,
         ![s].pc = IF settler[s].at + 2 \in SettleAccounts THEN from ELSE to]

\* Phase 1: every account is read under its own lock, at a time of its own.
PreCalculateAccount(s) ==
    /\ SettlerAt(s, "calculate")
    /\ \E need_force_close \in BOOLEAN :
         settler' = [settler EXCEPT
           ![s].flags = Append(@, need_force_close),
           ![s].pc = IF Len(settler[s].flags) + 2 \in SettleAccounts THEN @ ELSE "apply"]
    /\ UNCHANGED <<positionVars, worker_started, called, enqueued, force_queue, force_worker,
                   processed, liquidator, forced>>

\* Phase 2: QA_Account::settle under the write lock; the risk stays the one
\* of phase 1.  settle() is the account library's: it may free the volume
\* that a force order has frozen.
ApplySettlement(s) ==
    /\ NextAccount(s, "apply", "enqueue")
    /\ forced' \in {forced, [forced EXCEPT ![settler[s].at + 1] = {}]}
    /\ UNCHANGED <<positionVars, worker_started, called, enqueued, force_queue, force_worker,
                   processed, liquidator>>

\* Phase 3, one account after the other: the send waits while the queue is
\* full.  The result is kept after the last one.
EnqueueForceClose(s) ==
    LET a == settler[s].at + 1 IN
    /\ NextAccount(s, "enqueue", "idle")
    /\ IF settler[s].flags[a]
       THEN /\ Len(force_queue) < ForceQueue
            /\ force_queue' = Append(force_queue, a)
            /\ enqueued' = [enqueued EXCEPT ![a] = @ + 1]
       ELSE UNCHANGED <<force_queue, enqueued>>
    /\ UNCHANGED <<positionVars, worker_started, called, force_worker, processed, liquidator, forced>>
------------------------------------------------------------------------------
(* The force close worker. *)

Plans(a) == hold[a]

\* recv and build_force_plans; nothing is done without a router or a position.
TakeForceTask ==
    LET a == Head(force_queue)
        plans == IF router THEN Plans(a) ELSE {}
    IN  /\ worker_started /\ force_worker.pc = "idle" /\ force_queue # <<>>
        /\ force_queue' = Tail(force_queue)
        /\ IF plans = {}
           THEN /\ processed' = [processed EXCEPT ![a] = @ + 1]
                /\ UNCHANGED force_worker
           ELSE /\ force_worker' = [pc |-> "submit", account |-> a, plans |-> plans]
                /\ UNCHANGED processed
        /\ UNCHANGED <<positionVars, settlerVars, liquidator, forced>>

\* submit_force_order: no risk check, but the trading state is looked at; the
\* account refuses a side that is gone or frozen by an order before.
Accepted(a, side) == market_open /\ side \in hold[a] \ forced[a]
SubmitForced(a, side) ==
    forced' = IF Accepted(a, side) THEN [forced EXCEPT ![a] = @ \cup {side}] ELSE forced

\* Whatever the router answers the worker goes on, and at last records the
\* liquidation.
SubmitForceOrder ==
    /\ force_worker.pc = "submit"
    /\ \E side \in force_worker.plans :
         /\ SubmitForced(force_worker.account, side)
         /\ force_worker' =
              IF force_worker.plans = {side} THEN [force_worker EXCEPT !.pc = "record", !.plans = {}]
              ELSE [force_worker EXCEPT !.plans = @ \ {side}]
    /\ UNCHANGED <<positionVars, settlerVars, force_queue, processed, liquidator>>

RecordLiquidation ==
    /\ force_worker.pc = "record"
    /\ processed' = [processed EXCEPT ![force_worker.account] = @ + 1]
    /\ force_worker' = Resting
    /\ UNCHANGED <<positionVars, settlerVars, force_queue, liquidator, forced>>
------------------------------------------------------------------------------
(* force_liquidate_account. *)

ForceLiquidateAccount(a) ==
    /\ Deal
    /\ router /\ liquidator = Resting
    /\ liquidator' = IF Plans(a) = {} THEN Resting
                     ELSE [pc |-> "submit", account |-> a, plans |-> Plans(a)]
    /\ UNCHANGED <<hold, market_open, router, settlerVars, force_queue, force_worker, processed,
                   forced>>

\* The account's lock is free while the orders are submitted.
SubmitLiquidation ==
    /\ liquidator.pc = "submit"
    /\ \E side \in liquidator.plans :
         /\ SubmitForced(liquidator.account, side)
         /\ liquidator' = IF liquidator.plans = {side} THEN Resting
                          ELSE [liquidator EXCEPT !.plans = @ \ {side}]
    /\ UNCHANGED <<positionVars, settlerVars, force_queue, force_worker, processed>>

SettlerStep(s) ==
    \/ DailySettlement(s) \/ PreCalculateAccount(s)
    \/ ApplySettlement(s) \/ EnqueueForceClose(s)
ForceWorkerStep == TakeForceTask \/ SubmitForceOrder \/ RecordLiquidation

SettleNext ==
    \/ \E a \in SettleAccounts : Trade(a) \/ ForceLiquidateAccount(a)
    \/ CloseMarket
    \/ \E s \in Settlers : SettlerStep(s)
    \/ ForceWorkerStep
    \/ SubmitLiquidation

\* The settling threads and the worker run on.
SettleFairness ==
    /\ \A s \in Settlers : WF_settleVars(SettlerStep(s))
    /\ WF_settleVars(ForceWorkerStep)

SettleSpec == SettleInit /\ [][SettleNext]_settleVars /\ SettleFairness
------------------------------------------------------------------------------
(* Properties. *)

SettleTypeOK ==
    /\ Len(force_queue) <= ForceQueue
    /\ \A a \in SettleAccounts :
         /\ forced[a] \subseteq hold[a]
         /\ processed[a] <= enqueued[a]
    /\ \A s \in Settlers : settler[s].at \in 0..Cardinality(SettleAccounts)

\* A settlement that has begun returns, though it sends to a bounded queue and
\* several may send at once: the worker was started first and always comes
\* back to the queue.  And a task put into the queue gets through the worker,
\* whatever the market, the router or the account's own trading do meanwhile.
SettlementCompletes ==
    /\ \A s \in Settlers : settler[s].pc = "calculate" ~> settler[s].pc = "idle"
    /\ \A a \in SettleAccounts : \A n \in 1..Settlements :
         enqueued[a] >= n ~> processed[a] >= n
=============================================================================
