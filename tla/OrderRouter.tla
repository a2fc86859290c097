----------------------------- MODULE OrderRouter -----------------------------
(***************************************************************************)
(* OrderRouter (src/src/exchange/order_router.rs) with the parts of the    *)
(* trade gateway, the pre-trade check and the account it calls.            *)
(*                                                                         *)
(* Every client call (submit_order, cancel_order) runs on a thread of its  *)
(* own.  The router holds no lock across a call: the book lock covers      *)
(* process_order only, every order has its own lock, the account another.  *)
(* So one call is several atomic steps, and the events a match produces    *)
(* are handled after the book lock is gone, one by one, while other        *)
(* threads match against the same resting orders.                          *)
(*                                                                         *)
(* Data kept small: one instrument, offset OPEN only, one unit of money    *)
(* per lot of margin.  An order's number stands for the three ids the code *)
(* gives it (order id, qars order id, engine id); the maps between them    *)
(* are the sets of orders that have been entered so far.                   *)
(***************************************************************************)
EXTENDS OrderBook, FiniteSets

CONSTANTS
    Threads,     \* threads that run client calls
    Accounts,
    InitMoney,   \* InitMoney[a]: what account a holds before any order
    Requests,    \* the submissions clients may make
    NoRequest,   \* marks an order number that has not been given out
    MaxOrders,   \* bound on submissions
    MaxFaults    \* bound on failing WAL writes

OrderIds == 1..MaxOrders

ASSUME RouterAssumption ==
    /\ MaxOrders \in Nat
    /\ MaxFaults \in Nat
    /\ IsFiniteSet(Threads)
    /\ InitMoney \in [Accounts -> Nat]
    /\ Requests \subseteq
         [acct : Accounts, side : Sides, vol : Nat \ {0}, price : Nat,
          tif : {"GFD", "IOC", "FOK"}, force : BOOLEAN,
          route : {"book", "unlisted", "refused"}]
    /\ NoRequest \notin Requests

VARIABLES
    order_seq,          \* next order number
    req,                \* req[o]: the request behind order o
    status,             \* OrderRouteInfo.status; "None" before the insertion
    filled_volume,      \* OrderRouteInfo.filled_volume
    engine_known,       \* orders whose matching_engine_order_id is set
    engine_id_to_order, \* orders entered in the reverse map
    active_orders,      \* orders the pre-trade check tracks
    money,              \* QA_Account.money
    frozen,             \* QA_Account.frozen, by order
    volume_left,        \* dailyorders[o].volume_left
    position,           \* lots of order o booked into the account's position
    rest,               \* volume of o resting in the book
    engine_id,          \* arrival number of o in the book, 0 before
    recorded,           \* trades in the TradeRecorder
    matched,            \* history: every match the book made
    pc, cur, todo, handled_trade, \* per thread: step, order, events to handle
    faults

infoVars == <<req, status, filled_volume, engine_known, engine_id_to_order>>
acctVars == <<money, frozen, volume_left, position>>
bookVars == <<rest, engine_id, matched>>
threadVars == <<pc, cur, todo, handled_trade>>
vars == <<order_seq, infoVars, active_orders, acctVars, bookVars, recorded,
          threadVars, faults>>

Final == {"Filled", "Cancelled", "Rejected"}
Live == {"Submitted", "PartiallyFilled"}
Statuses == {"None", "PendingRoute"} \cup Live \cup Final

PreRoute == {"fok", "freeze", "register", "route"}
Events == {"taker", "taker_trade", "maker", "maker_trade"}
Cancelling == {"cancel_book", "cancel_status", "cancel_release"}
Steps == {"idle", "accept", "map", "ioc", "cancel_check", "reject"}
         \cup PreRoute \cup Events \cup Cancelling
------------------------------------------------------------------------------
\* One resting order hit by an incoming one, as both orders' events tell it.
Matches ==
    [maker : OrderIds, vol : Nat \ {0}, maker_filled : BOOLEAN, taker_filled : BOOLEAN]

Init ==
    /\ order_seq = 1
    /\ req = [o \in OrderIds |-> NoRequest]
    /\ status = [o \in OrderIds |-> "None"]
    /\ filled_volume = [o \in OrderIds |-> 0]
    /\ engine_known = {}
    /\ engine_id_to_order = {}
    /\ active_orders = {}
    /\ money = InitMoney
    /\ frozen = [o \in OrderIds |-> 0]
    /\ volume_left = [o \in OrderIds |-> 0]
    /\ position = [o \in OrderIds |-> 0]
    /\ rest = [o \in OrderIds |-> 0]
    /\ engine_id = [o \in OrderIds |-> 0]
    /\ recorded = {}
    /\ matched = {}
    /\ pc = [t \in Threads |-> "idle"]
    /\ cur = [t \in Threads |-> 0]
    /\ todo = [t \in Threads |-> {}]
    /\ handled_trade = [t \in Threads |-> FALSE]
    /\ faults = 0
------------------------------------------------------------------------------
(* What a thread does next. *)

Goto(t, step) == pc' = [pc EXCEPT ![t] = step] /\ UNCHANGED cur

\* Mutant of Return: the order is not let go.
ReturnHoldingOrder(t) == pc' = [pc EXCEPT ![t] = "idle"] /\ UNCHANGED cur

Return(t) ==
    /\ pc' = [pc EXCEPT ![t] = "idle"]
    /\ cur' = [cur EXCEPT ![t] = 0]

\* Mutant of AfterEvent: handle_ioc_remaining is not called.
AfterEventNoIoc(t, left) == IF left # {} THEN Goto(t, "taker") ELSE Return(t)

\* After an event: the next one, the IOC clean-up, or back to the client.
AfterEvent(t, left) ==
    IF left # {} THEN Goto(t, "taker")
    ELSE IF req[cur[t]].tif # "GFD" THEN Goto(t, "ioc")
    ELSE Return(t)
------------------------------------------------------------------------------
(* submit_order, up to the book. *)

\* Mutant of WouldSelfTrade: equal prices are let through.
WouldSelfTradeAtWorse(r) ==
    \E a \in active_orders :
        req[a].acct = r.acct /\ Crosses(r, req[a]) /\ r.price # req[a].price

\* check_self_trading reads the active orders, not the book.
WouldSelfTrade(r) ==
    \E a \in active_orders : req[a].acct = r.acct /\ Crosses(r, req[a])

RiskPasses(r) == money[r.acct] >= r.vol /\ ~WouldSelfTrade(r)

\* The order number is drawn whether or not the checks pass.
SubmitOrder(t, r) ==
    /\ pc[t] = "idle"
    /\ order_seq \in OrderIds
    /\ order_seq' = order_seq + 1
    /\ req' = [req EXCEPT ![order_seq] = r]
    /\ \/ /\ r.force \/ RiskPasses(r)
          /\ cur' = [cur EXCEPT ![t] = order_seq]
          /\ pc' = [pc EXCEPT ![t] = IF r.tif = "FOK" /\ ~r.force
                                     THEN "fok" ELSE "freeze"]
       \/ /\ ~r.force /\ ~RiskPasses(r)
          /\ UNCHANGED <<pc, cur>>
    /\ UNCHANGED <<status, filled_volume, engine_known, engine_id_to_order,
                   active_orders, acctVars, bookVars, recorded, todo,
                   handled_trade, faults>>

\* Mutant of FokPrecheck: any volume on the other side will do.
FokPrecheckSome(t) ==
    /\ pc[t] = "fok"
    /\ IF Available(req, rest, req[cur[t]]) > 0 THEN Goto(t, "freeze") ELSE Return(t)
    /\ UNCHANGED <<order_seq, infoVars, active_orders, acctVars, bookVars,
                   recorded, todo, handled_trade, faults>>

\* The precheck reads the book under a read lock that it gives up again.
FokPrecheck(t) ==
    /\ pc[t] = "fok"
    /\ LET r == req[cur[t]]
       IN  IF r.route # "unlisted" /\ Available(req, rest, r) >= r.vol
           THEN Goto(t, "freeze") ELSE Return(t)
    /\ UNCHANGED <<order_seq, infoVars, active_orders, acctVars, bookVars,
                   recorded, todo, handled_trade, faults>>

\* Under the account lock: the second look at the money and send_order,
\* which refuses on its own what the account cannot pay.
FreezeFunds(t) ==
    /\ pc[t] = "freeze"
    /\ LET o == cur[t]
           r == req[o]
       IN  \/ /\ money[r.acct] >= r.vol
              /\ money' = [money EXCEPT ![r.acct] = @ - r.vol]
              /\ frozen' = [frozen EXCEPT ![o] = r.vol]
              /\ volume_left' = [volume_left EXCEPT ![o] = r.vol]
              /\ Goto(t, "register")
           \/ /\ money[r.acct] < r.vol
              /\ Return(t)
              /\ UNCHANGED <<money, frozen, volume_left>>
    /\ UNCHANGED <<order_seq, infoVars, active_orders, position, bookVars,
                   recorded, todo, handled_trade, faults>>

RegisterOrder(t) ==
    /\ pc[t] = "register"
    /\ status' = [status EXCEPT ![cur[t]] = "PendingRoute"]
    /\ active_orders' = active_orders \cup {cur[t]}
    /\ Goto(t, "route")
    /\ UNCHANGED <<order_seq, req, filled_volume, engine_known,
                   engine_id_to_order, acctVars, bookVars, recorded, todo,
                   handled_trade, faults>>

\* Mutant of RouteError: the margin is given back, resting order or not.
RouteErrorReleasing(t) ==
    /\ pc[t] = "reject"
    /\ status' = [status EXCEPT ![cur[t]] = "Rejected"]
    /\ money' = [money EXCEPT ![req[cur[t]].acct] = @ + frozen[cur[t]]]
    /\ frozen' = [frozen EXCEPT ![cur[t]] = 0]
    /\ Return(t)
    /\ UNCHANGED <<order_seq, req, filled_volume, engine_known,
                   engine_id_to_order, active_orders, volume_left, position,
                   bookVars, recorded, todo, handled_trade, faults>>

\* No book for the instrument, or an earlier step of the routing failed: the
\* Err arm of submit_order writes the status and nothing else.
RouteError(t) ==
    /\ \/ pc[t] = "reject"
       \/ pc[t] = "route" /\ req[cur[t]].route = "unlisted"
    /\ status' = [status EXCEPT ![cur[t]] = "Rejected"]
    /\ Return(t)
    /\ UNCHANGED <<order_seq, req, filled_volume, engine_known,
                   engine_id_to_order, active_orders, acctVars, bookVars,
                   recorded, todo, handled_trade, faults>>

\* The book refuses the order (Err(failed)): the gateway reports REJECTED.
RouteRefused(t) ==
    /\ pc[t] = "route"
    /\ req[cur[t]].route = "refused"
    /\ status' = [status EXCEPT ![cur[t]] = "Rejected"]
    /\ Return(t)
    /\ UNCHANGED <<order_seq, req, filled_volume, engine_known,
                   engine_id_to_order, active_orders, acctVars, bookVars,
                   recorded, todo, handled_trade, faults>>

\* The events of one match, as one record per resting order it hit: the
\* incoming order's event comes before the resting order's.
MatchEvents(take, left) ==
    LET hit == {m \in OrderIds : take[m] > 0}
    IN  {[maker |-> m,
          vol |-> take[m],
          maker_filled |-> take[m] = rest[m],
          taker_filled |-> /\ left = 0
                           /\ \A n \in hit : n = m \/ Ahead(req, engine_id, n, m)]
            : m \in hit}

\* process_order under the book lock; the Accepted event is always the first.
RouteToMatchingEngine(t) ==
    /\ pc[t] = "route"
    /\ LET o == cur[t]
           r == req[o]
       IN  /\ r.route = "book"
           /\ \E take \in [OrderIds -> 0..r.vol], left \in 0..r.vol :
                /\ IsMatch(req, rest, engine_id, r, take, left)
                /\ rest' = [m \in OrderIds |->
                              IF m = o THEN left ELSE rest[m] - take[m]]
                /\ todo' = [todo EXCEPT ![t] = MatchEvents(take, left)]
                /\ matched' = matched \cup
                     {[taker |-> o, maker |-> m, vol |-> take[m]]
                        : m \in {n \in OrderIds : take[n] > 0}}
           /\ engine_id' = [engine_id EXCEPT ![o] =
                1 + Cardinality({m \in OrderIds : engine_id[m] > 0})]
    /\ handled_trade' = [handled_trade EXCEPT ![t] = FALSE]
    /\ Goto(t, "accept")
    /\ UNCHANGED <<order_seq, infoVars, active_orders, acctVars, recorded, faults>>
------------------------------------------------------------------------------
(* Handling the events, with the book lock gone. *)

AcceptStatus(t) ==
    /\ pc[t] = "accept"
    /\ status' = [status EXCEPT ![cur[t]] = "Submitted"]
    /\ engine_known' = engine_known \cup {cur[t]}
    /\ Goto(t, "map")
    /\ UNCHANGED <<order_seq, req, filled_volume, engine_id_to_order,
                   active_orders, acctVars, bookVars, recorded, todo,
                   handled_trade, faults>>

\* The reverse map, then the gateway's accepted report, whose WAL write can
\* fail; the remaining events of the match are then dropped.
AcceptMap(t) ==
    /\ pc[t] = "map"
    /\ engine_id_to_order' = engine_id_to_order \cup {cur[t]}
    /\ \/ /\ AfterEvent(t, todo[t])
          /\ UNCHANGED <<todo, faults>>
       \/ /\ faults < MaxFaults
          /\ faults' = faults + 1
          /\ todo' = [todo EXCEPT ![t] = {}]
          /\ Goto(t, "reject")
    /\ UNCHANGED <<order_seq, req, status, filled_volume, engine_known,
                   active_orders, acctVars, bookVars, recorded, handled_trade>>

\* The next match of thread t: best price first, then first come.
NextMatch(t, f) ==
    /\ f \in todo[t]
    /\ \A g \in todo[t] : g = f \/ Ahead(req, engine_id, f.maker, g.maker)

\* Mutant of FillStatus: every trade completes the order.
FillStatusComplete(o, vol, filled) ==
    /\ status' = [status EXCEPT ![o] = "Filled"]
    /\ filled_volume' = [filled_volume EXCEPT ![o] = @ + vol]

\* The status half of Filled / PartiallyFilled: Filled overwrites the volume.
FillStatus(o, vol, filled) ==
    /\ status' = [status EXCEPT ![o] = IF filled THEN "Filled" ELSE "PartiallyFilled"]
    /\ filled_volume' = [filled_volume EXCEPT ![o] = IF filled THEN vol ELSE @ + vol]

\* Mutants of Deal: the order's volume is booked instead of the trade's; the
\* freeze is paid back and kept.
DealWholeOrder(o, vol) ==
    /\ position' = [position EXCEPT ![o] = @ + req[o].vol]
    /\ UNCHANGED <<money, frozen, volume_left>>

DealKeepingFreeze(o, vol) ==
    /\ money' = [money EXCEPT ![req[o].acct] = @ + frozen[o] - vol]
    /\ volume_left' = [volume_left EXCEPT ![o] = @ - vol]
    /\ position' = [position EXCEPT ![o] = @ + vol]
    /\ UNCHANGED frozen

\* receive_deal_sim and order.trade: a deal gives back everything the order
\* still has frozen and takes the margin of the lots dealt.
Deal(o, vol) ==
    /\ money' = [money EXCEPT ![req[o].acct] = @ + frozen[o] - vol]
    /\ frozen' = [frozen EXCEPT ![o] = 0]
    /\ volume_left' = [volume_left EXCEPT ![o] = @ - vol]
    /\ position' = [position EXCEPT ![o] = @ + vol]

\* Mutants of UntrackFilled: every trade ends the tracking; none does.
UntrackTraded(o, filled) == active_orders' = active_orders \ {o}
NeverUntrack(o, filled) == UNCHANGED active_orders

\* remove_active_order, for a Filled event only.
UntrackFilled(o, filled) ==
    active_orders' = IF filled THEN active_orders \ {o} ELSE active_orders

TakerStatus(t) ==
    /\ pc[t] = "taker"
    /\ \E f \in todo[t] : NextMatch(t, f) /\ FillStatus(cur[t], f.vol, f.taker_filled)
    /\ Goto(t, "taker_trade")
    /\ UNCHANGED <<order_seq, req, engine_known, engine_id_to_order,
                   active_orders, acctVars, bookVars, recorded, todo,
                   handled_trade, faults>>

\* Only the first trade event of the call is handled as the taker's; the
\* later ones of the same order come through the reverse map as a maker's.
TakerTrade(t) ==
    /\ pc[t] = "taker_trade"
    /\ \E f \in todo[t] :
         /\ NextMatch(t, f)
         /\ Deal(cur[t], f.vol)
         /\ UntrackFilled(cur[t], f.taker_filled)
         /\ recorded' = IF handled_trade[t] THEN recorded
                        ELSE recorded \cup {[taker |-> cur[t], maker |-> f.maker,
                                             vol |-> f.vol]}
    /\ handled_trade' = [handled_trade EXCEPT ![t] = TRUE]
    /\ Goto(t, "maker")
    /\ UNCHANGED <<order_seq, infoVars, bookVars, todo, faults>>

\* The maker is found through the reverse map; when it is not there yet, it
\* is taken for an order of another venue and its fill is dropped.
MakerStatus(t) ==
    /\ pc[t] = "maker"
    /\ \E f \in todo[t] :
         /\ NextMatch(t, f)
         /\ \/ /\ f.maker \in engine_id_to_order
               /\ FillStatus(f.maker, f.vol, f.maker_filled)
               /\ Goto(t, "maker_trade")
               /\ UNCHANGED todo
            \/ /\ f.maker \notin engine_id_to_order
               /\ todo' = [todo EXCEPT ![t] = @ \ {f}]
               /\ AfterEvent(t, todo[t] \ {f})
               /\ UNCHANGED <<status, filled_volume>>
    /\ UNCHANGED <<order_seq, req, engine_known, engine_id_to_order,
                   active_orders, acctVars, bookVars, recorded, handled_trade,
                   faults>>

MakerTrade(t) ==
    /\ pc[t] = "maker_trade"
    /\ \E f \in todo[t] :
         /\ NextMatch(t, f)
         /\ Deal(f.maker, f.vol)
         /\ UntrackFilled(f.maker, f.maker_filled)
         /\ todo' = [todo EXCEPT ![t] = @ \ {f}]
         /\ AfterEvent(t, todo[t] \ {f})
    /\ UNCHANGED <<order_seq, infoVars, bookVars, recorded, handled_trade, faults>>

\* handle_trade_new cannot write its WAL record: the account is not updated
\* and the `?` drops every event that is left.
TradeFails(t) ==
    /\ pc[t] \in {"taker_trade", "maker_trade"}
    /\ faults < MaxFaults
    /\ faults' = faults + 1
    /\ todo' = [todo EXCEPT ![t] = {}]
    /\ Goto(t, "reject")
    /\ UNCHANGED <<order_seq, infoVars, active_orders, acctVars, bookVars,
                   recorded, handled_trade>>
------------------------------------------------------------------------------
(* cancel_order, by a client or by handle_ioc_remaining. *)

Cancellable(o) == status[o] \in Live /\ o \in engine_known

\* Mutant of IocCheck: a partially filled order is left alone.
IocCheckUntraded(t) ==
    /\ pc[t] = "ioc"
    /\ IF status[cur[t]] = "Submitted" THEN Goto(t, "cancel_check") ELSE Return(t)
    /\ UNCHANGED <<order_seq, infoVars, active_orders, acctVars, bookVars,
                   recorded, todo, handled_trade, faults>>

IocCheck(t) ==
    /\ pc[t] = "ioc"
    /\ LET o == cur[t]
       IN  IF status[o] \notin Final /\ req[o].vol > filled_volume[o]
           THEN Goto(t, "cancel_check") ELSE Return(t)
    /\ UNCHANGED <<order_seq, infoVars, active_orders, acctVars, bookVars,
                   recorded, todo, handled_trade, faults>>

CancelCheck(t) ==
    /\ pc[t] = "cancel_check"
    /\ IF Cancellable(cur[t]) THEN Goto(t, "cancel_book") ELSE Return(t)
    /\ UNCHANGED <<order_seq, infoVars, active_orders, acctVars, bookVars,
                   recorded, todo, handled_trade, faults>>

\* A cancel that the check turns away changes nothing.
ClientCancel(t, o) ==
    /\ pc[t] = "idle"
    /\ Cancellable(o)
    /\ cur' = [cur EXCEPT ![t] = o]
    /\ pc' = [pc EXCEPT ![t] = "cancel_book"]
    /\ UNCHANGED <<order_seq, infoVars, active_orders, acctVars, bookVars,
                   recorded, todo, handled_trade, faults>>

CancelBook(t) ==
    /\ pc[t] = "cancel_book"
    /\ LET o == cur[t]
       IN  \/ /\ rest[o] > 0
              /\ rest' = [rest EXCEPT ![o] = 0]
              /\ Goto(t, "cancel_status")
           \/ /\ rest[o] = 0
              /\ Return(t)
              /\ UNCHANGED rest
    /\ UNCHANGED <<order_seq, infoVars, active_orders, acctVars, engine_id,
                   matched, recorded, todo, handled_trade, faults>>

CancelStatus(t) ==
    /\ pc[t] = "cancel_status"
    /\ status' = [status EXCEPT ![cur[t]] = "Cancelled"]
    /\ Goto(t, "cancel_release")
    /\ UNCHANGED <<order_seq, req, filled_volume, engine_known,
                   engine_id_to_order, active_orders, acctVars, bookVars,
                   recorded, todo, handled_trade, faults>>

\* handle_cancel_accepted_new -> QA_Account::cancel_order, then the tracker.
CancelRelease(t) ==
    /\ pc[t] = "cancel_release"
    /\ LET o == cur[t]
       IN  /\ money' = [money EXCEPT ![req[o].acct] = @ + frozen[o]]
           /\ frozen' = [frozen EXCEPT ![o] = 0]
           /\ volume_left' = [volume_left EXCEPT ![o] = 0]
           /\ active_orders' = active_orders \ {o}
    /\ Return(t)
    /\ UNCHANGED <<order_seq, infoVars, position, bookVars, recorded, todo,
                   handled_trade, faults>>
------------------------------------------------------------------------------
\* One step of a call that is under way.
Step(t) ==
    \/ FokPrecheck(t) \/ FreezeFunds(t) \/ RegisterOrder(t)
    \/ RouteError(t) \/ RouteRefused(t) \/ RouteToMatchingEngine(t)
    \/ AcceptStatus(t) \/ AcceptMap(t)
    \/ TakerStatus(t) \/ TakerTrade(t) \/ MakerStatus(t) \/ MakerTrade(t)
    \/ TradeFails(t)
    \/ IocCheck(t) \/ CancelCheck(t)
    \/ CancelBook(t) \/ CancelStatus(t) \/ CancelRelease(t)

\* What a client asks of an idle thread.
Call(t) ==
    \/ \E r \in Requests : SubmitOrder(t, r)
    \/ \E o \in OrderIds : ClientCancel(t, o)

Next == \E t \in Threads : Step(t) \/ Call(t)

Spec == Init /\ [][Next]_vars

\* A thread that serves a call is scheduled again and again; clients owe nothing.
FairSpec == Spec /\ \A t \in Threads : WF_vars(Step(t))
------------------------------------------------------------------------------
(* Properties. *)

\* What the book executed of order o.
Executed(o) ==
    LET of_o == {m \in matched : o \in {m.taker, m.maker}}
    IN  SumFunction([m \in of_o |-> m.vol])

\* The matches thread t has yet to book into order o.
Due(t, o) ==
    {f \in todo[t] :
        \/ f.maker = o
        \/ cur[t] = o /\ ~(pc[t] \in {"maker", "maker_trade"} /\ NextMatch(t, f))}

InFlight(t, o) == SumFunction([f \in Due(t, o) |-> f.vol])

RouterTypes ==
    /\ order_seq \in 1..(MaxOrders + 1)
    /\ req \in [OrderIds -> Requests \cup {NoRequest}]
    /\ status \in [OrderIds -> Statuses]
    /\ filled_volume \in [OrderIds -> Nat]
    /\ engine_known \subseteq OrderIds
    /\ engine_id_to_order \subseteq OrderIds
    /\ active_orders \subseteq OrderIds

AccountTypes ==
    /\ money \in [Accounts -> Int]
    /\ frozen \in [OrderIds -> Nat]
    /\ volume_left \in [OrderIds -> Int]
    /\ position \in [OrderIds -> Nat]

BookTypes ==
    /\ rest \in [OrderIds -> Nat]
    /\ engine_id \in [OrderIds -> Nat]
    /\ faults \in 0..MaxFaults

ThreadTypes ==
    /\ pc \in [Threads -> Steps]
    /\ cur \in [Threads -> 0..MaxOrders]
    /\ \A t \in Threads : cur[t] = 0 <=> pc[t] = "idle"

EventTypes ==
    /\ todo \in [Threads -> SUBSET Matches]
    /\ handled_trade \in [Threads -> BOOLEAN]

\* Every variable keeps its type, and a thread has an order exactly while it
\* serves a call.
TypeOK == RouterTypes /\ AccountTypes /\ BookTypes /\ ThreadTypes /\ EventTypes

\* An order reported filled or cancelled has nothing left in the book, in
\* whatever order the threads report their events (order_router.rs: the
\* status is written after the book lock is gone).
FinalNotResting ==
    \A o \in OrderIds : status[o] \in {"Filled", "Cancelled"} => rest[o] = 0

\* What rests in the book is in the pre-trade check's active orders, which
\* the self-trade check reads instead of the book.
RestingTracked == \A o \in OrderIds : rest[o] > 0 => o \in active_orders

\* An order that rests in the book, and of which nothing has been dealt yet,
\* has its whole margin frozen: no cancel, fault or rejection gives it back
\* while the order can still trade.
RestingCovered ==
    \A o \in OrderIds : rest[o] > 0 /\ position[o] = 0 => frozen[o] = req[o].vol

\* No match is booked into an account twice, by whichever thread: what the
\* position holds and what is still to be handled is at most what the book
\* executed.  (It can be less: a fault or an unmapped maker loses a fill.)
FillsAppliedOnce ==
    \A o \in OrderIds :
        LET pending == [t \in Threads |-> InFlight(t, o)]
        IN  position[o] + SumFunction(pending) =< Executed(o)

\* Money is neither made nor lost by freezing, dealing and releasing, in any
\* interleaving of the calls on an account.
MoneyConserved ==
    \A a \in Accounts :
        LET own == {o \in OrderIds : req[o] # NoRequest /\ req[o].acct = a}
        IN  money[a] + SumFunctionOnSet(frozen, own)
              + SumFunctionOnSet(position, own) = InitMoney[a]

\* handle_ioc_remaining: once the submitting call is over, nothing of an
\* immediate order is in the book, however its cancel interleaved with the
\* trades and cancels of other threads.  (A storage fault leaves early.)
IocNeverRests ==
    \A o \in OrderIds :
        /\ faults = 0
        /\ req[o] # NoRequest
        /\ req[o].tif # "GFD"
        /\ \A t \in Threads : cur[t] # o
        => rest[o] = 0

\* Every immediate order leaves the book, unless a storage fault cut its
\* submission short.
IocLeavesBook ==
    \A o \in OrderIds :
        (req[o] # NoRequest /\ req[o].tif # "GFD" /\ rest[o] > 0)
            ~> (rest[o] = 0 \/ faults > 0)

------------------------------------------------------------------------------
(* The inductive invariant: TypeOK, the three resting-order invariants and   *)
(* what follows.  Sole entry into the book is RouteToMatchingEngine, by the  *)
(* one thread that submits the order.                                        *)

\* Only order numbers that have been given out are in use.
IssuedOnly ==
    /\ \A o \in OrderIds : o < order_seq => req[o] \in Requests
    /\ \A o \in OrderIds : o >= order_seq => engine_id[o] = 0
    /\ \A t \in Threads : cur[t] < order_seq
    /\ \A o \in engine_known : o < order_seq

\* An order the book has not seen is routed by one thread only.
RoutedOnce ==
    /\ \A t \in Threads : pc[t] \in PreRoute => engine_id[cur[t]] = 0
    /\ \A t, u \in Threads :
         t # u /\ pc[t] \in PreRoute /\ pc[u] \in PreRoute => cur[t] # cur[u]

\* An order the book has not seen has not traded.
UnseenUntraded ==
    \A o \in OrderIds :
        engine_id[o] = 0 => /\ rest[o] = 0
                            /\ position[o] = 0
                            /\ status[o] \notin {"Filled", "Cancelled"}

\* An order about to be routed is frozen in full, then tracked.
ReadyToRest ==
    \A t \in Threads :
        /\ pc[t] \in {"register", "route"} => frozen[cur[t]] = req[cur[t]].vol
        /\ pc[t] = "route" => cur[t] \in active_orders

\* An event that says an order is filled is right: orders never grow.
EventsSound ==
    \A t \in Threads :
        \A f \in todo[t] :
             /\ pc[t] \in {"accept", "map"} \cup Events
             /\ engine_id[cur[t]] # 0
             /\ engine_id[f.maker] # 0
             /\ f.taker_filled => rest[cur[t]] = 0
             /\ f.maker_filled => rest[f.maker] = 0

\* A cancel the book has accepted took all that rested.
CancelsSound ==
    \A t \in Threads :
        pc[t] \in {"cancel_status", "cancel_release"} =>
            engine_id[cur[t]] # 0 /\ rest[cur[t]] = 0

IInv ==
    /\ TypeOK
    /\ FinalNotResting
    /\ RestingTracked
    /\ RestingCovered
    /\ IssuedOnly
    /\ RoutedOnce
    /\ UnseenUntraded
    /\ ReadyToRest
    /\ EventsSound
    /\ CancelsSound
------------------------------------------------------------------------------
(* What holds with one thread only, or is claimed and does not hold. *)

Idle == \A t \in Threads : pc[t] = "idle"

\* With one call at a time and no fault, router, account, tracker and book
\* agree whenever no call is under way.
Settled ==
    Idle /\ faults = 0 =>
        \A o \in OrderIds :
            status[o] \notin {"None", "Rejected"} =>
                /\ rest[o] > 0 <=> status[o] \in Live
                /\ rest[o] = volume_left[o]
                /\ rest[o] > 0 <=> o \in active_orders
                /\ position[o] = Executed(o)
                /\ frozen[o] > 0 => rest[o] > 0

\* With one call at a time a FOK order trades in full or not at all.
FokAllOrNothing ==
    Idle /\ faults = 0 =>
        \A o \in OrderIds :
            req[o] # NoRequest /\ req[o].tif = "FOK" /\ ~req[o].force =>
                Executed(o) \in {0, req[o].vol}

\* With one call at a time the active orders keep an account from trading
\* with itself, cancels, faults and refused orders included.
NoSelfTrade ==
    \A m \in matched :
        ~req[m.taker].force => req[m.taker].acct # req[m.maker].acct

\* A resting order of this exchange is told of every match.
MakerFillsApplied ==
    Idle /\ faults = 0 =>
        \A o \in OrderIds : rest[o] > 0 => position[o] = Executed(o)
==============================================================================
