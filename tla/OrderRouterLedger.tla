-------------------------- MODULE OrderRouterLedger --------------------------
(***************************************************************************)
(* What OrderRouter adds up: no money is made or lost, no lot is booked or *)
(* counted twice, no order is filled beyond its volume, and nothing of an  *)
(* immediate order stays in the book.  For every number of threads,        *)
(* accounts and orders and any bound on the faults; the last two parts are *)
(* about one thread, whose calls leave router, account, tracker and book   *)
(* in agreement.  All builds on IInv (OrderRouterProofs), which every step *)
(* keeps, so that the lemmas may use it before and after a step.           *)
(***************************************************************************)
EXTENDS OrderRouterProofs, Sums

(* Money: what freezing, dealing and releasing do to MoneyConserved.        *)

\* An order number that has not been given out has nothing behind it, and an
\* order that is not frozen yet has nothing frozen.
FrozenOnce ==
    /\ \A o \in OrderIds : o >= order_seq => req[o] = NoRequest /\ frozen[o] = 0
    /\ \A t \in Threads : pc[t] \in {"fok", "freeze"} => frozen[cur[t]] = 0

OwnOrders(a) == {o \in OrderIds : req[o] # NoRequest /\ req[o].acct = a}

\* There are finitely many orders.
LEMMA OrdersFinite == ASSUME NEW S \in SUBSET OrderIds PROVE IsFiniteSet(S)
<1>1. IsFiniteSet(1..MaxOrders)
  BY Bounds, FS_Interval
<1> QED
  BY <1>1, FS_Subset DEF OrderIds

\* The sum of what two functions give, when one order has more of the one and
\* less of the other.
LEMMA TwoSums ==
    ASSUME NEW S, IsFiniteSet(S), NEW o \in S,
           NEW f, NEW g, NEW f1, NEW g1,
           Numbers(f, S), Numbers(g, S), f1[o] \in Int, g1[o] \in Int,
           \A x \in S \ {o} : f1[x] = f[x] /\ g1[x] = g[x]
    PROVE  /\ SumFunctionOnSet(f1, S) + SumFunctionOnSet(g1, S)
                = SumFunctionOnSet(f, S) + SumFunctionOnSet(g, S)
                    + (f1[o] + g1[o] - f[o] - g[o])
           /\ SumFunctionOnSet(f, S) \in Int /\ SumFunctionOnSet(g, S) \in Int
           /\ SumFunctionOnSet(f1, S) \in Int /\ SumFunctionOnSet(g1, S) \in Int
<1>1. SumFunctionOnSet(f1, S) = SumFunctionOnSet(f, S) + f1[o] - f[o]
  BY SumUpdate
<1>2. SumFunctionOnSet(g1, S) = SumFunctionOnSet(g, S) + g1[o] - g[o]
  BY SumUpdate
<1>3. SumFunctionOnSet(f, S) \in Int /\ SumFunctionOnSet(g, S) \in Int
  BY SumInt
<1>4. f[o] \in Int /\ g[o] \in Int
  BY DEF Numbers
<1> QED
  BY <1>1, <1>2, <1>3, <1>4

\* A step that moves what one order's account has between its money, the freeze
\* and the position of that order keeps the money.
LEMMA MoneyMoves ==
    ASSUME RouterTypes, AccountTypes, AccountTypes', MoneyConserved, req' = req,
           NEW o \in OrderIds, req[o] \in Requests,
           \A p \in OrderIds \ {o} : frozen'[p] = frozen[p] /\ position'[p] = position[p],
           \A b \in Accounts \ {req[o].acct} : money'[b] = money[b],
           money'[req[o].acct] + frozen'[o] + position'[o]
               = money[req[o].acct] + frozen[o] + position[o]
    PROVE  MoneyConserved'
<1> SUFFICES ASSUME NEW a \in Accounts
             PROVE  money'[a] + SumFunctionOnSet(frozen', OwnOrders(a))
                      + SumFunctionOnSet(position', OwnOrders(a)) = InitMoney[a]
  BY DEF MoneyConserved, OwnOrders
<1>1. money[a] + SumFunctionOnSet(frozen, OwnOrders(a))
        + SumFunctionOnSet(position, OwnOrders(a)) = InitMoney[a]
  BY DEF MoneyConserved, OwnOrders
<1>2. IsFiniteSet(OwnOrders(a)) /\ OwnOrders(a) \subseteq OrderIds
  BY OrdersFinite DEF OwnOrders
<1>3. Numbers(frozen, OwnOrders(a)) /\ Numbers(position, OwnOrders(a))
  BY <1>2 DEF AccountTypes, Numbers
<1>4. /\ money[a] \in Int /\ money'[a] \in Int /\ InitMoney[a] \in Int
      /\ frozen[o] \in Int /\ position[o] \in Int
      /\ frozen'[o] \in Int /\ position'[o] \in Int
  BY RouterAssumption DEF AccountTypes, RouterAssumption
<1>5. CASE o \in OwnOrders(a)
  <2>1. req[o].acct = a
    BY <1>5 DEF OwnOrders
  <2>2. /\ SumFunctionOnSet(frozen', OwnOrders(a)) + SumFunctionOnSet(position', OwnOrders(a))
             = SumFunctionOnSet(frozen, OwnOrders(a)) + SumFunctionOnSet(position, OwnOrders(a))
                 + (frozen'[o] + position'[o] - frozen[o] - position[o])
        /\ SumFunctionOnSet(frozen, OwnOrders(a)) \in Int
        /\ SumFunctionOnSet(position, OwnOrders(a)) \in Int
        /\ SumFunctionOnSet(frozen', OwnOrders(a)) \in Int
        /\ SumFunctionOnSet(position', OwnOrders(a)) \in Int
    BY <1>2, <1>3, <1>4, <1>5, TwoSums
  <2> QED
    BY <1>1, <1>4, <2>1, <2>2
<1>6. CASE o \notin OwnOrders(a)
  <2>1. req[o].acct # a
    BY <1>6, RouterAssumption DEF OwnOrders, RouterAssumption
  <2>2. /\ SumFunctionOnSet(frozen', OwnOrders(a)) = SumFunctionOnSet(frozen, OwnOrders(a))
        /\ SumFunctionOnSet(position', OwnOrders(a))
             = SumFunctionOnSet(position, OwnOrders(a))
    BY <1>2, <1>6, SumSame
  <2> QED
    BY <1>1, <2>1, <2>2
<1> QED
  BY <1>5, <1>6

\* Where a thread that takes a step may have been before it arrives at a step.
Before(step) ==
    CASE step = "freeze" -> {"fok"}
      [] step = "register" -> {"freeze"}
      [] step = "route" -> {"register"}
      [] step = "accept" -> {"route"}
      [] step = "map" -> {"accept"}
      [] step = "taker" -> {"map", "maker", "maker_trade"}
      [] step = "taker_trade" -> {"taker"}
      [] step = "maker" -> {"taker_trade"}
      [] step = "maker_trade" -> {"maker"}
      [] step = "ioc" -> {"map", "maker", "maker_trade"}
      [] step = "cancel_check" -> {"ioc"}
      [] step = "cancel_book" -> {"cancel_check"}
      [] step = "cancel_status" -> {"cancel_book"}
      [] step = "cancel_release" -> {"cancel_status"}
      [] step = "reject" -> {"map", "taker_trade", "maker_trade"}
      [] OTHER -> {}

\* Thread t goes on with its order, or returns; the others stay where they are.
Proceeds(t) ==
    /\ \A u \in Threads \ {t} : pc'[u] = pc[u] /\ cur'[u] = cur[u]
    /\ \/ pc[t] \in Before(pc'[t]) /\ cur'[t] = cur[t] /\ pc'[t] # "idle"
       \/ pc'[t] = "idle" /\ cur'[t] = 0

\* The three ways a step ends, as Proceeds.
LEMMA GotoProceeds ==
    ASSUME ThreadTypes, NEW t \in Threads, NEW s \in Steps \ {"idle"}, Goto(t, s),
           pc[t] \in Before(s)
    PROVE  Proceeds(t) /\ pc'[t] = s /\ cur'[t] = cur[t]
BY DEF ThreadTypes, Goto, Proceeds

\* ... a return,
LEMMA ReturnProceeds ==
    ASSUME ThreadTypes, NEW t \in Threads, Return(t)
    PROVE  Proceeds(t) /\ pc'[t] = "idle" /\ cur'[t] = 0
BY Bounds DEF ThreadTypes, Return, Proceeds

\* ... and the end of an event.
LEMMA AfterEventProceeds ==
    ASSUME ThreadTypes, NEW t \in Threads, NEW left, AfterEvent(t, left),
           pc[t] \in {"map", "maker", "maker_trade"}
    PROVE  /\ Proceeds(t)
           /\ left # {} => pc'[t] = "taker" /\ cur'[t] = cur[t]
           /\ left = {} /\ req[cur[t]].tif # "GFD" => pc'[t] = "ioc" /\ cur'[t] = cur[t]
           /\ left = {} /\ req[cur[t]].tif = "GFD" => pc'[t] = "idle" /\ cur'[t] = 0
<1>1. CASE left # {}
  BY <1>1, GotoProceeds DEF AfterEvent, Before, Steps, Events
<1>2. CASE left = {} /\ req[cur[t]].tif # "GFD"
  BY <1>2, GotoProceeds DEF AfterEvent, Before, Steps
<1>3. CASE left = {} /\ req[cur[t]].tif = "GFD"
  BY <1>3, ReturnProceeds DEF AfterEvent
<1> QED
  BY <1>1, <1>2, <1>3

\* Every step goes on along the path of submit_order or cancel_order, or returns.
LEMMA StepProceeds ==
    ASSUME ThreadTypes, NEW t \in Threads, Step(t)
    PROVE  Proceeds(t)
<1>1. CASE FokPrecheck(t)
  BY <1>1, GotoProceeds, ReturnProceeds, AfterEventProceeds
  DEF FokPrecheck, Before, Steps, PreRoute, Events, Cancelling
<1>2. CASE FreezeFunds(t)
  BY <1>2, GotoProceeds, ReturnProceeds, AfterEventProceeds
  DEF FreezeFunds, Before, Steps, PreRoute, Events, Cancelling
<1>3. CASE RegisterOrder(t)
  BY <1>3, GotoProceeds, ReturnProceeds, AfterEventProceeds
  DEF RegisterOrder, Before, Steps, PreRoute, Events, Cancelling
<1>4. CASE RouteError(t)
  BY <1>4, GotoProceeds, ReturnProceeds, AfterEventProceeds
  DEF RouteError, Before, Steps, PreRoute, Events, Cancelling
<1>5. CASE RouteRefused(t)
  BY <1>5, GotoProceeds, ReturnProceeds, AfterEventProceeds
  DEF RouteRefused, Before, Steps, PreRoute, Events, Cancelling
<1>6. CASE RouteToMatchingEngine(t)
  BY <1>6, GotoProceeds, ReturnProceeds, AfterEventProceeds
  DEF RouteToMatchingEngine, Before, Steps, PreRoute, Events, Cancelling
<1>7. CASE AcceptStatus(t)
  BY <1>7, GotoProceeds, ReturnProceeds, AfterEventProceeds
  DEF AcceptStatus, Before, Steps, PreRoute, Events, Cancelling
<1>8. CASE AcceptMap(t)
  BY <1>8, GotoProceeds, ReturnProceeds, AfterEventProceeds
  DEF AcceptMap, Before, Steps, PreRoute, Events, Cancelling
<1>9. CASE TakerStatus(t)
  BY <1>9, GotoProceeds, ReturnProceeds, AfterEventProceeds
  DEF TakerStatus, Before, Steps, PreRoute, Events, Cancelling
<1>10. CASE TakerTrade(t)
  BY <1>10, GotoProceeds, ReturnProceeds, AfterEventProceeds
  DEF TakerTrade, Before, Steps, PreRoute, Events, Cancelling
<1>11. CASE MakerStatus(t)
  BY <1>11, GotoProceeds, ReturnProceeds, AfterEventProceeds
  DEF MakerStatus, Before, Steps, PreRoute, Events, Cancelling
<1>12. CASE MakerTrade(t)
  BY <1>12, GotoProceeds, ReturnProceeds, AfterEventProceeds
  DEF MakerTrade, Before, Steps, PreRoute, Events, Cancelling
<1>13. CASE TradeFails(t)
  BY <1>13, GotoProceeds, ReturnProceeds, AfterEventProceeds
  DEF TradeFails, Before, Steps, PreRoute, Events, Cancelling
<1>14. CASE IocCheck(t)
  BY <1>14, GotoProceeds, ReturnProceeds, AfterEventProceeds
  DEF IocCheck, Before, Steps, PreRoute, Events, Cancelling
<1>15. CASE CancelCheck(t)
  BY <1>15, GotoProceeds, ReturnProceeds, AfterEventProceeds
  DEF CancelCheck, Before, Steps, PreRoute, Events, Cancelling
<1>16. CASE CancelBook(t)
  BY <1>16, GotoProceeds, ReturnProceeds, AfterEventProceeds
  DEF CancelBook, Before, Steps, PreRoute, Events, Cancelling
<1>17. CASE CancelStatus(t)
  BY <1>17, GotoProceeds, ReturnProceeds, AfterEventProceeds
  DEF CancelStatus, Before, Steps, PreRoute, Events, Cancelling
<1>18. CASE CancelRelease(t)
  BY <1>18, GotoProceeds, ReturnProceeds, AfterEventProceeds
  DEF CancelRelease, Before, Steps, PreRoute, Events, Cancelling
<1> QED
  BY <1>1, <1>2, <1>3, <1>4, <1>5, <1>6, <1>7, <1>8, <1>9, <1>10, <1>11, <1>12,
     <1>13, <1>14, <1>15, <1>16, <1>17, <1>18
  DEF Step

\* A deal moves the freeze of the order to its position and back to the money.
LEMMA DealKeepsMoney ==
    ASSUME RouterTypes, AccountTypes, MoneyConserved, req' = req,
           NEW o \in OrderIds, req[o] \in Requests, NEW vol \in Nat \ {0}, Deal(o, vol)
    PROVE  MoneyConserved'
<1>1. req[o].acct \in Accounts
  BY RequestFields
<1>2. /\ AccountTypes'
      /\ \A p \in OrderIds \ {o} : frozen'[p] = frozen[p] /\ position'[p] = position[p]
  BY <1>1, DealAccounts
<1>3. /\ money' = [money EXCEPT ![req[o].acct] = @ + frozen[o] - vol]
      /\ frozen' = [frozen EXCEPT ![o] = 0]
      /\ position' = [position EXCEPT ![o] = @ + vol]
  BY DEF Deal
<1>4. \A b \in Accounts \ {req[o].acct} : money'[b] = money[b]
  BY <1>3 DEF AccountTypes
<1>5. /\ money'[req[o].acct] = money[req[o].acct] + frozen[o] - vol
      /\ frozen'[o] = 0 /\ position'[o] = position[o] + vol
      /\ money[req[o].acct] \in Int /\ frozen[o] \in Int /\ position[o] \in Int
  BY <1>1, <1>3 DEF AccountTypes
<1>6. money'[req[o].acct] + frozen'[o] + position'[o]
        = money[req[o].acct] + frozen[o] + position[o]
  BY <1>5
<1> QED
  BY <1>2, <1>4, <1>6, MoneyMoves

\* A step that touches neither money nor freezes nor positions.
LEMMA SameMoney ==
    ASSUME MoneyConserved, UNCHANGED <<req, money, frozen, position>>
    PROVE  MoneyConserved'
BY DEF MoneyConserved

\* The events of a call are of orders that have been given a number.
LEMMA EventOrders ==
    ASSUME IInv, NEW t \in Threads, NEW f \in todo[t]
    PROVE  /\ f.maker \in OrderIds /\ req[f.maker] \in Requests
           /\ cur[t] \in OrderIds /\ req[cur[t]] \in Requests
           /\ f.vol \in Nat \ {0} /\ f \in Matches
           /\ engine_id[f.maker] # 0 /\ engine_id[cur[t]] # 0
           /\ pc[t] \in {"accept", "map"} \cup Events
<1>1. f \in Matches /\ f.maker \in OrderIds /\ f.vol \in Nat \ {0}
  BY DEF IInv, TypeOK, EventTypes, Matches
<1>2. engine_id[f.maker] # 0 /\ engine_id[cur[t]] # 0 /\ pc[t] \in {"accept", "map"} \cup Events
  BY DEF IInv, EventsSound
<1>3. cur[t] \in OrderIds
  BY <1>2, Serving DEF IInv, TypeOK, Events
<1>4. f.maker < order_seq /\ cur[t] < order_seq
  BY <1>1, <1>2, <1>3, SeenIsIssued DEF IInv, TypeOK
<1> QED
  BY <1>1, <1>2, <1>3, <1>4 DEF IInv, IssuedOnly

\* The order of a thread that serves a call has been given a number.
LEMMA ServedOrder ==
    ASSUME IInv, NEW t \in Threads, pc[t] # "idle"
    PROVE  /\ cur[t] \in OrderIds /\ cur[t] < order_seq
           /\ req[cur[t]] \in Requests /\ req[cur[t]].acct \in Accounts
           /\ req[cur[t]].vol \in Nat \ {0}
<1>1. cur[t] \in OrderIds
  BY Serving DEF IInv, TypeOK
<1>2. cur[t] < order_seq
  BY DEF IInv, IssuedOnly
<1>3. req[cur[t]] \in Requests
  BY <1>1, <1>2 DEF IInv, IssuedOnly
<1> QED
  BY <1>1, <1>2, <1>3, RequestFields

\* FreezeFunds, the two deals and CancelRelease move money; no other step does.
LEMMA StepKeepsMoney ==
    ASSUME IInv, FrozenOnce, MoneyConserved, NEW t \in Threads, Step(t)
    PROVE  MoneyConserved'
<1>0. RouterTypes /\ AccountTypes /\ ThreadTypes
  BY DEF IInv, TypeOK
<1>1. CASE FreezeFunds(t)
  <2> DEFINE o == cur[t]
  <2>1. /\ o \in OrderIds /\ req[o] \in Requests /\ req[o].acct \in Accounts
        /\ req[o].vol \in Nat \ {0}
    BY <1>1, ServedOrder DEF FreezeFunds
  <2>2. frozen[o] = 0
    BY <1>1 DEF FrozenOnce, FreezeFunds
  <2>3. CASE money[req[o].acct] >= req[o].vol
    <3>1. /\ money' = [money EXCEPT ![req[o].acct] = @ - req[o].vol]
          /\ frozen' = [frozen EXCEPT ![o] = req[o].vol]
          /\ volume_left' = [volume_left EXCEPT ![o] = req[o].vol]
          /\ UNCHANGED <<req, position>>
      BY <1>0, <1>1, <2>1, <2>3 DEF FreezeFunds, infoVars, AccountTypes
    <3>2. /\ AccountTypes'
          /\ \A p \in OrderIds \ {o} : frozen'[p] = frozen[p] /\ position'[p] = position[p]
          /\ \A b \in Accounts \ {req[o].acct} : money'[b] = money[b]
      BY <1>0, <2>1, <3>1 DEF AccountTypes
    <3>3. /\ money'[req[o].acct] = money[req[o].acct] - req[o].vol
          /\ frozen'[o] = req[o].vol /\ position'[o] = position[o]
          /\ money[req[o].acct] \in Int /\ position[o] \in Int
      BY <1>0, <2>1, <3>1 DEF AccountTypes
    <3>4. money'[req[o].acct] + frozen'[o] + position'[o]
            = money[req[o].acct] + frozen[o] + position[o]
      BY <2>1, <2>2, <3>3
    <3> QED
      BY <1>0, <2>1, <3>1, <3>2, <3>4, MoneyMoves
  <2>4. CASE ~(money[req[o].acct] >= req[o].vol)
    <3>1. UNCHANGED <<req, money, frozen, position>>
      BY <1>1, <2>4 DEF FreezeFunds, infoVars
    <3> QED
      BY <3>1, SameMoney
  <2> QED
    BY <2>3, <2>4
<1>2. CASE TakerTrade(t)
  <2>1. PICK f \in todo[t] : Deal(cur[t], f.vol)
    BY <1>2 DEF TakerTrade
  <2>2. req' = req
    BY <1>2 DEF TakerTrade, infoVars
  <2> QED
    BY <1>0, <2>1, <2>2, EventOrders, DealKeepsMoney
<1>3. CASE MakerTrade(t)
  <2>1. PICK f \in todo[t] : Deal(f.maker, f.vol)
    BY <1>3 DEF MakerTrade
  <2>2. req' = req
    BY <1>3 DEF MakerTrade, infoVars
  <2> QED
    BY <1>0, <2>1, <2>2, EventOrders, DealKeepsMoney
<1>4. CASE CancelRelease(t)
  <2> DEFINE o == cur[t]
  <2>1. o \in OrderIds /\ req[o] \in Requests /\ req[o].acct \in Accounts
    BY <1>4, ServedOrder DEF CancelRelease
  <2>2. /\ money' = [money EXCEPT ![req[o].acct] = @ + frozen[o]]
        /\ frozen' = [frozen EXCEPT ![o] = 0]
        /\ volume_left' = [volume_left EXCEPT ![o] = 0]
        /\ UNCHANGED <<req, position>>
    BY <1>4 DEF CancelRelease, infoVars
  <2>3. /\ AccountTypes'
        /\ \A p \in OrderIds \ {o} : frozen'[p] = frozen[p] /\ position'[p] = position[p]
        /\ \A b \in Accounts \ {req[o].acct} : money'[b] = money[b]
    BY <1>0, <2>1, <2>2 DEF AccountTypes
  <2>4. /\ money'[req[o].acct] = money[req[o].acct] + frozen[o]
        /\ frozen'[o] = 0 /\ position'[o] = position[o]
        /\ money[req[o].acct] \in Int /\ position[o] \in Int /\ frozen[o] \in Int
    BY <1>0, <2>1, <2>2 DEF AccountTypes
  <2>5. money'[req[o].acct] + frozen'[o] + position'[o]
          = money[req[o].acct] + frozen[o] + position[o]
    BY <2>4
  <2> QED
    BY <1>0, <2>1, <2>2, <2>3, <2>5, MoneyMoves
<1>5. CASE UNCHANGED <<req, money, frozen, position>>
  BY <1>5, SameMoney
<1> QED
  BY <1>1, <1>2, <1>3, <1>4, <1>5
  DEF Step, FokPrecheck, RegisterOrder, RouteError, RouteRefused, RouteToMatchingEngine,
      AcceptStatus, AcceptMap, TakerStatus, MakerStatus, TradeFails, IocCheck, CancelCheck,
      CancelBook, CancelStatus, infoVars, acctVars

\* An order gets nothing by being given a number.
LEMMA SubmitKeepsMoney ==
    ASSUME IInv, FrozenOnce, MoneyConserved, NEW t \in Threads, NEW r \in Requests,
           SubmitOrder(t, r)
    PROVE  MoneyConserved'
<1>0. RouterTypes /\ AccountTypes /\ ThreadTypes
  BY DEF IInv, TypeOK
<1>1. /\ order_seq \in OrderIds /\ req' = [req EXCEPT ![order_seq] = r]
      /\ UNCHANGED <<money, frozen, position>>
  BY DEF SubmitOrder, acctVars
<1>2. req[order_seq] = NoRequest /\ frozen[order_seq] = 0
  BY <1>0, <1>1 DEF FrozenOnce, OrderIds
<1>3. position[order_seq] = 0
  BY <1>0, <1>1 DEF IInv, UnseenUntraded, IssuedOnly, OrderIds
<1> SUFFICES ASSUME NEW a \in Accounts
             PROVE  money[a] + SumFunctionOnSet(frozen, OwnOrders(a)')
                      + SumFunctionOnSet(position, OwnOrders(a)') = InitMoney[a]
  BY <1>1 DEF MoneyConserved, OwnOrders
<1>4. money[a] + SumFunctionOnSet(frozen, OwnOrders(a))
        + SumFunctionOnSet(position, OwnOrders(a)) = InitMoney[a]
  BY DEF MoneyConserved, OwnOrders
<1> DEFINE own == OwnOrders(a)
           new == OwnOrders(a)'
<1>5. /\ own \in SUBSET new /\ IsFiniteSet(new)
      /\ new \subseteq own \cup {order_seq} /\ new \subseteq OrderIds
  <2>1. \A o \in OrderIds \ {order_seq} : req'[o] = req[o]
    BY <1>0, <1>1 DEF RouterTypes
  <2>2. new \subseteq OrderIds /\ own \subseteq OrderIds
    BY DEF OwnOrders
  <2>3. own \subseteq new /\ new \subseteq own \cup {order_seq}
    BY <1>2, <2>1 DEF OwnOrders
  <2> QED
    BY <2>2, <2>3, OrdersFinite
<1>6. Numbers(frozen, new) /\ Numbers(position, new)
  BY <1>0, <1>5 DEF Numbers, AccountTypes
<1>7. \A o \in new \ own : frozen[o] = 0 /\ position[o] = 0
  BY <1>2, <1>3, <1>5
<1>8. /\ SumFunctionOnSet(frozen, new) = SumFunctionOnSet(frozen, own)
      /\ SumFunctionOnSet(position, new) = SumFunctionOnSet(position, own)
  BY <1>5, <1>6, <1>7, SumOfPart
<1> QED
  BY <1>4, <1>8

\* What FrozenOnce needs of a step that is not a submission.
LEMMA FrozenStays ==
    ASSUME FrozenOnce, ThreadTypes, NEW t \in Threads, Proceeds(t),
           UNCHANGED <<order_seq, req>>,
           \A o \in OrderIds : frozen'[o] \in {frozen[o], 0}
    PROVE  FrozenOnce'
<1>1. \A o \in OrderIds : o >= order_seq => req'[o] = NoRequest /\ frozen'[o] = 0
  BY DEF FrozenOnce
<1>2. \A u \in Threads : pc'[u] \in {"fok", "freeze"} =>
        pc[u] \in {"fok", "freeze"} /\ cur'[u] = cur[u] /\ cur[u] \in OrderIds
  BY Serving DEF Proceeds, Before
<1>3. \A u \in Threads : pc'[u] \in {"fok", "freeze"} => frozen'[cur'[u]] = 0
  BY <1>2 DEF FrozenOnce
<1> QED
  BY <1>1, <1>3 DEF FrozenOnce

\* send_order freezes an order once.
LEMMA StepFrozenOnce ==
    ASSUME IInv, FrozenOnce, NEW t \in Threads, Step(t)
    PROVE  FrozenOnce'
<1>0. RouterTypes /\ AccountTypes /\ ThreadTypes
  BY DEF IInv, TypeOK
<1>p. Proceeds(t)
  BY <1>0, StepProceeds
<1>q. UNCHANGED <<order_seq, req>>
  BY DEF Step, FokPrecheck, FreezeFunds, RegisterOrder, RouteError, RouteRefused,
         RouteToMatchingEngine, AcceptStatus, AcceptMap, TakerStatus, TakerTrade,
         MakerStatus, MakerTrade, TradeFails, IocCheck, CancelCheck, CancelBook,
         CancelStatus, CancelRelease, infoVars
<1>1. CASE FreezeFunds(t)
  <2> DEFINE o == cur[t]
  <2>1. o \in OrderIds /\ o < order_seq /\ pc[t] = "freeze"
    BY <1>1, ServedOrder DEF FreezeFunds
  <2>2. \A p \in OrderIds \ {o} : frozen'[p] = frozen[p]
    BY <1>0, <1>1 DEF FreezeFunds, AccountTypes
  <2>3. \A p \in OrderIds : p >= order_seq => req'[p] = NoRequest /\ frozen'[p] = 0
    BY <1>0, <1>q, <2>1, <2>2 DEF FrozenOnce, RouterTypes, OrderIds
  <2>4. pc'[t] \notin {"fok", "freeze"}
    BY <1>p, <2>1 DEF Proceeds, Before
  <2>5. \A u \in Threads : pc'[u] \in {"fok", "freeze"} =>
          u # t /\ pc[u] \in {"fok", "freeze"} /\ cur'[u] = cur[u] /\ cur[u] \in OrderIds
    BY <1>0, <1>p, <2>4, Serving DEF Proceeds
  <2>6. \A u \in Threads : pc'[u] \in {"fok", "freeze"} => cur[u] # o
    BY <2>1, <2>5 DEF IInv, RoutedOnce, PreRoute
  <2>7. \A u \in Threads : pc'[u] \in {"fok", "freeze"} => frozen'[cur'[u]] = 0
    BY <2>2, <2>5, <2>6 DEF FrozenOnce
  <2> QED
    BY <1>q, <2>3, <2>7 DEF FrozenOnce
<1>2. CASE TakerTrade(t) \/ MakerTrade(t) \/ CancelRelease(t)
  <2>1. \A o \in OrderIds : frozen'[o] \in {frozen[o], 0}
    BY <1>0, <1>2 DEF TakerTrade, MakerTrade, CancelRelease, Deal, AccountTypes
  <2> QED
    BY <1>0, <1>p, <1>q, <2>1, FrozenStays
<1>3. CASE UNCHANGED frozen
  BY <1>0, <1>p, <1>q, <1>3, FrozenStays
<1> QED
  BY <1>1, <1>2, <1>3
  DEF Step, FokPrecheck, RegisterOrder, RouteError, RouteRefused, RouteToMatchingEngine,
      AcceptStatus, AcceptMap, TakerStatus, MakerStatus, TradeFails, IocCheck, CancelCheck,
      CancelBook, CancelStatus, acctVars

\* ... and a call starts with an order that has nothing frozen, or cancels.
LEMMA CallFrozenOnce ==
    ASSUME IInv, FrozenOnce, NEW t \in Threads, Call(t)
    PROVE  FrozenOnce'
<1>0. RouterTypes /\ AccountTypes /\ ThreadTypes
  BY DEF IInv, TypeOK
<1>1. ASSUME NEW r \in Requests, SubmitOrder(t, r) PROVE FrozenOnce'
  <2>1. /\ order_seq \in OrderIds /\ order_seq' = order_seq + 1
        /\ req' = [req EXCEPT ![order_seq] = r] /\ UNCHANGED frozen
    BY <1>1 DEF SubmitOrder, acctVars
  <2>2. \A o \in OrderIds : o >= order_seq' => req'[o] = NoRequest /\ frozen'[o] = 0
    BY <1>0, <2>1 DEF FrozenOnce, RouterTypes, OrderIds
  <2>3. frozen[order_seq] = 0
    BY <2>1 DEF FrozenOnce, OrderIds
  <2>4. \A u \in Threads : pc'[u] \in {"fok", "freeze"} =>
          \/ pc[u] \in {"fok", "freeze"} /\ cur'[u] = cur[u]
          \/ cur'[u] = order_seq
    BY <1>0, <1>1 DEF SubmitOrder, ThreadTypes
  <2> QED
    BY <2>1, <2>2, <2>3, <2>4 DEF FrozenOnce
<1>2. ASSUME NEW o \in OrderIds, ClientCancel(t, o) PROVE FrozenOnce'
  <2>1. UNCHANGED <<order_seq, req, frozen>>
    BY <1>2 DEF ClientCancel, infoVars, acctVars
  <2>2. \A u \in Threads : pc'[u] \in {"fok", "freeze"} =>
          pc[u] \in {"fok", "freeze"} /\ cur'[u] = cur[u]
    BY <1>0, <1>2 DEF ClientCancel, ThreadTypes
  <2> QED
    BY <2>1, <2>2 DEF FrozenOnce
<1> QED
  BY <1>1, <1>2 DEF Call

\* Freezing, dealing, releasing: whatever calls interleave on an account, for any
\* number of threads, accounts and orders, no money is made or lost.
THEOREM MoneyIsConserved == Spec => []MoneyConserved
<1>1. Init => FrozenOnce /\ MoneyConserved
  <2> SUFFICES ASSUME Init PROVE FrozenOnce /\ MoneyConserved
    OBVIOUS
  <2>1. FrozenOnce
    BY DEF Init, FrozenOnce
  <2>2. \A a \in Accounts : OwnOrders(a) = {}
    BY DEF Init, OwnOrders
  <2>3. \A a \in Accounts : money[a] + 0 + 0 = InitMoney[a]
    BY RouterAssumption DEF Init, RouterAssumption
  <2> QED
    BY <2>1, <2>2, <2>3, SumEmpty DEF MoneyConserved, OwnOrders
<1>2. IInv /\ FrozenOnce /\ MoneyConserved /\ [Next]_vars => FrozenOnce' /\ MoneyConserved'
  <2> SUFFICES ASSUME IInv, FrozenOnce, MoneyConserved, [Next]_vars
               PROVE  FrozenOnce' /\ MoneyConserved'
    OBVIOUS
  <2>1. CASE UNCHANGED vars
    BY <2>1 DEF vars, infoVars, acctVars, threadVars, FrozenOnce, MoneyConserved
  <2>2. ASSUME NEW t \in Threads, Step(t) PROVE FrozenOnce' /\ MoneyConserved'
    BY <2>2, StepFrozenOnce, StepKeepsMoney
  <2>3. ASSUME NEW t \in Threads, Call(t) PROVE FrozenOnce' /\ MoneyConserved'
    <3>1. FrozenOnce'
      BY <2>3, CallFrozenOnce
    <3>2. ASSUME NEW o \in OrderIds, ClientCancel(t, o) PROVE MoneyConserved'
      <4>1. UNCHANGED <<req, money, frozen, position>>
        BY <3>2 DEF ClientCancel, infoVars, acctVars
      <4> QED
        BY <4>1, SameMoney
    <3> QED
      BY <2>3, <3>1, <3>2, SubmitKeepsMoney DEF Call
  <2> QED
    BY <2>1, <2>2, <2>3 DEF Next
<1> QED
  BY <1>1, <1>2, Invariance, PTL DEF Spec
------------------------------------------------------------------------------
(* Volumes: how the lots that the book executes get from the events of a    *)
(* match into positions and into filled_volume.                             *)

\* Volumes of sets of events and of matches.
Volumes(S) == SumFunction([f \in S |-> f.vol])
HasVolumes(S) == IsFiniteSet(S) /\ \A f \in S : f.vol \in Nat

\* The volumes of a part of a finite set, as the sum over the part.
LEMMA VolumesOn ==
    ASSUME NEW S, HasVolumes(S), NEW T \in SUBSET S
    PROVE  /\ HasVolumes(T)
           /\ Volumes(T) = SumFunctionOnSet([f \in S |-> f.vol], T)
           /\ Volumes(T) \in Nat
<1>1. HasVolumes(T)
  BY FS_Subset DEF HasVolumes
<1>2. Volumes(T) = SumFunctionOnSet([f \in T |-> f.vol], T)
  BY DEF Volumes, SumFunction, SumFunctionOnSet, FoldFunctionOnSet
<1>3. SumFunctionOnSet([f \in T |-> f.vol], T) = SumFunctionOnSet([f \in S |-> f.vol], T)
  BY <1>1, SumSame DEF HasVolumes
<1>4. SumFunctionOnSet([f \in T |-> f.vol], T) \in Nat
  BY <1>1, SumNat DEF HasVolumes
<1> QED
  BY <1>1, <1>2, <1>3, <1>4

\* Nothing has no volume.
LEMMA VolumesEmpty == HasVolumes({}) /\ Volumes({}) = 0
<1>1. HasVolumes({}) /\ {} \in SUBSET {}
  BY FS_EmptySet DEF HasVolumes
<1>2. Volumes({}) = SumFunctionOnSet([f \in {} |-> f.vol], {})
  BY <1>1, VolumesOn
<1> QED
  BY <1>1, <1>2, SumEmpty

\* A part has no more volume than the whole.
LEMMA VolumesSubset ==
    ASSUME NEW S, HasVolumes(S), NEW T \in SUBSET S
    PROVE  HasVolumes(T) /\ Volumes(T) \in Nat /\ Volumes(S) \in Nat /\ Volumes(T) <= Volumes(S)
<1> DEFINE v == [f \in S |-> f.vol]
<1>1. \A f \in S : v[f] \in Nat
  BY DEF HasVolumes
<1>2. IsFiniteSet(S)
  BY DEF HasVolumes
<1>3. SumFunctionOnSet(v, T) <= SumFunctionOnSet(v, S)
  BY <1>1, <1>2, SumSubset
<1>4. S \in SUBSET S
  OBVIOUS
<1> QED
  BY <1>3, <1>4, VolumesOn

\* One event less, and its volume less.
LEMMA VolumesRemove ==
    ASSUME NEW S, HasVolumes(S), NEW f \in S
    PROVE  Volumes(S) = f.vol + Volumes(S \ {f})
<1> DEFINE v == [g \in S |-> g.vol]
<1>1. Numbers(v, S) /\ v[f] = f.vol
  BY DEF HasVolumes, Numbers
<1>2. IsFiniteSet(S)
  BY DEF HasVolumes
<1>3. SumFunctionOnSet(v, S) = v[f] + SumFunctionOnSet(v, S \ {f})
  BY <1>1, <1>2, SumRemove
<1>4. S \in SUBSET S /\ S \ {f} \in SUBSET S
  OBVIOUS
<1> QED
  BY <1>1, <1>3, <1>4, VolumesOn

\* The volumes of two sets that have nothing in common.
LEMMA VolumesUnion ==
    ASSUME NEW S, NEW T, HasVolumes(S), HasVolumes(T), S \cap T = {}
    PROVE  Volumes(S \cup T) = Volumes(S) + Volumes(T) /\ HasVolumes(S \cup T)
<1> DEFINE v == [g \in S \cup T |-> g.vol]
<1>1. Numbers(v, S) /\ Numbers(v, T)
  BY DEF HasVolumes, Numbers
<1>2. IsFiniteSet(S) /\ IsFiniteSet(T)
  BY DEF HasVolumes
<1>3. SumFunctionOnSet(v, S \cup T) = SumFunctionOnSet(v, S) + SumFunctionOnSet(v, T)
  BY <1>1, <1>2, SumUnion
<1>4. HasVolumes(S \cup T)
  BY FS_Union DEF HasVolumes
<1>5. S \cup T \in SUBSET (S \cup T) /\ S \in SUBSET (S \cup T) /\ T \in SUBSET (S \cup T)
  OBVIOUS
<1> QED
  BY <1>3, <1>4, <1>5, VolumesOn

\* Events or matches named by the orders they take from: their volumes are what
\* is taken.
LEMMA VolumesNamed ==
    ASSUME NEW S, IsFiniteSet(S), NEW take, \A m \in S : take[m] \in Nat,
           NEW b, \A m \in S : b[m].vol = take[m],
           \A m, n \in S : b[m] = b[n] => m = n,
           NEW T, T = {b[m] : m \in S}
    PROVE  HasVolumes(T) /\ Volumes(T) = SumFunctionOnSet(take, S)
<1> DEFINE k == [f \in T |-> f.vol]
<1>1. HasVolumes(T)
  BY FiniteImage DEF HasVolumes
<1>2. \A m \in S : k[b[m]] = take[m]
  OBVIOUS
<1>3. SumFunctionOnSet(k, T) = SumFunctionOnSet(take, S)
  BY <1>2, SumRenamed DEF Numbers
<1>4. T \in SUBSET T
  OBVIOUS
<1> QED
  BY <1>1, <1>3, <1>4, VolumesOn

\* There are finitely many threads.
LEMMA ThreadsFinite == IsFiniteSet(Threads)
BY RouterAssumption DEF RouterAssumption

\* What is pending over all threads.
Total(D) == SumFunction([u \in Threads |-> Volumes(D[u])])

\* What is pending over all threads, as a sum of numbers.
LEMMA TotalOn ==
    ASSUME NEW D, \A u \in Threads : HasVolumes(D[u])
    PROVE  /\ Total(D) = SumFunctionOnSet([u \in Threads |-> Volumes(D[u])], Threads)
           /\ \A u \in Threads : Volumes(D[u]) \in Nat
           /\ Total(D) \in Nat
<1>1. Total(D) = SumFunctionOnSet([u \in Threads |-> Volumes(D[u])], Threads)
  BY DEF Total, SumFunction, SumFunctionOnSet, FoldFunctionOnSet
<1>2. \A u \in Threads : Volumes(D[u]) \in Nat
  <2> SUFFICES ASSUME NEW u \in Threads PROVE Volumes(D[u]) \in Nat
    OBVIOUS
  <2> QED
    BY VolumesSubset
<1>3. SumFunctionOnSet([u \in Threads |-> Volumes(D[u])], Threads) \in Nat
  BY <1>2, SumNat, ThreadsFinite
<1> QED
  BY <1>1, <1>2, <1>3

\* One thread has v less pending (v may be negative), the others have no more.
LEMMA TotalMoves ==
    ASSUME NEW D, NEW E, \A u \in Threads : HasVolumes(D[u]) /\ HasVolumes(E[u]),
           NEW t \in Threads, NEW v \in Int, Volumes(E[t]) + v <= Volumes(D[t]),
           \A u \in Threads \ {t} : E[u] \subseteq D[u]
    PROVE  Total(E) + v <= Total(D) /\ Total(E) \in Nat /\ Total(D) \in Nat
<1> DEFINE d == [u \in Threads |-> Volumes(D[u])]
           e == [u \in Threads |-> Volumes(E[u])]
           others == Threads \ {t}
<1>1. /\ Total(D) = SumFunctionOnSet(d, Threads) /\ Total(E) = SumFunctionOnSet(e, Threads)
      /\ \A u \in Threads : d[u] \in Nat /\ e[u] \in Nat
      /\ Total(D) \in Nat /\ Total(E) \in Nat
  BY TotalOn
<1>2. \A u \in others : e[u] <= d[u]
  <2> SUFFICES ASSUME NEW u \in others PROVE Volumes(E[u]) <= Volumes(D[u])
    OBVIOUS
  <2> QED
    BY VolumesSubset
<1>3. Numbers(d, Threads) /\ Numbers(e, Threads) /\ Numbers(d, others) /\ Numbers(e, others)
  BY <1>1 DEF Numbers
<1>4. IsFiniteSet(others)
  BY ThreadsFinite, FS_RemoveElement
<1>5. SumFunctionOnSet(d, Threads) = d[t] + SumFunctionOnSet(d, others)
  BY <1>3, ThreadsFinite, SumRemove
<1>6. SumFunctionOnSet(e, Threads) = e[t] + SumFunctionOnSet(e, others)
  BY <1>3, ThreadsFinite, SumRemove
<1>7. SumFunctionOnSet(e, others) <= SumFunctionOnSet(d, others)
  BY <1>2, <1>3, <1>4, SumMonotone
<1>8. SumFunctionOnSet(d, others) \in Int /\ SumFunctionOnSet(e, others) \in Int
  BY <1>3, <1>4, SumInt
<1>9. e[t] + v <= d[t] /\ d[t] \in Nat /\ e[t] \in Nat
  BY <1>1
<1> HIDE DEF d, e
<1> QED
  BY <1>1, <1>5, <1>6, <1>7, <1>8, <1>9
------------------------------------------------------------------------------
\* A match is between two orders that the book has seen.
MatchedSound ==
    /\ IsFiniteSet(matched)
    /\ matched \subseteq [taker : OrderIds, maker : OrderIds, vol : Nat \ {0}]
    /\ \A m \in matched :
         engine_id[m.taker] # 0 /\ engine_id[m.maker] # 0 /\ m.taker # m.maker

\* The orders that one call hits are on the other side of the book.
EventsOpposed ==
    \A u \in Threads :
        /\ IsFiniteSet(todo[u])
        /\ \A f \in todo[u] : req[f.maker].side # req[cur[u]].side

\* The matches thread u has yet to count into filled_volume of order o.
Uncounted(u, o) ==
    {f \in todo[u] :
        \/ f.maker = o /\ ~(pc[u] = "maker_trade" /\ NextMatch(u, f))
        \/ cur[u] = o /\ ~(pc[u] \in {"taker_trade", "maker", "maker_trade"}
                           /\ NextMatch(u, f))}

MatchesOf(o) == {m \in matched : o \in {m.taker, m.maker}}
DueOf(o) == [u \in Threads |-> Due(u, o)]
UncountedOf(o) == [u \in Threads |-> Uncounted(u, o)]

\* No match is counted into filled_volume twice: what has been counted and what
\* is still to be is at most what the book executed.
CountedOnce == \A o \in OrderIds : filled_volume[o] + Total(UncountedOf(o)) =< Executed(o)

\* What was executed of an order and what rests of it is no more than was asked.
NotOverfilled ==
    \A o \in OrderIds : engine_id[o] # 0 => Executed(o) + rest[o] =< req[o].vol

\* FillsAppliedOnce in terms of the volumes above.
LEMMA AppliedOnceIs ==
    /\ FillsAppliedOnce <=>
         \A o \in OrderIds : position[o] + Total(DueOf(o)) =< Executed(o)
    /\ FillsAppliedOnce' <=>
         \A o \in OrderIds : position'[o] + Total(DueOf(o)') =< Executed(o)'
<1>1. \A o : [u \in Threads |-> InFlight(u, o)] = [u \in Threads |-> Volumes(DueOf(o)[u])]
  BY DEF InFlight, Volumes, DueOf
<1>2. \A o : [u \in Threads |-> InFlight(u, o)'] = [u \in Threads |-> Volumes(DueOf(o)'[u])]
  BY DEF InFlight, Volumes, DueOf
<1> QED
  BY <1>1, <1>2 DEF FillsAppliedOnce, Total

\* What the book executed of an order is the volume of its matches.
LEMMA ExecutedIs ==
    \A o : Executed(o) = Volumes(MatchesOf(o)) /\ Executed(o)' = Volumes(MatchesOf(o)')
BY DEF Executed, Volumes, MatchesOf

\* What the book has seen does not change its request or its arrival.
SeenStays ==
    \A p \in OrderIds : engine_id[p] # 0 => req'[p] = req[p] /\ engine_id'[p] = engine_id[p]

\* Only process_order gives an arrival number, to an order that had none; only
\* a submission writes a request, of a number that was not given out.
LEMMA StepSeenStays ==
    ASSUME IInv, NEW t \in Threads, Step(t) \/ Call(t)
    PROVE  SeenStays
<1>0. RouterTypes /\ BookTypes /\ ThreadTypes
  BY DEF IInv, TypeOK
<1>1. CASE RouteToMatchingEngine(t)
  <2>1. cur[t] \in OrderIds /\ engine_id[cur[t]] = 0
    BY <1>1, ServedOrder DEF RouteToMatchingEngine, IInv, RoutedOnce, PreRoute
  <2>2. /\ req' = req
        /\ engine_id' = [engine_id EXCEPT ![cur[t]] =
                1 + Cardinality({m \in OrderIds : engine_id[m] > 0})]
    BY <1>1 DEF RouteToMatchingEngine, infoVars
  <2>3. \A p \in OrderIds \ {cur[t]} : engine_id'[p] = engine_id[p]
    BY <1>0, <2>2 DEF BookTypes
  <2> QED
    BY <2>1, <2>2, <2>3 DEF SeenStays
<1>2. ASSUME NEW r \in Requests, SubmitOrder(t, r) PROVE SeenStays
  <2>1. /\ order_seq \in OrderIds /\ req' = [req EXCEPT ![order_seq] = r]
        /\ engine_id' = engine_id
    BY <1>2 DEF SubmitOrder, bookVars
  <2>2. engine_id[order_seq] = 0
    BY <1>0, <2>1 DEF IInv, IssuedOnly, OrderIds
  <2> QED
    BY <1>0, <2>1, <2>2 DEF SeenStays, RouterTypes
<1>3. ASSUME UNCHANGED <<req, engine_id>> PROVE SeenStays
  BY <1>3 DEF SeenStays
<1>4. ASSUME NEW o \in OrderIds, ClientCancel(t, o) PROVE SeenStays
  BY <1>3, <1>4 DEF ClientCancel, infoVars, bookVars
<1> QED
  BY <1>1, <1>2, <1>3, <1>4
  DEF Call, Step, FokPrecheck, FreezeFunds, RegisterOrder, RouteError, RouteRefused,
      AcceptStatus, AcceptMap, TakerStatus, TakerTrade, MakerStatus, MakerTrade,
      TradeFails, IocCheck, CancelCheck, CancelBook, CancelStatus, CancelRelease,
      infoVars, bookVars

\* Events of other threads stay, and only the book adds to a thread's own.
LEMMA StepTodo ==
    ASSUME IInv, NEW t \in Threads, Step(t)
    PROVE  /\ \A u \in Threads \ {t} : todo'[u] = todo[u]
           /\ ~RouteToMatchingEngine(t) => todo'[t] \subseteq todo[t]
<1>0. EventTypes
  BY DEF IInv, TypeOK
<1>1. CASE RouteToMatchingEngine(t)
  BY <1>0, <1>1 DEF RouteToMatchingEngine, EventTypes
<1>2. CASE AcceptMap(t)
  BY <1>0, <1>2 DEF AcceptMap, EventTypes
<1>3. CASE MakerStatus(t)
  BY <1>0, <1>3 DEF MakerStatus, EventTypes
<1>4. CASE MakerTrade(t)
  BY <1>0, <1>4 DEF MakerTrade, EventTypes
<1>5. CASE TradeFails(t)
  BY <1>0, <1>5 DEF TradeFails, EventTypes
<1>6. CASE todo' = todo
  BY <1>6
<1> QED
  BY <1>1, <1>2, <1>3, <1>4, <1>5, <1>6
  DEF Step, FokPrecheck, FreezeFunds, RegisterOrder, RouteError, RouteRefused,
      AcceptStatus, TakerStatus, TakerTrade, IocCheck, CancelCheck, CancelBook,
      CancelStatus, CancelRelease

\* A thread that serves no call has no events.
LEMMA IdleNoEvents ==
    ASSUME IInv, NEW u \in Threads,
           pc[u] \in PreRoute \cup Cancelling \cup {"idle", "ioc", "cancel_check", "reject"}
    PROVE  todo[u] = {}
BY DEF IInv, EventsSound, Events, PreRoute, Cancelling

\* The next match is one.
LEMMA OneNext ==
    ASSUME IInv, EventsOpposed, NEW u \in Threads, NEW f \in todo[u], NEW g \in todo[u],
           NextMatch(u, f), NextMatch(u, g)
    PROVE  f = g
<1> SUFFICES ASSUME f # g PROVE FALSE
  OBVIOUS
<1>1. Ahead(req, engine_id, f.maker, g.maker) /\ Ahead(req, engine_id, g.maker, f.maker)
  BY DEF NextMatch
<1>2. /\ f.maker \in OrderIds /\ g.maker \in OrderIds
      /\ req[f.maker] \in Requests /\ req[g.maker] \in Requests /\ req[cur[u]] \in Requests
  BY EventOrders
<1>3. /\ req[f.maker].side \in Sides /\ req[g.maker].side \in Sides
      /\ req[cur[u]].side \in Sides
      /\ req[f.maker].price \in Nat /\ req[g.maker].price \in Nat
  BY <1>2, RouterAssumption DEF RouterAssumption
<1>4. req[f.maker].side = req[g.maker].side
  BY <1>3 DEF EventsOpposed, Sides
<1>5. engine_id[f.maker] \in Nat /\ engine_id[g.maker] \in Nat
  BY <1>2 DEF IInv, TypeOK, BookTypes
<1> QED
  BY <1>1, <1>3, <1>4, <1>5 DEF Ahead, Sides

\* Which match is next depends on what the book has seen.
LEMMA NextStays ==
    ASSUME IInv, SeenStays, NEW u \in Threads, todo'[u] = todo[u]
    PROVE  \A f \in todo[u] : NextMatch(u, f)' <=> NextMatch(u, f)
<1>1. \A f \in todo[u] : f.maker \in OrderIds /\ engine_id[f.maker] # 0
  BY EventOrders
<1>2. \A f \in todo[u] : /\ req'[f.maker] = req[f.maker]
                         /\ engine_id'[f.maker] = engine_id[f.maker]
  BY <1>1 DEF SeenStays
<1>3. \A f, g \in todo[u] :
        Ahead(req, engine_id, f.maker, g.maker)' <=> Ahead(req, engine_id, f.maker, g.maker)
  BY <1>2 DEF Ahead
<1> QED
  BY <1>3 DEF NextMatch
------------------------------------------------------------------------------
\* What process_order does with order c of thread t.
LEMMA Routing ==
    ASSUME IInv, NEW t \in Threads, RouteToMatchingEngine(t)
    PROVE  /\ cur[t] \in OrderIds /\ engine_id[cur[t]] = 0 /\ rest[cur[t]] = 0
           /\ req[cur[t]].vol \in Nat \ {0} /\ position[cur[t]] = 0
           /\ \E take \in [OrderIds -> Nat], left \in Nat :
                /\ IsMatch(req, rest, engine_id, req[cur[t]], take, left)
                /\ left + SumFunction(take) = req[cur[t]].vol
                /\ rest' = [m \in OrderIds |->
                              IF m = cur[t] THEN left ELSE rest[m] - take[m]]
                /\ todo'[t] = MatchEvents(take, left)
                /\ matched' = matched \cup
                     {[taker |-> cur[t], maker |-> m, vol |-> take[m]]
                        : m \in {n \in OrderIds : take[n] > 0}}
                /\ \A m \in OrderIds : take[m] > 0 =>
                     /\ m # cur[t] /\ engine_id[m] # 0 /\ take[m] <= rest[m]
                     /\ req[m].side # req[cur[t]].side
                     /\ Crosses(req[cur[t]], req[m])
<1> DEFINE o == cur[t]
           r == req[o]
<1>0. BookTypes /\ EventTypes /\ UnseenUntraded
  BY DEF IInv, TypeOK
<1>1. o \in OrderIds /\ r.vol \in Nat \ {0}
  BY ServedOrder DEF RouteToMatchingEngine
<1>2. engine_id[o] = 0
  BY DEF IInv, RoutedOnce, PreRoute, RouteToMatchingEngine
<1>3. rest[o] = 0 /\ position[o] = 0
  BY <1>0, <1>1, <1>2 DEF UnseenUntraded
<1>4. PICK take \in [OrderIds -> 0..r.vol], left \in 0..r.vol :
        /\ IsMatch(req, rest, engine_id, r, take, left)
        /\ rest' = [m \in OrderIds |-> IF m = o THEN left ELSE rest[m] - take[m]]
        /\ todo' = [todo EXCEPT ![t] = MatchEvents(take, left)]
        /\ matched' = matched \cup
             {[taker |-> o, maker |-> m, vol |-> take[m]]
                : m \in {n \in OrderIds : take[n] > 0}}
  BY DEF RouteToMatchingEngine
<1>5. take \in [OrderIds -> Nat] /\ left \in Nat
  BY <1>1, <1>4
<1>6. todo'[t] = MatchEvents(take, left)
  BY <1>0, <1>4 DEF EventTypes
<1>7. left + SumFunction(take) = r.vol
  BY <1>4 DEF IsMatch
<1>8. ASSUME NEW m \in OrderIds, take[m] > 0
      PROVE  /\ m # o /\ engine_id[m] # 0 /\ take[m] <= rest[m]
             /\ req[m].side # r.side /\ Crosses(r, req[m])
  <2>1. take[m] <= (IF m \in Opposite(req, rest, r) THEN rest[m] ELSE 0)
    BY <1>0, <1>4 DEF IsMatch, BookTypes
  <2>2. m \in Opposite(req, rest, r)
    BY <1>5, <1>8, <2>1
  <2>3. take[m] <= rest[m] /\ rest[m] > 0 /\ Crosses(r, req[m])
    BY <2>1, <2>2 DEF Opposite
  <2>4. engine_id[m] # 0
    BY <1>0, <2>3 DEF UnseenUntraded
  <2> QED
    BY <1>2, <2>3, <2>4 DEF Crosses
<1> QED
  BY <1>1, <1>2, <1>3, <1>4, <1>5, <1>6, <1>7, <1>8

\* The orders that a match takes from, as far as order p has to do with it.
HitOf(take, c, p) == {n \in OrderIds : take[n] > 0 /\ (p = c \/ n = p)}
Taken(take, c, p) == SumFunctionOnSet(take, HitOf(take, c, p))

\* The events and the matches of order p among those of the order c that came.
EventsFor(take, left, c, p) == {f \in MatchEvents(take, left) : p = c \/ f.maker = p}
MatchesWith(take, c) == {[taker |-> c, maker |-> m, vol |-> take[m]]
                           : m \in {n \in OrderIds : take[n] > 0}}
MatchesFor(take, c, p) == {m \in MatchesWith(take, c) : p \in {m.taker, m.maker}}

\* The events of a match, one for each order it takes from.
LEMMA EventsNamed ==
    ASSUME NEW take \in [OrderIds -> Nat], NEW left
    PROVE  \E b : /\ MatchEvents(take, left) = {b[m] : m \in {n \in OrderIds : take[n] > 0}}
                  /\ \A m \in OrderIds : b[m].maker = m /\ b[m].vol = take[m]
<1> DEFINE hit == {n \in OrderIds : take[n] > 0}
           b == [m \in OrderIds |->
                   [maker |-> m, vol |-> take[m], maker_filled |-> take[m] = rest[m],
                    taker_filled |-> /\ left = 0
                                     /\ \A n \in hit : n = m \/ Ahead(req, engine_id, n, m)]]
<1>1. MatchEvents(take, left) = {b[m] : m \in hit}
  BY DEF MatchEvents
<1>2. \A m \in OrderIds : b[m].maker = m /\ b[m].vol = take[m]
  OBVIOUS
<1> QED
  BY <1>1, <1>2

\* The events that order p is told of: all of them if it is the one that came, else
\* those that take from it.  They have the volume that is taken.
LEMMA EventVolumes ==
    ASSUME NEW take \in [OrderIds -> Nat], NEW left, NEW c \in OrderIds, NEW p \in OrderIds
    PROVE  /\ HasVolumes(EventsFor(take, left, c, p))
           /\ Volumes(EventsFor(take, left, c, p)) = Taken(take, c, p)
           /\ HasVolumes(MatchEvents(take, left))
<1> DEFINE evs == EventsFor(take, left, c, p)
           hit == HitOf(take, c, p)
<1>1. PICK b : /\ MatchEvents(take, left) = {b[m] : m \in {n \in OrderIds : take[n] > 0}}
               /\ \A m \in OrderIds : b[m].maker = m /\ b[m].vol = take[m]
  BY EventsNamed
<1>2. evs = {b[m] : m \in hit}
  BY <1>1 DEF EventsFor, HitOf
<1>3. /\ hit \in SUBSET OrderIds /\ {n \in OrderIds : take[n] > 0} \in SUBSET OrderIds
      /\ IsFiniteSet(hit) /\ IsFiniteSet({n \in OrderIds : take[n] > 0})
  BY OrdersFinite DEF HitOf
<1>4. \A m, n \in OrderIds : b[m] = b[n] => m = n
  BY <1>1
<1>5. HasVolumes(evs) /\ Volumes(evs) = SumFunctionOnSet(take, hit)
  <2> HIDE DEF evs, hit
  <2>1. /\ \A m \in hit : take[m] \in Nat /\ b[m].vol = take[m]
        /\ \A m, n \in hit : b[m] = b[n] => m = n
    BY <1>1, <1>3, <1>4
  <2> QED
    BY <1>2, <1>3, <2>1, VolumesNamed
<1>6. HasVolumes(MatchEvents(take, left))
  <2> DEFINE all == {n \in OrderIds : take[n] > 0}
  <2>1. all \in SUBSET OrderIds /\ IsFiniteSet(all) /\ MatchEvents(take, left) = {b[m] : m \in all}
    BY <1>1, <1>3
  <2> HIDE DEF all
  <2>2. /\ \A m \in all : take[m] \in Nat /\ b[m].vol = take[m]
        /\ \A m, n \in all : b[m] = b[n] => m = n
    BY <1>1, <2>1, <1>4
  <2> QED
    BY <2>1, <2>2, VolumesNamed
<1> QED
  BY <1>5, <1>6 DEF Taken

\* So have the matches of order p.
LEMMA MatchVolumes ==
    ASSUME NEW take \in [OrderIds -> Nat], NEW c \in OrderIds, NEW p \in OrderIds
    PROVE  /\ HasVolumes(MatchesFor(take, c, p))
           /\ Volumes(MatchesFor(take, c, p)) = Taken(take, c, p)
<1> DEFINE of_p == MatchesFor(take, c, p)
           hit == HitOf(take, c, p)
           b == [m \in OrderIds |-> [taker |-> c, maker |-> m, vol |-> take[m]]]
<1>1. of_p = {b[m] : m \in hit}
  <2>1. ASSUME NEW x \in of_p PROVE x \in {b[m] : m \in hit}
    <3>1. PICK m \in OrderIds : take[m] > 0 /\ x = [taker |-> c, maker |-> m, vol |-> take[m]]
      BY DEF MatchesFor, MatchesWith
    <3>2. p = c \/ p = m
      BY <3>1 DEF MatchesFor
    <3> QED
      BY <3>1, <3>2 DEF HitOf
  <2>2. ASSUME NEW m \in hit PROVE b[m] \in of_p
    BY DEF MatchesFor, MatchesWith, HitOf
  <2> QED
    BY <2>1, <2>2
<1>2. hit \in SUBSET OrderIds /\ IsFiniteSet(hit)
  BY OrdersFinite DEF HitOf
<1>3. /\ \A m \in OrderIds : b[m].vol = take[m] /\ b[m].maker = m
      /\ \A m, n \in OrderIds : b[m] = b[n] => m = n
  OBVIOUS
<1> HIDE DEF of_p, hit, b
<1>4. HasVolumes(of_p) /\ Volumes(of_p) = SumFunctionOnSet(take, hit)
  <2>1. /\ \A m \in hit : take[m] \in Nat /\ b[m].vol = take[m]
        /\ \A m, n \in hit : b[m] = b[n] => m = n
    BY <1>2, <1>3
  <2> QED
    BY <1>1, <1>2, <2>1, VolumesNamed
<1> QED
  BY <1>4 DEF of_p, hit, Taken

\* Every step keeps EventsOpposed: process_order hits the other side only.
LEMMA StepEventsOpposed ==
    ASSUME IInv, IInv', EventsOpposed, NEW t \in Threads, Step(t)
    PROVE  EventsOpposed'
<1>0. ThreadTypes
  BY DEF IInv, TypeOK
<1> SUFFICES ASSUME NEW u \in Threads
             PROVE  /\ IsFiniteSet(todo'[u])
                    /\ \A f \in todo'[u] : req'[f.maker].side # req'[cur'[u]].side
  BY DEF EventsOpposed
<1>1. CASE u = t /\ RouteToMatchingEngine(t)
  <2>1. /\ cur[t] \in OrderIds
        /\ \E take \in [OrderIds -> Nat], left \in Nat :
             /\ todo'[t] = MatchEvents(take, left)
             /\ \A m \in OrderIds : take[m] > 0 => req[m].side # req[cur[t]].side
    BY <1>1, Routing
  <2>2. PICK take \in [OrderIds -> Nat], left \in Nat :
          /\ todo'[t] = MatchEvents(take, left)
          /\ \A m \in OrderIds : take[m] > 0 => req[m].side # req[cur[t]].side
    BY <2>1
  <2>3. IsFiniteSet(MatchEvents(take, left))
    BY <2>1, EventVolumes DEF HasVolumes
  <2>4. \A f \in MatchEvents(take, left) : f.maker \in OrderIds /\ take[f.maker] > 0
    BY DEF MatchEvents
  <2>5. req' = req /\ cur' = cur
    BY <1>1 DEF RouteToMatchingEngine, infoVars, Goto
  <2> QED
    BY <1>1, <2>2, <2>3, <2>4, <2>5
<1>2. CASE ~(u = t /\ RouteToMatchingEngine(t))
  <2>1. todo'[u] \subseteq todo[u]
    BY <1>2, StepTodo
  <2>2. IsFiniteSet(todo'[u])
    BY <2>1, FS_Subset DEF EventsOpposed
  <2>3. ASSUME NEW f \in todo'[u] PROVE req'[f.maker].side # req'[cur'[u]].side
    <3>1. f \in todo[u]
      BY <2>1
    <3>2. cur'[u] = cur[u]
      <4>1. pc'[u] # "idle"
        BY DEF IInv, EventsSound, Events
      <4> QED
        BY <1>0, <4>1, StepProceeds DEF Proceeds
    <3>3. /\ f.maker \in OrderIds /\ cur[u] \in OrderIds
          /\ engine_id[f.maker] # 0 /\ engine_id[cur[u]] # 0
      BY <3>1, EventOrders
    <3>4. req'[f.maker] = req[f.maker] /\ req'[cur[u]] = req[cur[u]]
      BY <3>3, StepSeenStays DEF SeenStays
    <3> QED
      BY <3>1, <3>2, <3>4 DEF EventsOpposed
  <2> QED
    BY <2>2, <2>3
<1> QED
  BY <1>1, <1>2

\* A client's call finds its thread without events.
LEMMA CallEventsOpposed ==
    ASSUME IInv, IInv', EventsOpposed, NEW t \in Threads, Call(t)
    PROVE  EventsOpposed'
<1>0. ThreadTypes
  BY DEF IInv, TypeOK
<1>1. /\ todo' = todo
      /\ pc[t] = "idle" /\ \A u \in Threads \ {t} : cur'[u] = cur[u]
  BY <1>0 DEF Call, SubmitOrder, ClientCancel, ThreadTypes
<1>2. todo[t] = {}
  BY <1>1, IdleNoEvents
<1> SUFFICES ASSUME NEW u \in Threads, NEW f \in todo[u]
             PROVE  req'[f.maker].side # req'[cur'[u]].side
  BY <1>1 DEF EventsOpposed
<1>3. cur'[u] = cur[u]
  BY <1>1, <1>2
<1>4. /\ f.maker \in OrderIds /\ cur[u] \in OrderIds
      /\ engine_id[f.maker] # 0 /\ engine_id[cur[u]] # 0
  BY EventOrders
<1>5. req'[f.maker] = req[f.maker] /\ req'[cur[u]] = req[cur[u]]
  BY <1>4, StepSeenStays DEF SeenStays
<1> QED
  BY <1>3, <1>5 DEF EventsOpposed

\* Every step and call keeps MatchedSound.
LEMMA StepMatchedSound ==
    ASSUME IInv, IInv', MatchedSound, NEW t \in Threads, Step(t) \/ Call(t)
    PROVE  MatchedSound'
<1>0. BookTypes
  BY DEF IInv, TypeOK
<1>s. \A p \in OrderIds : engine_id[p] # 0 => engine_id'[p] = engine_id[p]
  BY StepSeenStays DEF SeenStays
<1>o. \A m \in matched : /\ m.taker \in OrderIds /\ m.maker \in OrderIds
                         /\ engine_id'[m.taker] # 0 /\ engine_id'[m.maker] # 0
  BY <1>s DEF MatchedSound
<1>1. CASE RouteToMatchingEngine(t)
  <2>1. PICK c \in OrderIds : c = cur[t]
    BY <1>1, Routing
  <2>2. PICK take \in [OrderIds -> Nat], left \in Nat :
          /\ matched' = matched \cup
               {[taker |-> c, maker |-> m, vol |-> take[m]]
                  : m \in {n \in OrderIds : take[n] > 0}}
          /\ \A m \in OrderIds : take[m] > 0 => m # c /\ engine_id[m] # 0
    BY <1>1, <2>1, Routing
  <2> DEFINE hit == {n \in OrderIds : take[n] > 0}
             b == [m \in OrderIds |-> [taker |-> c, maker |-> m, vol |-> take[m]]]
             new == {b[m] : m \in hit}
  <2>3. matched' = matched \cup new
    BY <2>2
  <2>4. IsFiniteSet(new)
    <3>1. hit \in SUBSET OrderIds
      OBVIOUS
    <3> HIDE DEF hit, b
    <3> QED
      BY <3>1, OrdersFinite, FiniteImage
  <2>5. IsFiniteSet(matched')
    <3> HIDE DEF new
    <3> QED
      BY <2>3, <2>4, FS_Union DEF MatchedSound
  <2>6. engine_id'[c] # 0
    <3>1. engine_id' = [engine_id EXCEPT ![c] =
                          1 + Cardinality({m \in OrderIds : engine_id[m] > 0})]
      BY <1>1, <2>1 DEF RouteToMatchingEngine
    <3>2. 1 + Cardinality({m \in OrderIds : engine_id[m] > 0}) \in Nat \ {0}
      BY ArrivalNumber
    <3> QED
      BY <1>0, <3>1, <3>2 DEF BookTypes
  <2>7. \A m \in new : /\ m \in [taker : OrderIds, maker : OrderIds, vol : Nat \ {0}]
                       /\ engine_id'[m.taker] # 0 /\ engine_id'[m.maker] # 0
                       /\ m.taker # m.maker
    BY <1>s, <2>2, <2>6
  <2> HIDE DEF new
  <2> QED
    BY <1>o, <2>3, <2>5, <2>7 DEF MatchedSound
<1>2. CASE matched' = matched
  BY <1>o, <1>2 DEF MatchedSound
<1> QED
  BY <1>1, <1>2
  DEF Call, SubmitOrder, ClientCancel, Step, FokPrecheck, FreezeFunds, RegisterOrder,
      RouteError, RouteRefused, AcceptStatus, AcceptMap, TakerStatus, TakerTrade,
      MakerStatus, MakerTrade, TradeFails, IocCheck, CancelCheck, CancelBook,
      CancelStatus, CancelRelease, bookVars
------------------------------------------------------------------------------
\* Whatever is pending has volumes, before and after.
LEMMA TodoVolumes ==
    ASSUME IInv, EventsOpposed, IInv', EventsOpposed'
    PROVE  /\ \A u \in Threads : HasVolumes(todo[u]) /\ HasVolumes(todo'[u])
           /\ \A u \in Threads, p \in OrderIds :
                /\ Due(u, p) \subseteq todo[u] /\ Due(u, p)' \subseteq todo'[u]
                /\ Uncounted(u, p) \subseteq todo[u] /\ Uncounted(u, p)' \subseteq todo'[u]
                /\ HasVolumes(Due(u, p)) /\ HasVolumes(Due(u, p)')
                /\ HasVolumes(Uncounted(u, p)) /\ HasVolumes(Uncounted(u, p)')
<1>1. \A u \in Threads : HasVolumes(todo[u]) /\ HasVolumes(todo'[u])
  BY DEF IInv, TypeOK, EventTypes, Matches, EventsOpposed, HasVolumes
<1>2. \A u \in Threads, p \in OrderIds :
        /\ Due(u, p) \subseteq todo[u] /\ Due(u, p)' \subseteq todo'[u]
        /\ Uncounted(u, p) \subseteq todo[u] /\ Uncounted(u, p)' \subseteq todo'[u]
  BY DEF Due, Uncounted
<1> QED
  BY <1>1, <1>2, VolumesSubset

\* What a thread has pending does not depend on what the others do.
LEMMA OthersPending ==
    ASSUME IInv, SeenStays, NEW u \in Threads,
           todo'[u] = todo[u], pc'[u] = pc[u], cur'[u] = cur[u]
    PROVE  \A p \in OrderIds : Due(u, p)' = Due(u, p) /\ Uncounted(u, p)' = Uncounted(u, p)
BY NextStays DEF Due, Uncounted

\* A step that leaves the events to come alone or drops some.
LEMMA QuietPending ==
    ASSUME IInv, NEW t \in Threads, todo'[t] \subseteq todo[t], cur'[t] \in {cur[t], 0}
    PROVE  /\ pc[t] \notin {"maker", "maker_trade"} =>
                \A p \in OrderIds : Due(t, p)' \subseteq Due(t, p)
           /\ pc[t] \notin {"taker_trade", "maker", "maker_trade"} =>
                \A p \in OrderIds : Uncounted(t, p)' \subseteq Uncounted(t, p)
<1>1. \A p \in OrderIds : p # 0
  BY DEF OrderIds
<1> QED
  BY <1>1 DEF Due, Uncounted

\* The next event is done with: it is pending for neither order, and what is
\* pending after it was before.
LEMMA EventDone ==
    ASSUME IInv, EventsOpposed, NEW t \in Threads, NEW f \in todo[t], NextMatch(t, f),
           todo'[t] = todo[t] \ {f}, cur'[t] \in {cur[t], 0},
           pc[t] \in {"maker", "maker_trade"}, pc'[t] \notin {"maker", "maker_trade"}
    PROVE  \A p \in OrderIds :
             /\ Due(t, p)' \subseteq Due(t, p) \ {f} /\ f \in Due(t, f.maker)
             /\ pc'[t] # "taker_trade" => Uncounted(t, p)' \subseteq Uncounted(t, p)
<1>1. \A p \in OrderIds : p # 0
  BY DEF OrderIds
<1>2. \A g \in todo[t] \ {f} : ~NextMatch(t, g)
  BY OneNext
<1> QED
  BY <1>1, <1>2 DEF Due, Uncounted

\* How a step other than process_order changes positions, and what its thread has
\* yet to book: what enters a position was pending.
LEMMA StepBooks ==
    ASSUME IInv, IInv', EventsOpposed, EventsOpposed', NEW t \in Threads, Step(t),
           ~RouteToMatchingEngine(t), NEW p \in OrderIds
    PROVE  position'[p] - position[p] + Volumes(Due(t, p)') <= Volumes(Due(t, p))
<1>0. /\ RouterTypes /\ AccountTypes /\ ThreadTypes /\ AccountTypes'
      /\ position[p] \in Nat /\ position'[p] \in Nat
  BY DEF IInv, TypeOK, AccountTypes
<1>p. Proceeds(t) /\ cur'[t] \in {cur[t], 0}
  BY <1>0, StepProceeds DEF Proceeds
<1>s. SeenStays
  BY StepSeenStays
<1>t. todo'[t] \subseteq todo[t]
  BY StepTodo
<1>v. HasVolumes(Due(t, p)) /\ HasVolumes(Due(t, p)')
  BY TodoVolumes
<1>n. Volumes(Due(t, p)) \in Nat /\ Volumes(Due(t, p)') \in Nat
  BY <1>v, VolumesSubset
<1>d. \A f \in todo[t] : /\ f.maker # cur[t] /\ f.maker \in OrderIds /\ cur[t] \in OrderIds
                         /\ f.vol \in Nat \ {0}
  BY EventOrders DEF EventsOpposed
<1>k. ASSUME position'[p] = position[p], Due(t, p)' \subseteq Due(t, p)
      PROVE  position'[p] - position[p] + Volumes(Due(t, p)') <= Volumes(Due(t, p))
  BY <1>0, <1>k, <1>v, <1>n, VolumesSubset
<1>b. ASSUME NEW f \in todo[t], position'[p] = position[p] + f.vol,
             f \in Due(t, p), Due(t, p)' \subseteq Due(t, p) \ {f}
      PROVE  position'[p] - position[p] + Volumes(Due(t, p)') <= Volumes(Due(t, p))
  <2>1. Volumes(Due(t, p)) = f.vol + Volumes(Due(t, p) \ {f})
    BY <1>b, <1>v, VolumesRemove
  <2>2. /\ HasVolumes(Due(t, p) \ {f}) /\ Volumes(Due(t, p) \ {f}) \in Nat
        /\ Volumes(Due(t, p)') <= Volumes(Due(t, p) \ {f})
    BY <1>b, <1>v, VolumesSubset
  <2>3. f.vol \in Nat
    BY <1>d
  <2> QED
    BY <1>0, <1>n, <1>b, <2>1, <2>2, <2>3
<1>1. CASE TakerTrade(t)
  <2>1. PICK f \in todo[t] : NextMatch(t, f) /\ Deal(cur[t], f.vol)
    BY <1>1 DEF TakerTrade
  <2>2. /\ position' = [position EXCEPT ![cur[t]] = @ + f.vol]
        /\ todo' = todo /\ pc[t] = "taker_trade" /\ pc'[t] = "maker" /\ cur'[t] = cur[t]
    BY <1>0, <1>1, <2>1 DEF TakerTrade, Deal, Goto, ThreadTypes
  <2>3. \A g \in todo[t] : NextMatch(t, g)' <=> NextMatch(t, g)
    BY <1>s, <2>2, NextStays
  <2>4. CASE p = cur[t]
    <3>1. position'[p] = position[p] + f.vol
      BY <1>0, <2>2, <2>4 DEF AccountTypes
    <3>2. f \in Due(t, p) /\ Due(t, p)' \subseteq Due(t, p) \ {f}
      BY <1>d, <2>1, <2>2, <2>3, <2>4 DEF Due
    <3> QED
      BY <1>b, <3>1, <3>2
  <2>5. CASE p # cur[t]
    <3>1. position'[p] = position[p]
      BY <1>0, <2>2, <2>5 DEF AccountTypes
    <3>2. Due(t, p)' \subseteq Due(t, p)
      BY <2>2, <2>5 DEF Due
    <3> QED
      BY <1>k, <3>1, <3>2
  <2> QED
    BY <2>4, <2>5
<1>2. CASE MakerTrade(t)
  <2>1. PICK f \in todo[t] : /\ NextMatch(t, f) /\ Deal(f.maker, f.vol)
                             /\ todo' = [todo EXCEPT ![t] = @ \ {f}]
                             /\ AfterEvent(t, todo[t] \ {f})
    BY <1>2 DEF MakerTrade
  <2>2. /\ position' = [position EXCEPT ![f.maker] = @ + f.vol]
        /\ todo'[t] = todo[t] \ {f} /\ pc[t] = "maker_trade"
        /\ pc'[t] \in {"taker", "ioc", "idle"}
    BY <1>0, <1>2, <2>1, AfterEventProceeds DEF MakerTrade, Deal, IInv, TypeOK, EventTypes
  <2>3. Due(t, p)' \subseteq Due(t, p) \ {f} /\ f \in Due(t, f.maker)
    BY <1>p, <2>1, <2>2, EventDone
  <2>4. CASE p = f.maker
    <3>1. position'[p] = position[p] + f.vol
      BY <1>0, <2>2, <2>4 DEF AccountTypes
    <3> QED
      BY <1>b, <2>3, <2>4, <3>1
  <2>5. CASE p # f.maker
    <3>1. position'[p] = position[p]
      BY <1>0, <2>2, <2>5 DEF AccountTypes
    <3> QED
      BY <1>k, <2>3, <3>1
  <2> QED
    BY <2>4, <2>5
<1>3. CASE MakerStatus(t)
  <2>0. position' = position
    BY <1>3 DEF MakerStatus, acctVars
  <2>1. PICK f \in todo[t] :
          /\ NextMatch(t, f)
          /\ \/ Goto(t, "maker_trade") /\ UNCHANGED todo
             \/ /\ todo' = [todo EXCEPT ![t] = @ \ {f}]
                /\ AfterEvent(t, todo[t] \ {f})
    BY <1>3 DEF MakerStatus
  <2>2. pc[t] = "maker"
    BY <1>3 DEF MakerStatus
  <2>3. CASE Goto(t, "maker_trade") /\ UNCHANGED todo
    <3>1. pc'[t] = "maker_trade" /\ cur'[t] = cur[t] /\ todo'[t] = todo[t]
      BY <1>0, <2>3 DEF Goto, ThreadTypes
    <3>2. \A g \in todo[t] : NextMatch(t, g)' <=> NextMatch(t, g)
      BY <1>s, <3>1, NextStays
    <3>3. Due(t, p)' \subseteq Due(t, p)
      BY <2>2, <3>1, <3>2 DEF Due
    <3> QED
      BY <1>k, <2>0, <3>3
  <2>4. CASE /\ todo' = [todo EXCEPT ![t] = @ \ {f}]
             /\ AfterEvent(t, todo[t] \ {f})
    <3>1. todo'[t] = todo[t] \ {f} /\ pc'[t] \in {"taker", "ioc", "idle"}
      BY <1>0, <2>2, <2>4, AfterEventProceeds DEF IInv, TypeOK, EventTypes
    <3>2. Due(t, p)' \subseteq Due(t, p)
      BY <1>p, <2>1, <2>2, <3>1, EventDone
    <3> QED
      BY <1>k, <2>0, <3>2
  <2> QED
    BY <2>1, <2>3, <2>4
<1>4. CASE TradeFails(t)
  <2>1. position' = position /\ todo'[t] = {}
    BY <1>4 DEF TradeFails, acctVars, IInv, TypeOK, EventTypes
  <2>2. Due(t, p)' \subseteq Due(t, p)
    BY <2>1 DEF Due
  <2> QED
    BY <1>k, <2>1, <2>2
<1>5. CASE position' = position /\ pc[t] \notin {"maker", "maker_trade"}
  <2>1. Due(t, p)' \subseteq Due(t, p)
    BY <1>p, <1>t, <1>5, QuietPending
  <2> QED
    BY <1>k, <1>5, <2>1
<1> QED
  BY <1>1, <1>2, <1>3, <1>4, <1>5
  DEF Step, FokPrecheck, FreezeFunds, RegisterOrder, RouteError, RouteRefused,
      AcceptStatus, AcceptMap, TakerStatus, IocCheck, CancelCheck, CancelBook,
      CancelStatus, CancelRelease, acctVars

\* A status event adds no more to filled_volume than its volume.
LEMMA FillAdds ==
    ASSUME RouterTypes, NEW o \in OrderIds, NEW vol \in Nat, NEW filled,
           FillStatus(o, vol, filled)
    PROVE  /\ filled_volume'[o] <= filled_volume[o] + vol
           /\ \A p \in OrderIds \ {o} : filled_volume'[p] = filled_volume[p]
BY DEF RouterTypes, FillStatus

\* How a step other than process_order changes filled_volume, and what its thread
\* has yet to count.
LEMMA StepCounts ==
    ASSUME IInv, IInv', EventsOpposed, EventsOpposed', NEW t \in Threads, Step(t),
           ~RouteToMatchingEngine(t), NEW p \in OrderIds
    PROVE  filled_volume'[p] - filled_volume[p] + Volumes(Uncounted(t, p)')
               <= Volumes(Uncounted(t, p))
<1>0. /\ RouterTypes /\ ThreadTypes
      /\ filled_volume[p] \in Nat /\ filled_volume'[p] \in Nat
  BY DEF IInv, TypeOK, RouterTypes
<1>p. Proceeds(t) /\ cur'[t] \in {cur[t], 0}
  BY <1>0, StepProceeds DEF Proceeds
<1>s. SeenStays
  BY StepSeenStays
<1>t. todo'[t] \subseteq todo[t]
  BY StepTodo
<1>v. HasVolumes(Uncounted(t, p)) /\ HasVolumes(Uncounted(t, p)')
  BY TodoVolumes
<1>n. Volumes(Uncounted(t, p)) \in Nat /\ Volumes(Uncounted(t, p)') \in Nat
  BY <1>v, VolumesSubset
<1>d. \A f \in todo[t] : /\ f.maker # cur[t] /\ f.maker \in OrderIds /\ cur[t] \in OrderIds
                         /\ f.vol \in Nat
  BY EventOrders DEF EventsOpposed
<1>k. ASSUME filled_volume'[p] = filled_volume[p], Uncounted(t, p)' \subseteq Uncounted(t, p)
      PROVE  filled_volume'[p] - filled_volume[p] + Volumes(Uncounted(t, p)')
               <= Volumes(Uncounted(t, p))
  BY <1>0, <1>k, <1>v, <1>n, VolumesSubset
<1>b. ASSUME NEW f \in todo[t], filled_volume'[p] <= filled_volume[p] + f.vol,
             f \in Uncounted(t, p), Uncounted(t, p)' \subseteq Uncounted(t, p) \ {f}
      PROVE  filled_volume'[p] - filled_volume[p] + Volumes(Uncounted(t, p)')
               <= Volumes(Uncounted(t, p))
  <2>1. Volumes(Uncounted(t, p)) = f.vol + Volumes(Uncounted(t, p) \ {f})
    BY <1>b, <1>v, VolumesRemove
  <2>2. /\ HasVolumes(Uncounted(t, p) \ {f}) /\ Volumes(Uncounted(t, p) \ {f}) \in Nat
        /\ Volumes(Uncounted(t, p)') <= Volumes(Uncounted(t, p) \ {f})
    BY <1>b, <1>v, VolumesSubset
  <2>3. f.vol \in Nat
    BY <1>d
  <2> QED
    BY <1>0, <1>n, <1>b, <2>1, <2>2, <2>3
<1>1. CASE TakerStatus(t)
  <2>1. PICK f \in todo[t] : NextMatch(t, f) /\ FillStatus(cur[t], f.vol, f.taker_filled)
    BY <1>1 DEF TakerStatus
  <2>2. todo' = todo /\ pc[t] = "taker" /\ pc'[t] = "taker_trade" /\ cur'[t] = cur[t]
    BY <1>0, <1>1 DEF TakerStatus, Goto, ThreadTypes
  <2>3. \A g \in todo[t] : NextMatch(t, g)' <=> NextMatch(t, g)
    BY <1>s, <2>2, NextStays
  <2>4. CASE p = cur[t]
    <3>1. filled_volume'[p] <= filled_volume[p] + f.vol
      BY <1>0, <1>d, <2>1, <2>4, FillAdds
    <3>2. f \in Uncounted(t, p) /\ Uncounted(t, p)' \subseteq Uncounted(t, p) \ {f}
      BY <1>d, <2>1, <2>2, <2>3, <2>4 DEF Uncounted
    <3> QED
      BY <1>b, <3>1, <3>2
  <2>5. CASE p # cur[t]
    <3>1. filled_volume'[p] = filled_volume[p]
      BY <1>0, <1>d, <2>1, <2>5, FillAdds
    <3>2. Uncounted(t, p)' \subseteq Uncounted(t, p)
      BY <2>2, <2>5 DEF Uncounted
    <3> QED
      BY <1>k, <3>1, <3>2
  <2> QED
    BY <2>4, <2>5
<1>2. CASE MakerStatus(t)
  <2>1. PICK f \in todo[t] :
          /\ NextMatch(t, f)
          /\ \/ /\ FillStatus(f.maker, f.vol, f.maker_filled)
                /\ Goto(t, "maker_trade") /\ UNCHANGED todo
             \/ /\ todo' = [todo EXCEPT ![t] = @ \ {f}]
                /\ AfterEvent(t, todo[t] \ {f})
                /\ UNCHANGED filled_volume
    BY <1>2 DEF MakerStatus
  <2>2. pc[t] = "maker"
    BY <1>2 DEF MakerStatus
  <2>3. CASE /\ FillStatus(f.maker, f.vol, f.maker_filled)
             /\ Goto(t, "maker_trade") /\ UNCHANGED todo
    <3>1. pc'[t] = "maker_trade" /\ cur'[t] = cur[t] /\ todo'[t] = todo[t]
      BY <1>0, <2>3 DEF Goto, ThreadTypes
    <3>2. \A g \in todo[t] : NextMatch(t, g)' <=> NextMatch(t, g)
      BY <1>s, <3>1, NextStays
    <3>3. CASE p = f.maker
      <4>1. filled_volume'[p] <= filled_volume[p] + f.vol
        BY <1>0, <1>d, <2>3, <3>3, FillAdds
      <4>2. f \in Uncounted(t, p) /\ Uncounted(t, p)' \subseteq Uncounted(t, p) \ {f}
        BY <1>d, <2>1, <2>2, <3>1, <3>2, <3>3 DEF Uncounted
      <4> QED
        BY <1>b, <4>1, <4>2
    <3>4. CASE p # f.maker
      <4>1. filled_volume'[p] = filled_volume[p]
        BY <1>0, <1>d, <2>3, <3>4, FillAdds
      <4>2. Uncounted(t, p)' \subseteq Uncounted(t, p)
        BY <2>2, <3>1, <3>2 DEF Uncounted
      <4> QED
        BY <1>k, <4>1, <4>2
    <3> QED
      BY <3>3, <3>4
  <2>4. CASE /\ todo' = [todo EXCEPT ![t] = @ \ {f}]
             /\ AfterEvent(t, todo[t] \ {f})
             /\ UNCHANGED filled_volume
    <3>1. todo'[t] = todo[t] \ {f} /\ pc'[t] \in {"taker", "ioc", "idle"}
      BY <1>0, <2>2, <2>4, AfterEventProceeds DEF IInv, TypeOK, EventTypes
    <3>2. Uncounted(t, p)' \subseteq Uncounted(t, p)
      BY <1>p, <2>1, <2>2, <3>1, EventDone
    <3> QED
      BY <1>k, <2>4, <3>2
  <2> QED
    BY <2>1, <2>3, <2>4
<1>3. CASE MakerTrade(t)
  <2>1. PICK f \in todo[t] : /\ NextMatch(t, f)
                             /\ todo' = [todo EXCEPT ![t] = @ \ {f}]
                             /\ AfterEvent(t, todo[t] \ {f})
    BY <1>3 DEF MakerTrade
  <2>2. /\ todo'[t] = todo[t] \ {f} /\ pc[t] = "maker_trade"
        /\ pc'[t] \in {"taker", "ioc", "idle"} /\ filled_volume' = filled_volume
    BY <1>0, <1>3, <2>1, AfterEventProceeds
    DEF MakerTrade, IInv, TypeOK, EventTypes, infoVars
  <2>3. Uncounted(t, p)' \subseteq Uncounted(t, p)
    BY <1>p, <2>1, <2>2, EventDone
  <2> QED
    BY <1>k, <2>2, <2>3
<1>4. CASE TakerTrade(t)
  <2>1. /\ todo' = todo /\ pc[t] = "taker_trade" /\ pc'[t] = "maker" /\ cur'[t] = cur[t]
        /\ filled_volume' = filled_volume
    BY <1>0, <1>4 DEF TakerTrade, Goto, ThreadTypes, infoVars
  <2>2. \A g \in todo[t] : NextMatch(t, g)' <=> NextMatch(t, g)
    BY <1>s, <2>1, NextStays
  <2>3. Uncounted(t, p)' \subseteq Uncounted(t, p)
    BY <2>1, <2>2 DEF Uncounted
  <2> QED
    BY <1>k, <2>1, <2>3
<1>5. CASE TradeFails(t)
  <2>1. filled_volume' = filled_volume /\ todo'[t] = {}
    BY <1>5 DEF TradeFails, infoVars, IInv, TypeOK, EventTypes
  <2>2. Uncounted(t, p)' \subseteq Uncounted(t, p)
    BY <2>1 DEF Uncounted
  <2> QED
    BY <1>k, <2>1, <2>2
<1>6. CASE /\ filled_volume' = filled_volume
           /\ pc[t] \notin {"taker_trade", "maker", "maker_trade"}
  <2>1. Uncounted(t, p)' \subseteq Uncounted(t, p)
    BY <1>p, <1>t, <1>6, QuietPending
  <2> QED
    BY <1>k, <1>6, <2>1
<1> QED
  BY <1>1, <1>2, <1>3, <1>4, <1>5, <1>6
  DEF Step, FokPrecheck, FreezeFunds, RegisterOrder, RouteError, RouteRefused,
      AcceptStatus, AcceptMap, IocCheck, CancelCheck, CancelBook,
      CancelStatus, CancelRelease, infoVars

\* What the book executed changes in process_order only.
LEMMA SameExecuted ==
    ASSUME IInv, NEW t \in Threads, Step(t) \/ Call(t), ~RouteToMatchingEngine(t)
    PROVE  /\ matched' = matched /\ \A o : Executed(o)' = Executed(o)
<1>1. matched' = matched
  BY DEF Call, SubmitOrder, ClientCancel, Step, FokPrecheck, FreezeFunds, RegisterOrder,
         RouteError, RouteRefused, AcceptStatus, AcceptMap, TakerStatus, TakerTrade,
         MakerStatus, MakerTrade, TradeFails, IocCheck, CancelCheck, CancelBook,
         CancelStatus, CancelRelease, bookVars
<1> QED
  BY <1>1 DEF Executed

\* What the book executed is a natural number.
LEMMA ExecutedNat ==
    ASSUME MatchedSound
    PROVE  \A o : HasVolumes(MatchesOf(o)) /\ Executed(o) \in Nat
<1>1. HasVolumes(matched)
  BY DEF MatchedSound, HasVolumes
<1>2. \A o : MatchesOf(o) \subseteq matched
  BY DEF MatchesOf
<1>3. ASSUME NEW o PROVE HasVolumes(MatchesOf(o)) /\ Volumes(MatchesOf(o)) \in Nat
  BY <1>1, <1>2, VolumesSubset
<1> QED
  BY <1>3, ExecutedIs

\* What is taken for the order that came is all there is; for another, its own.
LEMMA TakenIs ==
    ASSUME NEW take \in [OrderIds -> Nat], NEW c \in OrderIds, NEW p \in OrderIds
    PROVE  /\ Taken(take, c, p) \in Nat
           /\ p = c => Taken(take, c, p) = SumFunction(take)
           /\ p # c => Taken(take, c, p) = take[p]
<1>1. /\ HitOf(take, c, p) \in SUBSET OrderIds /\ IsFiniteSet(HitOf(take, c, p))
      /\ IsFiniteSet(OrderIds) /\ Numbers(take, OrderIds)
  BY OrdersFinite DEF HitOf, Numbers
<1>2. Taken(take, c, p) \in Nat
  BY <1>1, SumNat DEF Taken
<1>3. CASE p = c
  <2>1. \A n \in OrderIds \ HitOf(take, c, p) : take[n] = 0
    BY <1>3 DEF HitOf
  <2>2. SumFunctionOnSet(take, OrderIds) = SumFunctionOnSet(take, HitOf(take, c, p))
    BY <1>1, <2>1, SumOfPart
  <2>3. SumFunction(take) = SumFunctionOnSet(take, OrderIds)
    BY DEF SumFunction, SumFunctionOnSet, FoldFunctionOnSet
  <2> QED
    BY <1>2, <1>3, <2>2, <2>3 DEF Taken
<1>4. CASE p # c
  <2>1. CASE take[p] = 0
    <3>1. HitOf(take, c, p) = {}
      BY <1>4, <2>1 DEF HitOf
    <3> QED
      BY <1>2, <1>4, <2>1, <3>1, SumEmpty DEF Taken
  <2>2. CASE take[p] # 0
    <3>1. HitOf(take, c, p) = {p}
      BY <1>4, <2>2 DEF HitOf
    <3>2. IsFiniteSet({}) /\ Numbers(take, {}) /\ take[p] \in Nat /\ {} \cup {p} = {p}
      BY FS_EmptySet DEF Numbers
    <3>3. SumFunctionOnSet(take, {} \cup {p}) = take[p] + SumFunctionOnSet(take, {})
      BY <3>2, SumAdd
    <3>4. SumFunctionOnSet(take, {p}) = take[p]
      BY <3>2, <3>3, SumEmpty
    <3> QED
      BY <1>2, <1>4, <3>1, <3>4 DEF Taken
  <2> QED
    BY <2>1, <2>2
<1> QED
  BY <1>3, <1>4

\* process_order adds to what was executed of an order what it takes for it.
LEMMA RouteExecutes ==
    ASSUME IInv, MatchedSound, NEW c \in OrderIds, engine_id[c] = 0,
           NEW take \in [OrderIds -> Nat], matched' = matched \cup MatchesWith(take, c)
    PROVE  /\ \A p \in OrderIds : Executed(p)' = Executed(p) + Taken(take, c, p)
           /\ Executed(c) = 0
<1>1. ASSUME NEW p \in OrderIds PROVE Executed(p)' = Executed(p) + Taken(take, c, p)
  <2>1. PICK of_p : of_p = MatchesFor(take, c, p)
    OBVIOUS
  <2>2. \A m \in MatchesWith(take, c) : m.taker = c
    BY DEF MatchesWith
  <2>3. \A m \in matched : m.taker # c
    BY DEF MatchedSound
  <2>4. HasVolumes(of_p) /\ Volumes(of_p) = Taken(take, c, p)
    BY <2>1, MatchVolumes
  <2>5. MatchesOf(p)' = MatchesOf(p) \cup of_p /\ MatchesOf(p) \cap of_p = {}
    BY <2>1, <2>2, <2>3 DEF MatchesOf, MatchesFor
  <2>6. HasVolumes(MatchesOf(p))
    BY ExecutedNat
  <2>7. Volumes(MatchesOf(p) \cup of_p) = Volumes(MatchesOf(p)) + Volumes(of_p)
    BY <2>4, <2>5, <2>6, VolumesUnion
  <2>8. /\ Executed(p) = Volumes(MatchesOf(p))
        /\ Executed(p)' = Volumes(MatchesOf(p)')
    BY ExecutedIs
  <2> QED
    BY <2>4, <2>5, <2>7, <2>8
<1>2. Executed(c) = 0
  <2>1. MatchesOf(c) = {}
    BY DEF MatchesOf, MatchedSound
  <2>2. Volumes({}) = 0
    BY VolumesEmpty
  <2> QED
    BY <2>1, <2>2, ExecutedIs
<1> QED
  BY <1>1, <1>2
------------------------------------------------------------------------------
VolumesKept == FillsAppliedOnce /\ CountedOnce /\ NotOverfilled

\* process_order: what it executes is pending for both sides of every match.
LEMMA RouteKeepsVolumes ==
    ASSUME IInv, IInv', EventsOpposed, EventsOpposed', MatchedSound, VolumesKept,
           NEW t \in Threads, Step(t), RouteToMatchingEngine(t)
    PROVE  VolumesKept'
<1>0. /\ RouterTypes /\ AccountTypes /\ ThreadTypes /\ BookTypes
  BY DEF IInv, TypeOK
<1>1. PICK c \in OrderIds : c = cur[t] /\ engine_id[c] = 0 /\ req[c].vol \in Nat
  BY Routing
<1>2. PICK take \in [OrderIds -> Nat], left \in Nat :
        /\ left + SumFunction(take) = req[c].vol
        /\ rest' = [m \in OrderIds |-> IF m = c THEN left ELSE rest[m] - take[m]]
        /\ todo'[t] = MatchEvents(take, left)
        /\ matched' = matched \cup MatchesWith(take, c)
        /\ \A m \in OrderIds : take[m] > 0 => m # c
  BY <1>1, Routing DEF MatchesWith
<1>3. /\ \A p \in OrderIds : Executed(p)' = Executed(p) + Taken(take, c, p)
      /\ Executed(c) = 0
  BY <1>1, <1>2, RouteExecutes
<1>4. /\ pc[t] = "route" /\ pc'[t] = "accept" /\ cur' = cur
      /\ UNCHANGED <<req, position, filled_volume>>
      /\ \A u \in Threads \ {t} : pc'[u] = pc[u] /\ todo'[u] = todo[u]
  BY <1>0, StepTodo DEF RouteToMatchingEngine, Goto, ThreadTypes, infoVars, acctVars
<1>5. todo[t] = {}
  BY <1>4, IdleNoEvents DEF PreRoute
<1>6. SeenStays
  BY StepSeenStays
<1>7. \A u \in Threads \ {t}, p \in OrderIds :
        Due(u, p)' = Due(u, p) /\ Uncounted(u, p)' = Uncounted(u, p)
  BY <1>4, <1>6, OthersPending
<1>8. ASSUME NEW p \in OrderIds
      PROVE  /\ Volumes(Due(t, p)') <= Taken(take, c, p)
             /\ Volumes(Uncounted(t, p)') <= Taken(take, c, p)
             /\ Volumes(Due(t, p)) = 0 /\ Volumes(Uncounted(t, p)) = 0
             /\ Volumes(Due(t, p)') \in Nat /\ Volumes(Uncounted(t, p)') \in Nat
             /\ Taken(take, c, p) \in Nat
  <2>1. PICK evs : /\ evs = EventsFor(take, left, c, p)
                   /\ HasVolumes(evs) /\ Volumes(evs) = Taken(take, c, p)
    BY EventVolumes
  <2>2. Due(t, p)' \subseteq evs /\ Uncounted(t, p)' \subseteq evs
    BY <1>1, <1>2, <1>4, <2>1 DEF Due, Uncounted, EventsFor
  <2>3. Due(t, p) = {} /\ Uncounted(t, p) = {}
    BY <1>5 DEF Due, Uncounted
  <2>4. Volumes({}) = 0
    BY VolumesEmpty
  <2>5. /\ Volumes(Due(t, p)') <= Volumes(evs) /\ Volumes(Due(t, p)') \in Nat
        /\ Volumes(Uncounted(t, p)') <= Volumes(evs) /\ Volumes(Uncounted(t, p)') \in Nat
    BY <2>1, <2>2, VolumesSubset
  <2> QED
    BY <2>1, <2>3, <2>4, <2>5, TakenIs
<1>9. ASSUME NEW p \in OrderIds
      PROVE  /\ Total(DueOf(p)') <= Total(DueOf(p)) + Taken(take, c, p)
             /\ Total(UncountedOf(p)') <= Total(UncountedOf(p)) + Taken(take, c, p)
             /\ Total(DueOf(p)) \in Nat /\ Total(UncountedOf(p)) \in Nat
             /\ Total(DueOf(p)') \in Nat /\ Total(UncountedOf(p)') \in Nat
  <2>1. /\ \A u \in Threads : /\ DueOf(p)[u] = Due(u, p) /\ DueOf(p)'[u] = Due(u, p)'
                              /\ UncountedOf(p)[u] = Uncounted(u, p)
                              /\ UncountedOf(p)'[u] = Uncounted(u, p)'
    BY DEF DueOf, UncountedOf
  <2>2. PICK v \in Int : v = 0 - Taken(take, c, p)
    BY <1>8
  <2>3. /\ Volumes(Due(t, p)') + v <= Volumes(Due(t, p))
        /\ Volumes(Uncounted(t, p)') + v <= Volumes(Uncounted(t, p))
    BY <1>8, <2>2
  <2>4. PICK D, E : D = DueOf(p) /\ E = DueOf(p)'
    OBVIOUS
  <2>5. /\ \A u \in Threads : HasVolumes(D[u]) /\ HasVolumes(E[u])
        /\ Volumes(E[t]) + v <= Volumes(D[t])
        /\ \A u \in Threads \ {t} : E[u] \subseteq D[u]
    BY <1>7, <2>1, <2>3, <2>4, TodoVolumes
  <2>6. Total(E) + v <= Total(D) /\ Total(E) \in Nat /\ Total(D) \in Nat
    BY <2>5, TotalMoves
  <2>7. PICK F, G : F = UncountedOf(p) /\ G = UncountedOf(p)'
    OBVIOUS
  <2>8. /\ \A u \in Threads : HasVolumes(F[u]) /\ HasVolumes(G[u])
        /\ Volumes(G[t]) + v <= Volumes(F[t])
        /\ \A u \in Threads \ {t} : G[u] \subseteq F[u]
    BY <1>7, <2>1, <2>3, <2>7, TodoVolumes
  <2>9. Total(G) + v <= Total(F) /\ Total(G) \in Nat /\ Total(F) \in Nat
    BY <2>8, TotalMoves
  <2> QED
    BY <1>8, <2>2, <2>4, <2>6, <2>7, <2>9
<1>10. \A p \in OrderIds : Executed(p) \in Nat
  BY ExecutedNat
<1>11. FillsAppliedOnce'
  <2> SUFFICES ASSUME NEW p \in OrderIds
               PROVE  position'[p] + Total(DueOf(p)') <= Executed(p)'
    BY AppliedOnceIs
  <2>1. position[p] + Total(DueOf(p)) <= Executed(p)
    BY AppliedOnceIs DEF VolumesKept
  <2>2. position[p] \in Nat /\ position'[p] = position[p]
    BY <1>0, <1>4 DEF AccountTypes
  <2> QED
    BY <1>3, <1>8, <1>9, <1>10, <2>1, <2>2
<1>12. CountedOnce'
  <2> SUFFICES ASSUME NEW p \in OrderIds
               PROVE  filled_volume'[p] + Total(UncountedOf(p)') <= Executed(p)'
    BY DEF CountedOnce
  <2>1. filled_volume[p] + Total(UncountedOf(p)) <= Executed(p)
    BY DEF VolumesKept, CountedOnce
  <2>2. filled_volume[p] \in Nat /\ filled_volume'[p] = filled_volume[p]
    BY <1>0, <1>4 DEF RouterTypes
  <2> QED
    BY <1>3, <1>8, <1>9, <1>10, <2>1, <2>2
<1>13. NotOverfilled'
  <2> SUFFICES ASSUME NEW p \in OrderIds, engine_id'[p] # 0
               PROVE  Executed(p)' + rest'[p] <= req'[p].vol
    BY DEF NotOverfilled
  <2>1. CASE p = c
    <3>1. Taken(take, c, p) = SumFunction(take) /\ Taken(take, c, p) \in Nat
      BY <2>1, TakenIs
    <3>2. rest'[p] = left /\ req'[p] = req[p]
      BY <1>2, <1>4, <2>1
    <3> QED
      BY <1>1, <1>2, <1>3, <2>1, <3>1, <3>2
  <2>2. CASE p # c
    <3>1. Taken(take, c, p) = take[p] /\ take[p] \in Nat
      BY <2>2, TakenIs
    <3>2. rest'[p] = rest[p] - take[p] /\ req'[p] = req[p] /\ rest[p] \in Nat
      BY <1>0, <1>2, <1>4, <2>2 DEF BookTypes
    <3>3. engine_id[p] # 0
      BY <1>0, <1>1, <2>2 DEF RouteToMatchingEngine, BookTypes
    <3>4. Executed(p) + rest[p] <= req[p].vol /\ req[p].vol \in Nat
      <4>1. p < order_seq
        BY <1>0, <3>3, SeenIsIssued DEF IInv
      <4> QED
        BY <1>0, <3>3, <4>1, Requested DEF VolumesKept, NotOverfilled, IInv
    <3> QED
      BY <1>3, <1>10, <3>1, <3>2, <3>4
  <2> QED
    BY <2>1, <2>2
<1> QED
  BY <1>11, <1>12, <1>13 DEF VolumesKept

\* A step other than process_order: what it books or counts is no longer pending.
LEMMA PendingMoves ==
    ASSUME IInv, IInv', EventsOpposed, EventsOpposed', NEW t \in Threads, Step(t),
           ~RouteToMatchingEngine(t), NEW p \in OrderIds
    PROVE  /\ position'[p] + Total(DueOf(p)') <= position[p] + Total(DueOf(p))
           /\ filled_volume'[p] + Total(UncountedOf(p)')
                <= filled_volume[p] + Total(UncountedOf(p))
           /\ Total(DueOf(p)) \in Nat /\ Total(DueOf(p)') \in Nat
           /\ Total(UncountedOf(p)) \in Nat /\ Total(UncountedOf(p)') \in Nat
<1>0. /\ ThreadTypes
      /\ position[p] \in Nat /\ position'[p] \in Nat
      /\ filled_volume[p] \in Nat /\ filled_volume'[p] \in Nat
  BY DEF IInv, TypeOK, AccountTypes, RouterTypes
<1>1. \A u \in Threads \ {t} :
        Due(u, p)' = Due(u, p) /\ Uncounted(u, p)' = Uncounted(u, p)
  <2> SUFFICES ASSUME NEW u \in Threads \ {t}
               PROVE  Due(u, p)' = Due(u, p) /\ Uncounted(u, p)' = Uncounted(u, p)
    OBVIOUS
  <2>1. todo'[u] = todo[u] /\ pc'[u] = pc[u] /\ cur'[u] = cur[u]
    BY <1>0, StepTodo, StepProceeds DEF Proceeds
  <2>2. SeenStays
    BY StepSeenStays
  <2> QED
    BY <2>1, <2>2, OthersPending
<1>2. /\ \A u \in Threads : /\ DueOf(p)[u] = Due(u, p)
                            /\ DueOf(p)'[u] = Due(u, p)'
                            /\ UncountedOf(p)[u] = Uncounted(u, p)
                            /\ UncountedOf(p)'[u] = Uncounted(u, p)'
  BY DEF DueOf, UncountedOf
<1>3. PICK v \in Int, w \in Int : /\ v = position'[p] - position[p]
                                  /\ w = filled_volume'[p] - filled_volume[p]
  BY <1>0
<1>4. /\ Volumes(Due(t, p)) \in Nat /\ Volumes(Due(t, p)') \in Nat
      /\ Volumes(Uncounted(t, p)) \in Nat /\ Volumes(Uncounted(t, p)') \in Nat
  BY TodoVolumes, VolumesSubset
<1>5. /\ Volumes(Due(t, p)') + v <= Volumes(Due(t, p))
      /\ Volumes(Uncounted(t, p)') + w <= Volumes(Uncounted(t, p))
  <2>1. /\ v + Volumes(Due(t, p)') <= Volumes(Due(t, p))
        /\ w + Volumes(Uncounted(t, p)') <= Volumes(Uncounted(t, p))
    BY <1>3, StepBooks, StepCounts
  <2> QED
    BY <1>4, <2>1
<1>6. PICK D, E : D = DueOf(p) /\ E = DueOf(p)'
  OBVIOUS
<1>7. /\ \A u \in Threads : HasVolumes(D[u]) /\ HasVolumes(E[u])
      /\ Volumes(E[t]) + v <= Volumes(D[t])
      /\ \A u \in Threads \ {t} : E[u] \subseteq D[u]
  BY <1>1, <1>2, <1>5, <1>6, TodoVolumes
<1>8. Total(E) + v <= Total(D) /\ Total(E) \in Nat /\ Total(D) \in Nat
  BY <1>7, TotalMoves
<1>9. PICK F, G : F = UncountedOf(p) /\ G = UncountedOf(p)'
  OBVIOUS
<1>10. /\ \A u \in Threads : HasVolumes(F[u]) /\ HasVolumes(G[u])
       /\ Volumes(G[t]) + w <= Volumes(F[t])
       /\ \A u \in Threads \ {t} : G[u] \subseteq F[u]
  BY <1>1, <1>2, <1>5, <1>9, TodoVolumes
<1>11. Total(G) + w <= Total(F) /\ Total(G) \in Nat /\ Total(F) \in Nat
  BY <1>10, TotalMoves
<1> QED
  BY <1>0, <1>3, <1>6, <1>8, <1>9, <1>11

\* A client's call leaves what is pending alone.
LEMMA CallPending ==
    ASSUME IInv, IInv', NEW t \in Threads, Call(t), NEW p \in OrderIds
    PROVE  /\ \A u \in Threads : Due(u, p)' = Due(u, p) /\ Uncounted(u, p)' = Uncounted(u, p)
           /\ Total(DueOf(p)') = Total(DueOf(p))
           /\ Total(UncountedOf(p)') = Total(UncountedOf(p))
<1>0. ThreadTypes
  BY DEF IInv, TypeOK
<1>1. /\ todo' = todo /\ pc[t] = "idle"
      /\ \A u \in Threads \ {t} : cur'[u] = cur[u] /\ pc'[u] = pc[u]
  BY <1>0 DEF Call, SubmitOrder, ClientCancel, ThreadTypes
<1>2. todo[t] = {}
  BY <1>1, IdleNoEvents
<1>3. ASSUME NEW u \in Threads
      PROVE  Due(u, p)' = Due(u, p) /\ Uncounted(u, p)' = Uncounted(u, p)
  <2>1. CASE u = t
    BY <1>1, <1>2, <2>1 DEF Due, Uncounted
  <2>2. CASE u # t
    <3>1. SeenStays
      BY StepSeenStays
    <3> QED
      BY <1>1, <2>2, <3>1, OthersPending
  <2> QED
    BY <2>1, <2>2
<1>4. DueOf(p)' = DueOf(p) /\ UncountedOf(p)' = UncountedOf(p)
  BY <1>3 DEF DueOf, UncountedOf
<1>5. PICK D, E : D = DueOf(p) /\ E = UncountedOf(p)
  OBVIOUS
<1> QED
  BY <1>3, <1>4

\* Every other step and call, too, keeps the three relations between what the book
\* executed and what is booked, counted and resting.
LEMMA OthersKeepVolumes ==
    ASSUME IInv, IInv', EventsOpposed, EventsOpposed', MatchedSound, VolumesKept,
           NEW t \in Threads, Step(t) \/ Call(t), ~RouteToMatchingEngine(t)
    PROVE  VolumesKept'
<1>0. /\ RouterTypes /\ AccountTypes /\ ThreadTypes /\ BookTypes
      /\ RouterTypes' /\ AccountTypes' /\ BookTypes'
  BY DEF IInv, TypeOK
<1>1. \A p \in OrderIds : Executed(p)' = Executed(p) /\ Executed(p) \in Nat
  BY SameExecuted, ExecutedNat
<1>2. ASSUME NEW p \in OrderIds
      PROVE  /\ position'[p] + Total(DueOf(p)') <= position[p] + Total(DueOf(p))
             /\ filled_volume'[p] + Total(UncountedOf(p)')
                  <= filled_volume[p] + Total(UncountedOf(p))
             /\ Total(DueOf(p)) \in Nat /\ Total(DueOf(p)') \in Nat
             /\ Total(UncountedOf(p)) \in Nat /\ Total(UncountedOf(p)') \in Nat
  <2>1. CASE Step(t)
    BY <2>1, PendingMoves
  <2>2. CASE Call(t)
    <3>1. position' = position /\ filled_volume' = filled_volume
      BY <2>2 DEF Call, SubmitOrder, ClientCancel, acctVars, infoVars
    <3>2. /\ Total(DueOf(p)') = Total(DueOf(p))
          /\ Total(UncountedOf(p)') = Total(UncountedOf(p))
      BY <2>2, CallPending
    <3>3. PICK D : D = DueOf(p)
      OBVIOUS
    <3>4. PICK F : F = UncountedOf(p)
      OBVIOUS
    <3>5. \A u \in Threads : HasVolumes(D[u]) /\ HasVolumes(F[u])
      BY <3>3, <3>4, TodoVolumes DEF DueOf, UncountedOf
    <3>6. Total(D) \in Nat /\ Total(F) \in Nat
      BY <3>5, TotalOn
    <3>7. position[p] \in Nat /\ filled_volume[p] \in Nat
      BY <1>0 DEF AccountTypes, RouterTypes
    <3> QED
      BY <3>1, <3>2, <3>3, <3>4, <3>6, <3>7
  <2> QED
    BY <2>1, <2>2
<1>3. \A p \in OrderIds : /\ position[p] \in Nat /\ position'[p] \in Nat
                          /\ filled_volume[p] \in Nat /\ filled_volume'[p] \in Nat
                          /\ rest[p] \in Nat /\ rest'[p] \in Nat
  BY <1>0 DEF RouterTypes, AccountTypes, BookTypes
<1>4. FillsAppliedOnce'
  <2> SUFFICES ASSUME NEW p \in OrderIds
               PROVE  position'[p] + Total(DueOf(p)') <= Executed(p)'
    BY AppliedOnceIs
  <2>1. position[p] + Total(DueOf(p)) <= Executed(p)
    BY AppliedOnceIs DEF VolumesKept
  <2> QED
    BY <1>1, <1>2, <1>3, <2>1
<1>5. CountedOnce'
  <2> SUFFICES ASSUME NEW p \in OrderIds
               PROVE  filled_volume'[p] + Total(UncountedOf(p)') <= Executed(p)'
    BY DEF CountedOnce
  <2>1. filled_volume[p] + Total(UncountedOf(p)) <= Executed(p)
    BY DEF VolumesKept, CountedOnce
  <2> QED
    BY <1>1, <1>2, <1>3, <2>1
<1>6. NotOverfilled'
  <2>1. engine_id' = engine_id
    BY DEF Call, SubmitOrder, ClientCancel, Step, FokPrecheck, FreezeFunds, RegisterOrder,
           RouteError, RouteRefused, AcceptStatus, AcceptMap, TakerStatus, TakerTrade,
           MakerStatus, MakerTrade, TradeFails, IocCheck, CancelCheck, CancelBook,
           CancelStatus, CancelRelease, bookVars
  <2>2. \A p \in OrderIds : rest'[p] <= rest[p]
    <3>1. CASE CancelBook(t)
      <4>1. rest' = rest \/ rest' = [rest EXCEPT ![cur[t]] = 0]
        BY <3>1 DEF CancelBook
      <4>2. \A p \in OrderIds : rest'[p] \in {rest[p], 0}
        BY <1>0, <4>1 DEF BookTypes
      <4> QED
        BY <1>3, <4>2
    <3>2. CASE rest' = rest
      BY <1>3, <3>2
    <3> QED
      BY <3>1, <3>2
      DEF Call, SubmitOrder, ClientCancel, Step, FokPrecheck, FreezeFunds, RegisterOrder,
          RouteError, RouteRefused, AcceptStatus, AcceptMap, TakerStatus, TakerTrade,
          MakerStatus, MakerTrade, TradeFails, IocCheck, CancelCheck, CancelStatus,
          CancelRelease, bookVars
  <2> SUFFICES ASSUME NEW p \in OrderIds, engine_id[p] # 0
               PROVE  Executed(p)' + rest'[p] <= req'[p].vol
    BY <2>1 DEF NotOverfilled
  <2>3. Executed(p) + rest[p] <= req[p].vol
    BY DEF VolumesKept, NotOverfilled
  <2>4. req'[p] = req[p]
    BY StepSeenStays DEF SeenStays
  <2>5. req[p].vol \in Nat
    BY <1>0, SeenIsIssued, Requested DEF IInv
  <2> QED
    BY <1>1, <1>3, <2>2, <2>3, <2>4, <2>5
<1> QED
  BY <1>4, <1>5, <1>6 DEF VolumesKept
------------------------------------------------------------------------------
\* At the start nothing has been executed, booked or counted.
LEMMA InitVolumes == ASSUME Init PROVE EventsOpposed /\ MatchedSound /\ VolumesKept
<1>1. EventsOpposed /\ MatchedSound
  BY FS_EmptySet DEF Init, EventsOpposed, MatchedSound
<1>2. HasVolumes({}) /\ Volumes({}) = 0
  BY VolumesEmpty
<1>3. \A p \in OrderIds : Executed(p) = 0
  <2>1. \A p \in OrderIds : MatchesOf(p) = {}
    BY DEF Init, MatchesOf
  <2> QED
    BY <1>2, <2>1, ExecutedIs
<1>4. ASSUME NEW D, \A u \in Threads : D[u] = {} PROVE Total(D) = 0
  <2>1. \A u \in Threads : HasVolumes(D[u]) /\ Volumes(D[u]) = 0
    BY <1>2, <1>4
  <2>2. Total(D) = SumFunctionOnSet([u \in Threads |-> Volumes(D[u])], Threads)
    BY <2>1, TotalOn
  <2> DEFINE d == [u \in Threads |-> Volumes(D[u])]
  <2>3. {} \in SUBSET Threads /\ Numbers(d, Threads) /\ \A u \in Threads \ {} : d[u] = 0
    BY <2>1 DEF Numbers
  <2> HIDE DEF d
  <2>4. SumFunctionOnSet(d, Threads) = SumFunctionOnSet(d, {})
    BY <2>3, ThreadsFinite, SumOfPart
  <2> QED
    BY <2>2, <2>4, SumEmpty DEF d
<1>5. \A p \in OrderIds, u \in Threads : DueOf(p)[u] = {} /\ UncountedOf(p)[u] = {}
  BY DEF Init, DueOf, UncountedOf, Due, Uncounted
<1>6. \A p \in OrderIds : Total(DueOf(p)) = 0 /\ Total(UncountedOf(p)) = 0
  BY <1>4, <1>5
<1>7. FillsAppliedOnce
  BY <1>3, <1>6, AppliedOnceIs DEF Init
<1>8. CountedOnce
  BY <1>3, <1>6 DEF Init, CountedOnce
<1>9. NotOverfilled
  BY DEF Init, NotOverfilled
<1> QED
  BY <1>1, <1>7, <1>8, <1>9 DEF VolumesKept

\* The three relations are about the variables only.
LEMMA StutterVolumes ==
    ASSUME EventsOpposed, MatchedSound, VolumesKept, UNCHANGED vars
    PROVE  EventsOpposed' /\ MatchedSound' /\ VolumesKept'
<1>1. EventsOpposed' /\ MatchedSound'
  BY DEF vars, infoVars, acctVars, bookVars, threadVars, EventsOpposed, MatchedSound
<1>2. \A p \in OrderIds : Executed(p)' = Executed(p)
  BY DEF Executed, vars, bookVars
<1>3. \A p \in OrderIds : DueOf(p)' = DueOf(p) /\ UncountedOf(p)' = UncountedOf(p)
  BY DEF DueOf, UncountedOf, Due, Uncounted, NextMatch, Ahead, vars, infoVars, bookVars,
         threadVars
<1>4. FillsAppliedOnce'
  BY <1>2, <1>3, AppliedOnceIs DEF VolumesKept, vars, acctVars
<1>5. CountedOnce'
  BY <1>2, <1>3 DEF VolumesKept, CountedOnce, vars, infoVars
<1>6. NotOverfilled'
  BY <1>2 DEF VolumesKept, NotOverfilled, vars, infoVars, bookVars
<1> QED
  BY <1>1, <1>4, <1>5, <1>6 DEF VolumesKept

\* Lots are neither booked into an account nor counted into filled_volume twice, and
\* an order is not filled beyond what it asked for.
THEOREM VolumesInvariance == Spec => [](IInv /\ EventsOpposed /\ MatchedSound /\ VolumesKept)
<1>1. IInv /\ IInv' /\ EventsOpposed /\ MatchedSound /\ VolumesKept /\ [Next]_vars
        => EventsOpposed' /\ MatchedSound' /\ VolumesKept'
  <2> SUFFICES ASSUME IInv, IInv', EventsOpposed, MatchedSound, VolumesKept, [Next]_vars
               PROVE  EventsOpposed' /\ MatchedSound' /\ VolumesKept'
    OBVIOUS
  <2>1. CASE UNCHANGED vars
    BY <2>1, StutterVolumes
  <2>2. ASSUME NEW t \in Threads, Step(t) \/ Call(t)
        PROVE  EventsOpposed' /\ MatchedSound' /\ VolumesKept'
    <3>1. EventsOpposed'
      BY <2>2, StepEventsOpposed, CallEventsOpposed
    <3>2. MatchedSound'
      BY <2>2, StepMatchedSound
    <3>3. VolumesKept'
      BY <2>2, <3>1, RouteKeepsVolumes, OthersKeepVolumes DEF Step
    <3> QED
      BY <3>1, <3>2, <3>3
  <2> QED
    BY <2>1, <2>2 DEF Next
<1> QED
  BY InitVolumes, Invariance, <1>1, PTL DEF Spec

\* handle_trade_new books every event of a match once, whichever thread handles it:
\* a position never holds more than the book executed, for any number of threads,
\* orders and faults.
THEOREM FillsAreAppliedOnce == Spec => []FillsAppliedOnce
<1>1. VolumesKept => FillsAppliedOnce
  BY DEF VolumesKept
<1> QED
  BY VolumesInvariance, <1>1, PTL
------------------------------------------------------------------------------
(* Immediate orders: who cancels what the book left of them.                *)

\* Where submit_order is after the book has the order and before it is done with it.
Submitting == {"accept", "map", "ioc", "cancel_check"} \cup Events

\* Without a fault, what the book has seen is not reported rejected.
RejectedByFault ==
    /\ \A t \in Threads : pc[t] = "reject" => faults > 0
    /\ faults = 0 => /\ \A o \in OrderIds : engine_id[o] # 0 => status[o] # "Rejected"
                     /\ \A t \in Threads : pc[t] = "route" => status[cur[t]] # "Rejected"

\* The book has seen the order whose events are handled, and the Accepted event,
\* which makes it cancellable, was the first of them.
AcceptedFirst ==
    \A t \in Threads :
        /\ pc[t] \in Submitting => engine_id[cur[t]] # 0
        /\ pc[t] \in Submitting \ {"accept"} =>
             cur[t] \in engine_known /\ status[cur[t]] \notin {"None", "PendingRoute"}

\* A resting immediate order is in the hands of a thread that will cancel it.
ImmediateHeld ==
    faults = 0 =>
        \A o \in OrderIds :
            rest[o] > 0 /\ req[o].tif # "GFD" =>
                \E t \in Threads : cur[t] = o /\ pc[t] \in Submitting \cup {"cancel_book"}

\* The ways a status changes.
LEMMA StatusMoves ==
    ASSUME IInv, NEW t \in Threads, Step(t) \/ Call(t), NEW o \in OrderIds
    PROVE  \/ status'[o] = status[o]
           \/ status'[o] \in Live \cup {"Filled", "Cancelled"}
           \/ status'[o] = "PendingRoute" /\ o = cur[t] /\ pc[t] = "register"
           \/ /\ status'[o] = "Rejected" /\ o = cur[t] /\ pc[t] \in {"reject", "route"}
              /\ engine_id' = engine_id
<1>0. RouterTypes
  BY DEF IInv, TypeOK
<1>1. CASE RegisterOrder(t)
  BY <1>0, <1>1 DEF RegisterOrder, RouterTypes
<1>2. CASE RouteError(t) \/ RouteRefused(t)
  BY <1>0, <1>2 DEF RouteError, RouteRefused, RouterTypes, bookVars
<1>3. CASE AcceptStatus(t) \/ CancelStatus(t)
  BY <1>0, <1>3 DEF AcceptStatus, CancelStatus, RouterTypes, Live
<1>4. CASE TakerStatus(t) \/ MakerStatus(t)
  BY <1>0, <1>4 DEF TakerStatus, MakerStatus, FillStatus, RouterTypes, Live
<1>5. CASE status' = status
  BY <1>5
<1> QED
  BY <1>1, <1>2, <1>3, <1>4, <1>5
  DEF Call, SubmitOrder, ClientCancel, Step, FokPrecheck, FreezeFunds,
      RouteToMatchingEngine, AcceptMap, TakerTrade, MakerTrade, TradeFails, IocCheck,
      CancelCheck, CancelBook, CancelRelease, infoVars

\* Where a thread is that takes a step, and that a call is of an idle thread.
LEMMA WhereSteps ==
    ASSUME NEW t \in Threads
    PROVE  /\ FokPrecheck(t) => pc[t] = "fok"
           /\ FreezeFunds(t) => pc[t] = "freeze"
           /\ RegisterOrder(t) => pc[t] = "register"
           /\ RouteError(t) => pc[t] = "reject" \/ pc[t] = "route"
           /\ RouteRefused(t) => pc[t] = "route"
           /\ RouteToMatchingEngine(t) => pc[t] = "route"
           /\ AcceptStatus(t) => pc[t] = "accept"
           /\ AcceptMap(t) => pc[t] = "map"
           /\ TakerStatus(t) => pc[t] = "taker"
           /\ TakerTrade(t) => pc[t] = "taker_trade"
           /\ MakerStatus(t) => pc[t] = "maker"
           /\ MakerTrade(t) => pc[t] = "maker_trade"
           /\ TradeFails(t) => pc[t] = "taker_trade" \/ pc[t] = "maker_trade"
           /\ IocCheck(t) => pc[t] = "ioc"
           /\ CancelCheck(t) => pc[t] = "cancel_check"
           /\ CancelBook(t) => pc[t] = "cancel_book"
           /\ CancelStatus(t) => pc[t] = "cancel_status"
           /\ CancelRelease(t) => pc[t] = "cancel_release"
           /\ Call(t) => pc[t] = "idle"
<1>1. FokPrecheck(t) => pc[t] = "fok"
  BY DEF FokPrecheck
<1>2. FreezeFunds(t) => pc[t] = "freeze"
  BY DEF FreezeFunds
<1>3. RegisterOrder(t) => pc[t] = "register"
  BY DEF RegisterOrder
<1>4. RouteError(t) => pc[t] = "reject" \/ pc[t] = "route"
  BY DEF RouteError
<1>5. RouteRefused(t) => pc[t] = "route"
  BY DEF RouteRefused
<1>6. RouteToMatchingEngine(t) => pc[t] = "route"
  BY DEF RouteToMatchingEngine
<1>7. AcceptStatus(t) => pc[t] = "accept"
  BY DEF AcceptStatus
<1>8. AcceptMap(t) => pc[t] = "map"
  BY DEF AcceptMap
<1>9. TakerStatus(t) => pc[t] = "taker"
  BY DEF TakerStatus
<1>10. TakerTrade(t) => pc[t] = "taker_trade"
  BY DEF TakerTrade
<1>11. MakerStatus(t) => pc[t] = "maker"
  BY DEF MakerStatus
<1>12. MakerTrade(t) => pc[t] = "maker_trade"
  BY DEF MakerTrade
<1>13. TradeFails(t) => pc[t] = "taker_trade" \/ pc[t] = "maker_trade"
  BY DEF TradeFails
<1>14. IocCheck(t) => pc[t] = "ioc"
  BY DEF IocCheck
<1>15. CancelCheck(t) => pc[t] = "cancel_check"
  BY DEF CancelCheck
<1>16. CancelBook(t) => pc[t] = "cancel_book"
  BY DEF CancelBook
<1>17. CancelStatus(t) => pc[t] = "cancel_status"
  BY DEF CancelStatus
<1>18. CancelRelease(t) => pc[t] = "cancel_release"
  BY DEF CancelRelease
<1>19. Call(t) => pc[t] = "idle"
  BY DEF Call, SubmitOrder, ClientCancel
<1> QED
  BY ONLY <1>1, <1>2, <1>3, <1>4, <1>5, <1>6, <1>7, <1>8, <1>9, <1>10,
          <1>11, <1>12, <1>13, <1>14, <1>15, <1>16, <1>17, <1>18, <1>19

\* Where a thread that moves in a step or a call may have been, when it is then in
\* the middle of a call.
LEMMA OthersStay ==
    ASSUME IInv, NEW t \in Threads, Step(t) \/ Call(t)
    PROVE  /\ \A u \in Threads \ {t} : pc'[u] = pc[u] /\ cur'[u] = cur[u]
           /\ pc'[t] \notin {"idle", "fok", "freeze", "cancel_book"} =>
                Step(t) /\ pc[t] \in Before(pc'[t]) /\ cur'[t] = cur[t]
           /\ Call(t) => pc'[t] \in {"idle", "fok", "freeze", "cancel_book"}
<1>0. ThreadTypes
  BY DEF IInv, TypeOK
<1>1. CASE Step(t)
  <2>1. Proceeds(t)
    BY ONLY <1>0, <1>1, StepProceeds
  <2>2. ~Call(t)
    BY ONLY <1>1, WhereSteps DEF Step
  <2> QED
    BY ONLY <1>1, <2>1, <2>2 DEF Proceeds
<1>2. CASE Call(t)
  BY <1>0, <1>2 DEF Call, SubmitOrder, ClientCancel, ThreadTypes
<1> QED
  BY <1>1, <1>2

\* The book's arrival numbers, the faults and the accepted orders only grow.
LEMMA OnlyGrow ==
    ASSUME IInv, NEW t \in Threads, Step(t) \/ Call(t)
    PROVE  /\ \A o \in OrderIds : engine_id[o] # 0 => engine_id'[o] # 0
           /\ faults \in Nat /\ faults' >= faults
           /\ engine_known \subseteq engine_known'
<1>0. RouterTypes /\ BookTypes
  BY DEF IInv, TypeOK
<1>1. \A o \in OrderIds : engine_id[o] # 0 => engine_id'[o] # 0
  BY StepSeenStays DEF SeenStays
<1>2. faults \in Nat /\ (faults' = faults \/ faults' = faults + 1)
  <2>1. faults \in Nat
    BY <1>0, Bounds DEF BookTypes
  <2>2. CASE Call(t)
    BY <2>1, <2>2 DEF Call, SubmitOrder, ClientCancel
  <2>3. CASE AcceptMap(t) \/ TradeFails(t)
    BY <2>1, <2>3 DEF AcceptMap, TradeFails
  <2>4. CASE Step(t) /\ ~AcceptMap(t) /\ ~TradeFails(t)
    BY <2>1, <2>4
    DEF Step, FokPrecheck, FreezeFunds, RegisterOrder, RouteError, RouteRefused,
        RouteToMatchingEngine, AcceptStatus, TakerStatus, TakerTrade, MakerStatus,
        MakerTrade, IocCheck, CancelCheck, CancelBook, CancelStatus, CancelRelease
  <2> QED
    BY ONLY <2>2, <2>3, <2>4, Step(t) \/ Call(t)
<1>3. engine_known \subseteq engine_known'
  BY DEF Call, SubmitOrder, ClientCancel, Step, FokPrecheck, FreezeFunds,
      RegisterOrder, RouteError, RouteRefused, RouteToMatchingEngine, AcceptStatus,
      AcceptMap, TakerStatus, TakerTrade, MakerStatus, MakerTrade, TradeFails, IocCheck,
      CancelCheck, CancelBook, CancelStatus, CancelRelease, infoVars
<1> QED
  BY <1>1, <1>2, <1>3

\* Only process_order brings an order into the book.
LEMMA NewArrival ==
    ASSUME IInv, NEW t \in Threads, Step(t) \/ Call(t), NEW o \in OrderIds,
           engine_id[o] = 0, engine_id'[o] # 0
    PROVE  RouteToMatchingEngine(t) /\ o = cur[t]
<1>0. BookTypes
  BY DEF IInv, TypeOK
<1>1. CASE RouteToMatchingEngine(t)
  BY <1>0, <1>1 DEF RouteToMatchingEngine, BookTypes
<1>2. CASE engine_id' = engine_id
  BY <1>2
<1> QED
  BY <1>1, <1>2
  DEF Call, SubmitOrder, ClientCancel, Step, FokPrecheck, FreezeFunds, RegisterOrder,
      RouteError, RouteRefused, AcceptStatus, AcceptMap, TakerStatus, TakerTrade,
      MakerStatus, MakerTrade, TradeFails, IocCheck, CancelCheck, CancelBook,
      CancelStatus, CancelRelease, bookVars

\* A thread comes to the error arm because of a fault.
LEMMA FaultRejects ==
    ASSUME IInv, NEW t \in Threads, Step(t), pc'[t] = "reject"
    PROVE  faults' = faults + 1
<1>0. ThreadTypes
  BY DEF IInv, TypeOK
<1>1. CASE AcceptMap(t)
  <2>1. CASE AfterEvent(t, todo[t])
    <3>1. pc'[t] \in {"taker", "ioc", "idle"}
      BY <1>0, <1>1, <2>1, AfterEventProceeds DEF AcceptMap
    <3> QED
      BY <3>1
  <2> QED
    BY <1>1, <2>1 DEF AcceptMap
<1>2. CASE TradeFails(t)
  BY <1>2 DEF TradeFails
<1>3. CASE MakerStatus(t)
  <2>1. CASE Goto(t, "maker_trade")
    BY <1>0, <2>1 DEF Goto, ThreadTypes
  <2>2. ASSUME NEW f, AfterEvent(t, todo[t] \ {f}) PROVE FALSE
    <3>1. pc'[t] \in {"taker", "ioc", "idle"}
      BY <1>0, <1>3, <2>2, AfterEventProceeds DEF MakerStatus
    <3> QED
      BY <3>1
  <2> QED
    BY <1>3, <2>1, <2>2 DEF MakerStatus
<1>4. CASE MakerTrade(t)
  <2>1. PICK f \in todo[t] : AfterEvent(t, todo[t] \ {f})
    BY <1>4 DEF MakerTrade
  <2>2. pc'[t] \in {"taker", "ioc", "idle"}
    BY <1>0, <1>4, <2>1, AfterEventProceeds DEF MakerTrade
  <2> QED
    BY <2>2
<1>5. CASE \E s \in Steps \ {"reject"} : pc' = [pc EXCEPT ![t] = s]
  BY <1>0, <1>5 DEF ThreadTypes
<1> QED
  BY <1>1, <1>2, <1>3, <1>4, <1>5
  DEF Step, FokPrecheck, FreezeFunds, RegisterOrder,
      RouteError, RouteRefused, RouteToMatchingEngine, AcceptStatus, TakerStatus,
      TakerTrade, IocCheck, CancelCheck, CancelBook, CancelStatus, CancelRelease,
      Goto, Return, Steps, PreRoute, Events, Cancelling

\* Every step and call keeps RejectedByFault.
LEMMA KeepRejectedByFault ==
    ASSUME IInv, IInv', RejectedByFault, NEW t \in Threads, Step(t) \/ Call(t)
    PROVE  RejectedByFault'
<1>0. faults \in Nat /\ faults' >= faults /\ faults' \in Nat
  BY OnlyGrow, Bounds DEF IInv, TypeOK, BookTypes
<1>1. \A u \in Threads : pc'[u] = "reject" => faults' > 0
  <2> SUFFICES ASSUME NEW u \in Threads, pc'[u] = "reject" PROVE faults' > 0
    OBVIOUS
  <2>1. CASE u = t
    BY <1>0, <2>1, OthersStay, FaultRejects
  <2>2. CASE u # t
    BY <1>0, <2>2, OthersStay DEF RejectedByFault
  <2> QED
    BY <2>1, <2>2
<1>2. ASSUME faults' = 0, NEW o \in OrderIds, engine_id'[o] # 0
      PROVE  status'[o] # "Rejected"
  <2>0. faults = 0
    BY <1>0, <1>2
  <2>1. status[o] # "Rejected"
    <3>1. CASE engine_id[o] # 0
      BY <2>0, <3>1 DEF RejectedByFault
    <3>2. CASE engine_id[o] = 0
      <4>1. pc[t] = "route" /\ o = cur[t]
        BY <1>2, <3>2, NewArrival DEF RouteToMatchingEngine
      <4> QED
        BY <2>0, <4>1 DEF RejectedByFault
    <3> QED
      BY <3>1, <3>2
  <2>2. ASSUME o = cur[t], pc[t] \in {"reject", "route"}, engine_id' = engine_id
        PROVE  FALSE
    <3>1. pc[t] = "route"
      BY <1>0, <2>0, <2>2 DEF RejectedByFault
    <3> QED
      BY <1>2, <2>2, <3>1 DEF IInv, RoutedOnce, PreRoute
  <2> QED
    BY <2>1, <2>2, StatusMoves DEF Live
<1>3. ASSUME faults' = 0, NEW u \in Threads, pc'[u] = "route"
      PROVE  status'[cur'[u]] # "Rejected"
  <2>0. faults = 0
    BY <1>0, <1>3
  <2>1. CASE u = t
    <3>1. Step(t) /\ pc[t] = "register" /\ cur'[t] = cur[t]
      BY <1>3, <2>1, OthersStay DEF Before
    <3>2. RegisterOrder(t)
      BY <3>1
      DEF Step, FokPrecheck, FreezeFunds, RouteError, RouteRefused,
          RouteToMatchingEngine, AcceptStatus, AcceptMap, TakerStatus, TakerTrade,
          MakerStatus, MakerTrade, TradeFails, IocCheck, CancelCheck, CancelBook,
          CancelStatus, CancelRelease
    <3>3. cur[t] \in OrderIds
      BY <3>1, ServedOrder
    <3> QED
      BY <2>1, <3>1, <3>2, <3>3 DEF RegisterOrder, IInv, TypeOK, RouterTypes
  <2>2. CASE u # t
    <3>1. pc[u] = "route" /\ cur'[u] = cur[u]
      BY <1>3, <2>2, OthersStay
    <3>2. status[cur[u]] # "Rejected" /\ cur[u] \in OrderIds
      BY <2>0, <3>1, ServedOrder DEF RejectedByFault
    <3>3. ASSUME cur[u] = cur[t], pc[t] \in {"reject", "route"} PROVE FALSE
      <4>1. pc[t] = "route"
        BY <1>0, <2>0, <3>3 DEF RejectedByFault
      <4> QED
        BY <2>2, <3>1, <3>3, <4>1 DEF IInv, RoutedOnce, PreRoute
    <3> QED
      BY <3>1, <3>2, <3>3, StatusMoves DEF Live
  <2> QED
    BY <2>1, <2>2
<1> QED
  BY <1>1, <1>2, <1>3 DEF RejectedByFault

\* Every step and call keeps AcceptedFirst.
LEMMA KeepAcceptedFirst ==
    ASSUME IInv, IInv', AcceptedFirst, NEW t \in Threads, Step(t) \/ Call(t)
    PROVE  AcceptedFirst'
<1>0. RouterTypes /\ ThreadTypes
  BY DEF IInv, TypeOK
<1>1. ASSUME NEW u \in Threads, pc[u] \in Submitting, cur'[u] = cur[u]
      PROVE  /\ engine_id'[cur'[u]] # 0
             /\ pc[u] # "accept" =>
                  cur'[u] \in engine_known' /\ status'[cur'[u]] \notin {"None", "PendingRoute"}
  <2>1. cur[u] \in OrderIds /\ engine_id[cur[u]] # 0
    BY <1>1, ServedOrder DEF AcceptedFirst, Submitting, Events
  <2>2. ASSUME cur[u] = cur[t], pc[t] = "register" PROVE FALSE
    BY <2>1, <2>2 DEF IInv, RoutedOnce, PreRoute
  <2>3. engine_id'[cur[u]] # 0 /\ engine_known \subseteq engine_known'
    BY <2>1, OnlyGrow
  <2>4. ASSUME pc[u] # "accept"
        PROVE  cur[u] \in engine_known' /\ status'[cur[u]] \notin {"None", "PendingRoute"}
    <3>1. cur[u] \in engine_known /\ status[cur[u]] \notin {"None", "PendingRoute"}
      BY <1>1, <2>4 DEF AcceptedFirst
    <3> QED
      BY <2>1, <2>2, <2>3, <3>1, StatusMoves DEF Live
  <2> QED
    BY <1>1, <2>3, <2>4
<1> SUFFICES ASSUME NEW u \in Threads, pc'[u] \in Submitting
             PROVE  /\ engine_id'[cur'[u]] # 0
                    /\ pc'[u] # "accept" =>
                         /\ cur'[u] \in engine_known'
                         /\ status'[cur'[u]] \notin {"None", "PendingRoute"}
  BY DEF AcceptedFirst
<1>2. CASE u # t
  BY <1>1, <1>2, OthersStay
<1>3. CASE u = t
  <2>1. Step(t) /\ pc[t] \in Before(pc'[t]) /\ cur'[t] = cur[t]
    BY <1>3, OthersStay DEF Submitting, Events
  <2>2. cur[t] \in OrderIds
    BY <2>1, ServedOrder DEF Before
  <2>3. CASE pc'[t] = "accept"
    <3>1. pc[t] = "route"
      BY <2>1, <2>3 DEF Before
    <3>2. RouteToMatchingEngine(t)
      BY <1>0, <2>1, <2>3, <3>1
      DEF Step, FokPrecheck, FreezeFunds, RegisterOrder, RouteError, RouteRefused,
          AcceptStatus, AcceptMap, TakerStatus, TakerTrade,
          MakerStatus, MakerTrade, TradeFails, IocCheck, CancelCheck, CancelBook,
          CancelStatus, CancelRelease, Return, ThreadTypes
    <3>3. engine_id' = [engine_id EXCEPT ![cur[t]] =
                          1 + Cardinality({m \in OrderIds : engine_id[m] > 0})]
      BY <3>2 DEF RouteToMatchingEngine
    <3>4. 1 + Cardinality({m \in OrderIds : engine_id[m] > 0}) \in Nat \ {0}
      BY ArrivalNumber DEF IInv, TypeOK
    <3>5. engine_id'[cur[t]] # 0
      BY <2>2, <3>3, <3>4 DEF IInv, TypeOK, BookTypes
    <3> QED
      BY <1>3, <2>1, <2>3, <3>5
  <2>4. CASE pc'[t] = "map"
    <3>1. pc[t] = "accept"
      BY <2>1, <2>4 DEF Before
    <3>2. AcceptStatus(t)
      BY <2>1, <3>1
      DEF Step, FokPrecheck, FreezeFunds, RegisterOrder, RouteError, RouteRefused,
          RouteToMatchingEngine, AcceptMap, TakerStatus, TakerTrade,
          MakerStatus, MakerTrade, TradeFails, IocCheck, CancelCheck, CancelBook,
          CancelStatus, CancelRelease
    <3>3. engine_id'[cur'[t]] # 0
      BY <1>1, <2>1, <3>1 DEF Submitting
    <3>4. cur[t] \in engine_known' /\ status'[cur[t]] = "Submitted"
      BY <1>0, <2>2, <3>2 DEF AcceptStatus, RouterTypes
    <3> QED
      BY <1>3, <2>1, <3>3, <3>4
  <2>5. CASE pc'[t] \notin {"accept", "map"}
    <3>1. pc[t] \in Submitting \ {"accept"}
      BY <1>3, <2>1, <2>5 DEF Before, Submitting, Events
    <3> QED
      BY <1>1, <1>3, <2>1, <3>1
  <2> QED
    BY <2>3, <2>4, <2>5
<1> QED
  BY <1>2, <1>3

\* No step of the thread that holds a resting immediate order lets go of it: the
\* IOC check finds it unfilled and not final, the cancel finds it live.
LEMMA HolderStays ==
    ASSUME IInv, IInv', MatchedSound, VolumesKept, EventsOpposed,
           RejectedByFault, AcceptedFirst,
           NEW t \in Threads, Step(t), faults = 0, faults' = 0,
           cur[t] \in OrderIds, rest[cur[t]] > 0, rest'[cur[t]] > 0, req[cur[t]].tif # "GFD",
           pc[t] \in Submitting \cup {"cancel_book"}
    PROVE  cur'[t] = cur[t] /\ pc'[t] \in Submitting \cup {"cancel_book"}
<1> DEFINE o == cur[t]
<1>0. RouterTypes /\ ThreadTypes /\ BookTypes
  BY DEF IInv, TypeOK
<1>1. engine_id[o] # 0 /\ status[o] \notin Final
  <2>1. engine_id[o] # 0
    BY DEF IInv, UnseenUntraded
  <2>2. status[o] \notin {"Filled", "Cancelled"}
    BY DEF IInv, FinalNotResting
  <2> QED
    BY <2>1, <2>2 DEF RejectedByFault, Final
<1>2. req[o].vol > filled_volume[o]
  <2>1. filled_volume[o] + Total(UncountedOf(o)) <= Executed(o)
    BY DEF VolumesKept, CountedOnce
  <2>2. Executed(o) + rest[o] <= req[o].vol
    BY <1>1 DEF VolumesKept, NotOverfilled
  <2>3. PICK D : D = UncountedOf(o)
    OBVIOUS
  <2>4. \A u \in Threads : HasVolumes(D[u])
    <3>1. \A u \in Threads : HasVolumes(todo[u])
      BY DEF IInv, TypeOK, EventTypes, Matches, EventsOpposed, HasVolumes
    <3>2. \A u \in Threads : D[u] \subseteq todo[u]
      BY <2>3 DEF UncountedOf, Uncounted
    <3> QED
      BY <3>1, <3>2, VolumesSubset
  <2>5. Total(D) \in Nat
    BY <2>4, TotalOn
  <2>6. Executed(o) \in Nat
    BY ExecutedNat
  <2>7. filled_volume[o] \in Nat /\ rest[o] \in Nat /\ req[o].vol \in Nat
    BY <1>0, <1>1, SeenIsIssued, Requested DEF IInv, RouterTypes, BookTypes
  <2> QED
    BY <2>1, <2>2, <2>3, <2>5, <2>6, <2>7
<1>3. CASE pc[t] = "cancel_check"
  <2>1. Cancellable(o)
    <3>1. o \in engine_known /\ status[o] \notin {"None", "PendingRoute"}
      BY <1>3 DEF AcceptedFirst, Submitting
    <3> QED
      BY <1>0, <1>1, <3>1 DEF Cancellable, RouterTypes, Statuses
  <2>2. CancelCheck(t)
    BY <1>3
    DEF Step, FokPrecheck, FreezeFunds, RegisterOrder, RouteError, RouteRefused,
        RouteToMatchingEngine, AcceptStatus, AcceptMap, TakerStatus, TakerTrade,
        MakerStatus, MakerTrade, TradeFails, IocCheck, CancelBook,
        CancelStatus, CancelRelease
  <2> QED
    BY <1>0, <2>1, <2>2 DEF CancelCheck, Goto, ThreadTypes
<1>4. CASE pc[t] = "ioc"
  <2>1. IocCheck(t)
    BY <1>4
    DEF Step, FokPrecheck, FreezeFunds, RegisterOrder, RouteError, RouteRefused,
        RouteToMatchingEngine, AcceptStatus, AcceptMap, TakerStatus, TakerTrade,
        MakerStatus, MakerTrade, TradeFails, CancelCheck, CancelBook,
        CancelStatus, CancelRelease
  <2>2. Goto(t, "cancel_check")
    BY <1>1, <1>2, <2>1 DEF IocCheck
  <2> QED
    BY <1>0, <2>2 DEF Goto, ThreadTypes, Submitting
<1>5. CASE pc[t] = "cancel_book"
  <2>1. CancelBook(t)
    BY <1>5
    DEF Step, FokPrecheck, FreezeFunds, RegisterOrder, RouteError, RouteRefused,
        RouteToMatchingEngine, AcceptStatus, AcceptMap, TakerStatus, TakerTrade,
        MakerStatus, MakerTrade, TradeFails, IocCheck, CancelCheck,
        CancelStatus, CancelRelease
  <2> QED
    BY <1>0, <2>1 DEF CancelBook, BookTypes
<1>6. CASE pc[t] \in {"map", "maker", "maker_trade"}
  <2>1. \/ \E left : AfterEvent(t, left)
        \/ Goto(t, "maker_trade")
        \/ faults' = faults + 1
    BY <1>6
    DEF Step, FokPrecheck, FreezeFunds, RegisterOrder, RouteError, RouteRefused,
        RouteToMatchingEngine, AcceptStatus, AcceptMap, TakerStatus, TakerTrade,
        MakerStatus, MakerTrade, TradeFails, IocCheck, CancelCheck, CancelBook,
        CancelStatus, CancelRelease
  <2>2. ASSUME NEW left, AfterEvent(t, left)
        PROVE  cur'[t] = cur[t] /\ pc'[t] \in {"taker", "ioc"}
    BY <1>0, <1>6, <2>2, AfterEventProceeds
  <2>3. CASE Goto(t, "maker_trade")
    BY <1>0, <2>3 DEF Goto, ThreadTypes, Submitting, Events
  <2> QED
    BY <2>1, <2>2, <2>3 DEF Submitting, Events
<1>7. CASE pc[t] \in {"accept", "taker", "taker_trade"}
  <2>1. \/ Goto(t, "map") \/ Goto(t, "taker_trade") \/ Goto(t, "maker")
        \/ faults' = faults + 1
    BY <1>7
    DEF Step, FokPrecheck, FreezeFunds, RegisterOrder, RouteError, RouteRefused,
        RouteToMatchingEngine, AcceptStatus, AcceptMap, TakerStatus, TakerTrade,
        MakerStatus, MakerTrade, TradeFails, IocCheck, CancelCheck, CancelBook,
        CancelStatus, CancelRelease
  <2> QED
    BY <1>0, <2>1 DEF Goto, ThreadTypes, Submitting, Events
<1> QED
  BY <1>3, <1>4, <1>5, <1>6, <1>7 DEF Submitting, Events

\* A resting order rested before, or has just come.
LEMMA RestsSince ==
    ASSUME IInv, NEW t \in Threads, Step(t) \/ Call(t), NEW o \in OrderIds, rest'[o] > 0
    PROVE  rest[o] > 0 \/ (RouteToMatchingEngine(t) /\ o = cur[t])
<1>0. BookTypes
  BY DEF IInv, TypeOK
<1>1. CASE RouteToMatchingEngine(t)
  <2>1. PICK take \in [OrderIds -> Nat], left \in Nat :
          rest' = [m \in OrderIds |-> IF m = cur[t] THEN left ELSE rest[m] - take[m]]
    BY <1>1, Routing
  <2>2. o # cur[t] => rest'[o] = rest[o] - take[o] /\ take[o] \in Nat /\ rest[o] \in Nat
    BY <1>0, <2>1 DEF BookTypes
  <2> QED
    BY <1>1, <2>2
<1>2. CASE CancelBook(t)
  BY <1>0, <1>2 DEF CancelBook, BookTypes
<1>3. CASE rest' = rest
  BY <1>3
<1> QED
  BY <1>1, <1>2, <1>3
  DEF Call, SubmitOrder, ClientCancel, Step, FokPrecheck, FreezeFunds, RegisterOrder,
      RouteError, RouteRefused, AcceptStatus, AcceptMap, TakerStatus, TakerTrade,
      MakerStatus, MakerTrade, TradeFails, IocCheck, CancelCheck, CancelStatus,
      CancelRelease, bookVars

\* Every step and call keeps ImmediateHeld.
LEMMA KeepImmediateHeld ==
    ASSUME IInv, IInv', MatchedSound, VolumesKept, EventsOpposed,
           RejectedByFault, AcceptedFirst, ImmediateHeld,
           NEW t \in Threads, Step(t) \/ Call(t)
    PROVE  ImmediateHeld'
<1>0. RouterTypes /\ ThreadTypes /\ BookTypes /\ rest \in [OrderIds -> Nat]
  BY DEF IInv, TypeOK, BookTypes
<1> SUFFICES ASSUME faults' = 0, NEW o \in OrderIds, rest'[o] > 0, req'[o].tif # "GFD"
             PROVE  \E u \in Threads :
                      cur'[u] = o /\ pc'[u] \in Submitting \cup {"cancel_book"}
  BY DEF ImmediateHeld
<1>1. faults = 0
  BY OnlyGrow
<1>2. CASE RouteToMatchingEngine(t) /\ o = cur[t]
  <2>1. cur'[t] = o /\ pc'[t] = "accept"
    BY <1>0, <1>2 DEF RouteToMatchingEngine, Goto, ThreadTypes
  <2> QED
    BY <2>1 DEF Submitting
<1>3. CASE rest[o] > 0
  <2>1. engine_id[o] # 0
    BY <1>3 DEF IInv, UnseenUntraded
  <2>2. req'[o] = req[o]
    BY <2>1, StepSeenStays DEF SeenStays
  <2>3. PICK u \in Threads : cur[u] = o /\ pc[u] \in Submitting \cup {"cancel_book"}
    BY <1>1, <1>3, <2>2 DEF ImmediateHeld
  <2>4. CASE u # t
    <3>1. pc'[u] = pc[u] /\ cur'[u] = cur[u]
      BY <2>4, OthersStay
    <3> QED
      BY <2>3, <3>1
  <2>5. CASE u = t
    <3>1. pc[t] # "idle"
      BY <2>3, <2>5 DEF Submitting, Events
    <3>2. Step(t)
      BY <3>1 DEF Call, SubmitOrder, ClientCancel
    <3>3. cur'[t] = cur[t] /\ pc'[t] \in Submitting \cup {"cancel_book"}
      BY <1>1, <1>3, <2>2, <2>3, <2>5, <3>2, HolderStays
    <3> QED
      BY <2>3, <2>5, <3>3
  <2> QED
    BY <2>4, <2>5
<1> QED
  BY <1>2, <1>3, RestsSince
------------------------------------------------------------------------------
\* What a thread that serves an order has seen to, and what a fault explains.
LEMMA StatusesInvariance == Spec => [](IInv /\ RejectedByFault /\ AcceptedFirst /\ ImmediateHeld)
<1>1. Init => RejectedByFault /\ AcceptedFirst /\ ImmediateHeld
  BY DEF Init, RejectedByFault, AcceptedFirst, ImmediateHeld, Submitting, Events
<1>2. IInv /\ IInv' /\ EventsOpposed /\ MatchedSound /\ VolumesKept /\ RejectedByFault
        /\ AcceptedFirst /\ ImmediateHeld /\ [Next]_vars
        => RejectedByFault' /\ AcceptedFirst' /\ ImmediateHeld'
  <2> SUFFICES ASSUME IInv, IInv', EventsOpposed, MatchedSound, VolumesKept,
                      RejectedByFault, AcceptedFirst, ImmediateHeld, [Next]_vars
               PROVE  RejectedByFault' /\ AcceptedFirst' /\ ImmediateHeld'
    OBVIOUS
  <2>1. CASE UNCHANGED vars
    BY <2>1 DEF vars, infoVars, acctVars, bookVars, threadVars, RejectedByFault,
                AcceptedFirst, ImmediateHeld
  <2>2. ASSUME NEW t \in Threads, Step(t) \/ Call(t)
        PROVE  RejectedByFault' /\ AcceptedFirst' /\ ImmediateHeld'
    BY <2>2, KeepRejectedByFault, KeepAcceptedFirst, KeepImmediateHeld
  <2> QED
    BY <2>1, <2>2 DEF Next
<1> QED
  BY VolumesInvariance, <1>1, <1>2, PTL DEF Spec

\* handle_ioc_remaining: without a storage fault nothing of an immediate order is in
\* the book once no call serves the order, for any number of threads that trade
\* against it and cancel it meanwhile.
THEOREM ImmediateNeverRests == Spec => []IocNeverRests
<1>1. IInv /\ ImmediateHeld => IocNeverRests
  <2> SUFFICES ASSUME IInv, ImmediateHeld, NEW o \in OrderIds, faults = 0,
                      req[o].tif # "GFD", \A t \in Threads : cur[t] # o
               PROVE  rest[o] = 0
    BY DEF IocNeverRests
  <2>1. rest[o] \in Nat
    BY DEF IInv, TypeOK, BookTypes
  <2> QED
    BY <2>1 DEF ImmediateHeld
<1> QED
  BY StatusesInvariance, <1>1, PTL
------------------------------------------------------------------------------
(* One call at a time: what the checks before the book are then worth.      *)

\* One call at a time.
OneThread == \A t, u \in Threads : t = u

\* Between the self-trade check and the book, nothing of the order's own account
\* rests that it could trade with.
NoOwnCross ==
    \A t \in Threads :
        pc[t] \in PreRoute /\ ~req[cur[t]].force =>
            \A o \in OrderIds :
                rest[o] > 0 /\ req[o].acct = req[cur[t]].acct => ~Crosses(req[cur[t]], req[o])

\* Between the precheck and the book, the book still offers a FOK order all it asks.
FokCovered ==
    \A t \in Threads :
        /\ pc[t] \in {"freeze", "register", "route"}
        /\ req[cur[t]].tif = "FOK" /\ ~req[cur[t]].force
        => Available(req, rest, req[cur[t]]) >= req[cur[t]].vol

\* A FOK order that the book has seen was executed in full.
FokDone ==
    \A o \in OrderIds :
        engine_id[o] # 0 /\ req[o].tif = "FOK" /\ ~req[o].force => Executed(o) = req[o].vol

\* What the book offers is taken before anything is left to rest.
LEMMA FullMatch ==
    ASSUME NEW r, rest \in [OrderIds -> Nat], r.vol \in Nat,
           NEW take \in [OrderIds -> Nat], NEW left \in Nat,
           IsMatch(req, rest, engine_id, r, take, left),
           Available(req, rest, r) >= r.vol
    PROVE  left = 0
<1> DEFINE opp == Opposite(req, rest, r)
<1>1. /\ opp \in SUBSET OrderIds /\ IsFiniteSet(opp) /\ IsFiniteSet(OrderIds)
      /\ Numbers(take, OrderIds) /\ Numbers(take, opp) /\ Numbers(rest, opp)
  BY OrdersFinite DEF Opposite, Numbers
<1>2. \A m \in OrderIds : take[m] <= (IF m \in opp THEN rest[m] ELSE 0)
  BY DEF IsMatch
<1>3. left + SumFunction(take) = r.vol
  BY DEF IsMatch
<1>4. left > 0 => \A m \in opp : take[m] = rest[m]
  BY DEF IsMatch
<1>5. SumFunction(take) = SumFunctionOnSet(take, OrderIds)
  BY DEF SumFunction, SumFunctionOnSet, FoldFunctionOnSet
<1>6. Available(req, rest, r) = SumFunctionOnSet(rest, opp)
  BY DEF Available
<1> HIDE DEF opp
<1>7. SumFunctionOnSet(take, OrderIds) = SumFunctionOnSet(take, opp)
  <2>1. \A m \in OrderIds \ opp : take[m] = 0
    <3> SUFFICES ASSUME NEW m \in OrderIds \ opp PROVE take[m] = 0
      OBVIOUS
    <3>1. take[m] <= 0 /\ take[m] \in Nat
      BY <1>2
    <3> QED
      BY <3>1
  <2> QED
    BY <1>1, <2>1, SumOfPart
<1> SUFFICES ASSUME left > 0 PROVE FALSE
  OBVIOUS
<1>8. SumFunctionOnSet(take, opp) = SumFunctionOnSet(rest, opp)
  BY <1>1, <1>4, SumSame
<1>9. SumFunctionOnSet(rest, opp) \in Int
  BY <1>1, SumInt
<1> QED
  BY <1>3, <1>5, <1>6, <1>7, <1>8, <1>9

\* The way to the book changes neither requests nor what rests.
LEMMA ToTheBook ==
    ASSUME IInv, NEW t \in Threads, Step(t), pc'[t] \in PreRoute
    PROVE  /\ pc[t] \in PreRoute /\ cur'[t] = cur[t] /\ req' = req /\ rest' = rest
           /\ pc'[t] # "freeze" => pc[t] \in {"freeze", "register", "route"}
           /\ pc'[t] = "freeze" => FokPrecheck(t)
<1>0. ThreadTypes
  BY DEF IInv, TypeOK
<1>1. pc[t] \in Before(pc'[t]) /\ cur'[t] = cur[t]
  BY <1>0, StepProceeds DEF Proceeds, PreRoute
<1>2. /\ pc[t] \in {"fok", "freeze", "register"} /\ (pc'[t] # "freeze" => pc[t] # "fok")
      /\ pc'[t] = "freeze" => pc[t] = "fok"
  BY <1>1 DEF Before, PreRoute
<1>3. /\ FokPrecheck(t) \/ FreezeFunds(t) \/ RegisterOrder(t)
      /\ pc[t] = "fok" => FokPrecheck(t)
  BY <1>2
  DEF Step, FokPrecheck, FreezeFunds, RegisterOrder, RouteError, RouteRefused,
      RouteToMatchingEngine, AcceptStatus, AcceptMap, TakerStatus, TakerTrade,
      MakerStatus, MakerTrade, TradeFails, IocCheck, CancelCheck, CancelBook,
      CancelStatus, CancelRelease
<1> QED
  BY <1>1, <1>2, <1>3 DEF FokPrecheck, FreezeFunds, RegisterOrder, infoVars, bookVars, PreRoute

\* A call that starts with the order of a new request; requests and the book of
\* the orders that rest stay.
LEMMA FreshOrder ==
    ASSUME IInv, NEW t \in Threads, NEW r \in Requests, SubmitOrder(t, r),
           pc'[t] \in PreRoute
    PROVE  /\ cur'[t] = order_seq /\ req'[cur'[t]] = r /\ order_seq \in OrderIds
           /\ rest' = rest /\ (r.force \/ RiskPasses(r))
           /\ \A o \in OrderIds : rest[o] > 0 => req'[o] = req[o] /\ o \in active_orders
           /\ pc'[t] # "fok" => ~(r.tif = "FOK" /\ ~r.force)
           /\ pc'[t] \in {"fok", "freeze"}
<1>0. RouterTypes /\ ThreadTypes /\ BookTypes
  BY DEF IInv, TypeOK
<1>1. /\ order_seq \in OrderIds /\ req' = [req EXCEPT ![order_seq] = r]
      /\ rest' = rest /\ pc[t] = "idle"
  BY DEF SubmitOrder, bookVars
<1>2. /\ r.force \/ RiskPasses(r)
      /\ cur' = [cur EXCEPT ![t] = order_seq]
      /\ pc' = [pc EXCEPT ![t] = IF r.tif = "FOK" /\ ~r.force THEN "fok" ELSE "freeze"]
  BY <1>1 DEF SubmitOrder, PreRoute
<1>3. ASSUME NEW o \in OrderIds, rest[o] > 0 PROVE req'[o] = req[o] /\ o \in active_orders
  <2>1. engine_id[o] # 0 /\ o \in active_orders
    BY <1>3 DEF IInv, UnseenUntraded, RestingTracked
  <2>2. o # order_seq
    BY <1>0, <1>1, <2>1 DEF IInv, IssuedOnly, OrderIds
  <2> QED
    BY <1>0, <1>1, <2>1, <2>2 DEF RouterTypes
<1> QED
  BY <1>0, <1>1, <1>2, <1>3 DEF RouterTypes, ThreadTypes

\* Every step and call keeps NoOwnCross: the only thread is on its way to the book.
LEMMA KeepNoOwnCross ==
    ASSUME OneThread, IInv, NoOwnCross, NEW t \in Threads, Step(t) \/ Call(t)
    PROVE  NoOwnCross'
<1> SUFFICES ASSUME pc'[t] \in PreRoute, ~req'[cur'[t]].force,
                    NEW o \in OrderIds, rest'[o] > 0, req'[o].acct = req'[cur'[t]].acct
             PROVE  ~Crosses(req'[cur'[t]], req'[o])
  BY DEF NoOwnCross, OneThread, Crosses
<1>1. CASE Step(t)
  BY <1>1, ToTheBook DEF NoOwnCross
<1>2. ASSUME NEW r \in Requests, SubmitOrder(t, r) PROVE ~Crosses(req'[cur'[t]], req'[o])
  <2>1. /\ req'[cur'[t]] = r /\ RiskPasses(r) /\ rest[o] > 0
        /\ req'[o] = req[o] /\ o \in active_orders
    BY <1>2, FreshOrder
  <2> QED
    BY <2>1 DEF RiskPasses, WouldSelfTrade
<1>3. ASSUME NEW p \in OrderIds, ClientCancel(t, p) PROVE FALSE
  BY <1>3 DEF ClientCancel, PreRoute, IInv, TypeOK, ThreadTypes
<1> QED
  BY <1>1, <1>2, <1>3 DEF Call

\* ... so that process_order matches no two orders of one account.
LEMMA KeepNoSelfTrade ==
    ASSUME OneThread, IInv, MatchedSound, NoOwnCross, NoSelfTrade,
           NEW t \in Threads, Step(t) \/ Call(t)
    PROVE  NoSelfTrade'
<1>1. \A m \in matched : req'[m.taker] = req[m.taker] /\ req'[m.maker] = req[m.maker]
  BY StepSeenStays DEF MatchedSound, SeenStays
<1>2. CASE RouteToMatchingEngine(t)
  <2>1. PICK c \in OrderIds : c = cur[t]
    BY <1>2, Routing
  <2>2. PICK take \in [OrderIds -> Nat], left \in Nat :
          /\ matched' = matched \cup MatchesWith(take, c)
          /\ \A m \in OrderIds : take[m] > 0 => take[m] <= rest[m] /\ Crosses(req[c], req[m])
    BY <1>2, <2>1, Routing DEF MatchesWith
  <2>3. req' = req /\ pc[t] \in PreRoute /\ \A m \in OrderIds : rest[m] \in Nat
    BY <1>2 DEF RouteToMatchingEngine, infoVars, PreRoute, IInv, TypeOK, BookTypes
  <2>4. ASSUME NEW m \in MatchesWith(take, c), ~req[m.taker].force
        PROVE  req[m.taker].acct # req[m.maker].acct
    <3>1. m.taker = c /\ m.maker \in OrderIds /\ take[m.maker] > 0
      BY DEF MatchesWith
    <3>2. rest[m.maker] > 0 /\ Crosses(req[c], req[m.maker])
      BY <2>2, <2>3, <3>1
    <3> QED
      BY <2>1, <2>3, <2>4, <3>1, <3>2 DEF NoOwnCross
  <2> QED
    BY <2>2, <2>3, <2>4 DEF NoSelfTrade
<1>3. CASE ~RouteToMatchingEngine(t)
  BY <1>1, <1>3, SameExecuted DEF NoSelfTrade
<1> QED
  BY <1>2, <1>3

\* Every step and call keeps FokCovered.
LEMMA KeepFokCovered ==
    ASSUME OneThread, IInv, FokCovered, NEW t \in Threads, Step(t) \/ Call(t)
    PROVE  FokCovered'
<1> SUFFICES ASSUME pc'[t] \in {"freeze", "register", "route"},
                    req'[cur'[t]].tif = "FOK", ~req'[cur'[t]].force
             PROVE  Available(req', rest', req'[cur'[t]]) >= req'[cur'[t]].vol
  <2>1. \A r : Available(req, rest, r)' = Available(req', rest', r')
    BY DEF Available, Opposite, Crosses
  <2> QED
    BY <2>1 DEF FokCovered, OneThread
<1>1. CASE Step(t)
  <2>1. /\ pc[t] \in PreRoute /\ cur'[t] = cur[t] /\ req' = req /\ rest' = rest
        /\ pc'[t] # "freeze" => pc[t] \in {"freeze", "register", "route"}
        /\ pc'[t] = "freeze" => FokPrecheck(t)
    BY <1>1, ToTheBook DEF PreRoute
  <2>2. CASE pc'[t] = "freeze"
    <3>1. FokPrecheck(t) /\ ~Return(t)
      BY <2>1, <2>2 DEF Return, IInv, TypeOK, ThreadTypes
    <3>2. Available(req, rest, req[cur[t]]) >= req[cur[t]].vol
      BY <3>1 DEF FokPrecheck
    <3> QED
      BY <2>1, <3>2
  <2>3. CASE pc'[t] # "freeze"
    BY <2>1, <2>3 DEF FokCovered
  <2> QED
    BY <2>2, <2>3
<1>2. ASSUME NEW r \in Requests, SubmitOrder(t, r) PROVE FALSE
  BY <1>2, FreshOrder DEF PreRoute
<1>3. ASSUME NEW p \in OrderIds, ClientCancel(t, p) PROVE FALSE
  BY <1>3 DEF ClientCancel, IInv, TypeOK, ThreadTypes
<1> QED
  BY <1>1, <1>2, <1>3 DEF Call

\* ... so that process_order leaves nothing of a FOK order to rest.
LEMMA KeepFokDone ==
    ASSUME OneThread, IInv, IInv', MatchedSound, VolumesKept, FokCovered, FokDone,
           NEW t \in Threads, Step(t) \/ Call(t)
    PROVE  FokDone'
<1>0. BookTypes /\ RouterTypes
  BY DEF IInv, TypeOK
<1> SUFFICES ASSUME NEW o \in OrderIds, engine_id'[o] # 0, req'[o].tif = "FOK", ~req'[o].force
             PROVE  Executed(o)' = req'[o].vol
  BY DEF FokDone
<1>1. CASE RouteToMatchingEngine(t)
  <2>1. PICK c \in OrderIds : c = cur[t] /\ engine_id[c] = 0 /\ req[c].vol \in Nat
    BY <1>1, Routing
  <2>2. PICK take \in [OrderIds -> Nat], left \in Nat :
          /\ IsMatch(req, rest, engine_id, req[c], take, left)
          /\ left + SumFunction(take) = req[c].vol
          /\ matched' = matched \cup MatchesWith(take, c)
          /\ \A m \in OrderIds : take[m] > 0 => take[m] <= rest[m]
    BY <1>1, <2>1, Routing DEF MatchesWith
  <2>3. /\ \A p \in OrderIds : Executed(p)' = Executed(p) + Taken(take, c, p)
        /\ Executed(c) = 0
    BY <2>1, <2>2, RouteExecutes
  <2>4. req' = req /\ pc[t] = "route"
    BY <1>1 DEF RouteToMatchingEngine, infoVars
  <2>5. CASE o = c
    <3>1. Available(req, rest, req[c]) >= req[c].vol
      BY <2>1, <2>4, <2>5 DEF FokCovered
    <3>2. left = 0
      BY <1>0, <2>1, <2>2, <3>1, FullMatch DEF BookTypes
    <3>3. Taken(take, c, c) = SumFunction(take) /\ Taken(take, c, c) \in Nat
      BY TakenIs
    <3> QED
      BY <2>1, <2>2, <2>3, <2>4, <2>5, <3>2, <3>3
  <2>6. CASE o # c
    <3>1. engine_id[o] # 0
      BY <1>0, <1>1, <2>1, <2>6 DEF RouteToMatchingEngine, BookTypes
    <3>2. Executed(o) = req[o].vol /\ Executed(o) + rest[o] <= req[o].vol
      BY <2>4, <3>1 DEF FokDone, VolumesKept, NotOverfilled
    <3>3. rest[o] = 0
      <4>1. rest[o] \in Nat /\ req[o].vol \in Nat
        BY <1>0, <3>1, SeenIsIssued, Requested DEF BookTypes, IInv
      <4> QED
        BY <3>2, <4>1
    <3>4. take[o] = 0
      BY <2>2, <3>3
    <3>5. Taken(take, c, o) = 0
      BY <2>6, <3>4, TakenIs
    <3>6. Executed(o) \in Nat
      BY ExecutedNat
    <3> QED
      BY <2>3, <2>4, <3>2, <3>5, <3>6
  <2> QED
    BY <2>5, <2>6
<1>2. CASE ~RouteToMatchingEngine(t)
  <2>1. engine_id[o] # 0
    BY <1>2, NewArrival
  <2>2. req'[o] = req[o] /\ Executed(o)' = Executed(o)
    BY <1>2, <2>1, StepSeenStays, SameExecuted DEF SeenStays
  <2> QED
    BY <2>1, <2>2 DEF FokDone
<1> QED
  BY <1>1, <1>2
------------------------------------------------------------------------------
\* What holds while one thread runs the calls.
LEMMA AloneInvariance ==
    ASSUME OneThread
    PROVE  Spec => [](IInv /\ MatchedSound /\ NoSelfTrade /\ FokDone)
<1>1. Init => NoOwnCross /\ NoSelfTrade /\ FokCovered /\ FokDone
  BY DEF Init, NoOwnCross, NoSelfTrade, FokCovered, FokDone, PreRoute
<1>2. /\ IInv /\ IInv' /\ MatchedSound /\ VolumesKept
      /\ NoOwnCross /\ NoSelfTrade /\ FokCovered /\ FokDone /\ [Next]_vars
      => NoOwnCross' /\ NoSelfTrade' /\ FokCovered' /\ FokDone'
  <2> SUFFICES ASSUME IInv, IInv', MatchedSound, VolumesKept,
                      NoOwnCross, NoSelfTrade, FokCovered, FokDone, [Next]_vars
               PROVE  NoOwnCross' /\ NoSelfTrade' /\ FokCovered' /\ FokDone'
    OBVIOUS
  <2>1. CASE UNCHANGED vars
    BY <2>1, ZenonT(60) DEF vars, infoVars, acctVars, bookVars, threadVars, NoOwnCross, NoSelfTrade,
                FokCovered, FokDone, Crosses, Available, Opposite, Executed
  <2>2. ASSUME NEW t \in Threads, Step(t) \/ Call(t)
        PROVE  NoOwnCross' /\ NoSelfTrade' /\ FokCovered' /\ FokDone'
    BY <2>2, KeepNoOwnCross, KeepNoSelfTrade, KeepFokCovered, KeepFokDone
  <2> QED
    BY <2>1, <2>2 DEF Next
<1> QED
  BY VolumesInvariance, <1>1, <1>2, PTL DEF Spec

\* check_self_trading reads the active orders and not the book; with one call at a
\* time that is enough, whatever faults, cancels and refused orders went before.
THEOREM NoSelfTradeAlone == ASSUME OneThread PROVE Spec => []NoSelfTrade
BY AloneInvariance, PTL

\* check_fok_fulfillable looks at a book that it lets go of; with one call at a time
\* what it saw is what process_order finds.
THEOREM FokAllOrNothingAlone == ASSUME OneThread PROVE Spec => []FokAllOrNothing
<1>1. IInv /\ MatchedSound /\ FokDone => FokAllOrNothing
  <2> SUFFICES ASSUME MatchedSound, FokDone, NEW o \in OrderIds,
                      req[o].tif = "FOK", ~req[o].force
               PROVE  Executed(o) \in {0, req[o].vol}
    BY DEF FokAllOrNothing
  <2>1. CASE engine_id[o] # 0
    BY <2>1 DEF FokDone
  <2>2. CASE engine_id[o] = 0
    <3>1. MatchesOf(o) = {}
      BY <2>2 DEF MatchesOf, MatchedSound
    <3>2. Volumes({}) = 0
      BY VolumesEmpty
    <3> QED
      BY <3>1, <3>2, ExecutedIs
  <2> QED
    BY <2>1, <2>2
<1> QED
  BY AloneInvariance, <1>1, PTL
------------------------------------------------------------------------------
(* One call at a time and no fault: what the call has yet to do is all that  *)
(* router, account, tracker and book differ by.                              *)

\* The last of the events of thread t, which tells what is left of its order.
LastMatch(t, f) ==
    /\ f \in todo[t]
    /\ \A g \in todo[t] : g = f \/ Ahead(req, engine_id, g.maker, f.maker)

\* An order that the book has filled is going to be reported filled.
FilledIsTold ==
    \A t \in Threads :
        /\ pc[t] = "accept" /\ todo[t] = {} => rest[cur[t]] > 0
        /\ \A f \in todo[t] :
             /\ rest[f.maker] = 0 => f.maker_filled
             /\ LastMatch(t, f) /\ rest[cur[t]] = 0 => f.taker_filled

\* An order that the book has seen is in the reverse map, but for the one whose
\* Accepted event is being handled.
Mapped ==
    \A t \in Threads, o \in OrderIds :
        engine_id[o] # 0 /\ ~(cur[t] = o /\ pc[t] \in {"accept", "map"})
            => o \in engine_id_to_order

\* How far the status has come tells whether the book has seen the order.
StatusFollowsBook ==
    \A o \in OrderIds :
        /\ engine_id[o] = 0 =>
             \/ status[o] \in {"None", "Rejected"}
             \/ \E t \in Threads : cur[t] = o /\ pc[t] = "route"
        /\ engine_id[o] # 0 => Threads # {}
        /\ engine_id[o] # 0 /\ status[o] \in {"None", "PendingRoute"} =>
             \E t \in Threads : cur[t] = o /\ pc[t] = "accept"

\* An order about to be routed has its whole volume left.
VolumeReady ==
    \A t \in Threads :
        pc[t] \in {"register", "route"} => volume_left[cur[t]] = req[cur[t]].vol

\* The book has cancelled order o, router and account are to follow.
CancelUnderWay(t, o) == cur[t] = o /\ pc[t] \in {"cancel_status", "cancel_release"}

\* What thread t has yet to book, report and release for order o.
Agrees(t, o) ==
    /\ position[o] + Volumes(Due(t, o)) = Executed(o)
    /\ ~CancelUnderWay(t, o) => volume_left[o] = rest[o] + Volumes(Due(t, o))
    /\ rest[o] = 0 /\ Due(t, o) = {} /\ ~CancelUnderWay(t, o) =>
         o \notin active_orders /\ frozen[o] = 0
    /\ rest[o] = 0 /\ Uncounted(t, o) = {} /\ ~(cur[t] = o /\ pc[t] = "cancel_status") =>
         status[o] \in {"Filled", "Cancelled"}

SeenAgree ==
    faults = 0 => \A t \in Threads, o \in OrderIds : engine_id[o] # 0 => Agrees(t, o)

\* What a step does not touch agrees as before.
LEMMA AgreesSame ==
    ASSUME NEW t \in Threads, NEW o \in OrderIds, Agrees(t, o),
           position'[o] = position[o], volume_left'[o] = volume_left[o],
           rest'[o] = rest[o], frozen'[o] = frozen[o], status'[o] = status[o],
           o \in active_orders' => o \in active_orders, Executed(o)' = Executed(o),
           Due(t, o)' = Due(t, o), Uncounted(t, o)' = Uncounted(t, o),
           CancelUnderWay(t, o) => CancelUnderWay(t, o)',
           cur[t] = o /\ pc[t] = "cancel_status" => cur'[t] = o /\ pc'[t] = "cancel_status"
    PROVE  Agrees(t, o)'
BY DEF Agrees

\* A step that is neither a match nor the handling of an event leaves what is
\* pending alone.
LEMMA QuietStays ==
    ASSUME IInv, IInv', NEW t \in Threads, Step(t) \/ Call(t),
           ~RouteToMatchingEngine(t), pc[t] \notin Events, faults' = faults
    PROVE  /\ todo' = todo
           /\ \A p \in OrderIds :
                Due(t, p)' = Due(t, p) /\ Uncounted(t, p)' = Uncounted(t, p)
<1>0. ThreadTypes /\ faults \in Nat
  BY Bounds DEF IInv, TypeOK, BookTypes
<1>1. todo' = todo
  BY <1>0 DEF Call, SubmitOrder, ClientCancel, Step, FokPrecheck, FreezeFunds,
     RegisterOrder, RouteError, RouteRefused, AcceptStatus, AcceptMap, TakerStatus,
     TakerTrade, MakerStatus, MakerTrade, TradeFails, IocCheck, CancelCheck, CancelBook,
     CancelStatus, CancelRelease, Events
<1>2. CASE todo[t] = {}
  BY <1>1, <1>2 DEF Due, Uncounted
<1>3. CASE todo[t] # {}
  <2>1. pc[t] \in {"accept", "map"} /\ pc'[t] \in {"accept", "map"} \cup Events
    BY <1>1, <1>3 DEF IInv, EventsSound
  <2>2. Step(t)
    BY <2>1 DEF Call, SubmitOrder, ClientCancel
  <2>3. cur'[t] = cur[t] /\ pc'[t] \in {"map", "taker"}
    BY <1>0, <2>1, <2>2, StepProceeds DEF Proceeds, Before, Events
  <2> QED
    BY <1>1, <2>1, <2>3 DEF Due, Uncounted
<1> QED
  BY <1>1, <1>2, <1>3
------------------------------------------------------------------------------
\* process_order: what is taken is pending for both sides.
LEMMA RouteAgrees ==
    ASSUME IInv, IInv', EventsOpposed, EventsOpposed', MatchedSound, VolumeReady,
           NEW t \in Threads, Step(t), RouteToMatchingEngine(t), NEW o \in OrderIds,
           engine_id'[o] # 0, engine_id[o] # 0 => Agrees(t, o)
    PROVE  Agrees(t, o)'
<1>0. /\ AccountTypes /\ ThreadTypes /\ BookTypes
  BY DEF IInv, TypeOK
<1>1. PICK c \in OrderIds : /\ c = cur[t] /\ engine_id[c] = 0 /\ position[c] = 0
                            /\ req[c].vol \in Nat \ {0}
  BY Routing
<1>2. PICK take \in [OrderIds -> Nat], left \in Nat :
        /\ left + SumFunction(take) = req[c].vol
        /\ rest' = [m \in OrderIds |-> IF m = c THEN left ELSE rest[m] - take[m]]
        /\ todo'[t] = MatchEvents(take, left)
        /\ matched' = matched \cup MatchesWith(take, c)
        /\ \A m \in OrderIds : take[m] > 0 => m # c
  BY <1>1, Routing DEF MatchesWith
<1>3. /\ Executed(o)' = Executed(o) + Taken(take, c, o)
      /\ Executed(c) = 0 /\ Executed(o) \in Nat
  BY <1>1, <1>2, RouteExecutes, ExecutedNat
<1>4. /\ pc[t] = "route" /\ pc'[t] = "accept" /\ cur'[t] = c
      /\ UNCHANGED <<position, volume_left, frozen, status, active_orders>>
  BY <1>0, <1>1 DEF RouteToMatchingEngine, Goto, ThreadTypes, infoVars, acctVars
<1>5. todo[t] = {}
  BY <1>4, IdleNoEvents DEF PreRoute
<1>6. PICK evs : /\ evs = EventsFor(take, left, c, o)
                 /\ HasVolumes(evs) /\ Volumes(evs) = Taken(take, c, o)
  BY EventVolumes
<1>7. Due(t, o)' = evs /\ Uncounted(t, o)' = evs
  BY <1>1, <1>2, <1>4, <1>6 DEF Due, Uncounted, EventsFor
<1>8. Due(t, o) = {} /\ Uncounted(t, o) = {} /\ Volumes({}) = 0
  BY <1>5, VolumesEmpty DEF Due, Uncounted
<1>9. /\ Taken(take, c, o) \in Nat
      /\ o = c => Taken(take, c, o) = SumFunction(take)
      /\ o # c => Taken(take, c, o) = take[o]
  BY TakenIs
<1>10. position[o] \in Nat /\ rest[o] \in Nat /\ volume_left[o] \in Int
  BY <1>0 DEF AccountTypes, BookTypes
<1>11. CASE o = c
  <2>1. rest'[o] = left /\ volume_left[o] = req[c].vol
    BY <1>1, <1>2, <1>4, <1>11 DEF VolumeReady
  <2>2. ASSUME evs = {} PROVE rest'[o] # 0
    <3>1. SumFunction(take) = 0
      BY <1>6, <1>8, <1>9, <1>11, <2>2
    <3> QED
      BY <1>1, <1>2, <2>1, <3>1
  <2>3. position'[o] + Volumes(evs) = Executed(o)'
    BY <1>1, <1>3, <1>4, <1>6, <1>9, <1>11
  <2>4. volume_left'[o] = rest'[o] + Volumes(evs)
    BY <1>2, <1>4, <1>6, <1>9, <1>11, <2>1
  <2> QED
    BY <1>7, <2>2, <2>3, <2>4 DEF Agrees
<1>12. CASE o # c
  <2>1. engine_id[o] # 0
    BY <1>0, <1>1, <1>12 DEF RouteToMatchingEngine, BookTypes
  <2>2. Agrees(t, o) /\ rest'[o] = rest[o] - take[o] /\ take[o] \in Nat
    BY <1>2, <1>12, <2>1
  <2>3. ~CancelUnderWay(t, o) /\ ~(cur[t] = o /\ pc[t] = "cancel_status")
    BY <1>4 DEF CancelUnderWay
  <2>4. /\ position[o] + 0 = Executed(o) /\ volume_left[o] = rest[o] + 0
        /\ rest[o] = 0 => /\ o \notin active_orders /\ frozen[o] = 0
                          /\ status[o] \in {"Filled", "Cancelled"}
    BY <1>8, <2>2, <2>3 DEF Agrees
  <2>5. evs = {} => rest'[o] = rest[o]
    BY <1>6, <1>8, <1>9, <1>10, <1>12, <2>2
  <2>6. position'[o] + Volumes(evs) = Executed(o)'
    BY <1>3, <1>4, <1>6, <1>9, <1>10, <2>4
  <2>7. volume_left'[o] = rest'[o] + Volumes(evs)
    BY <1>4, <1>6, <1>9, <1>10, <1>12, <2>2, <2>4
  <2> QED
    BY <1>4, <1>7, <2>4, <2>5, <2>6, <2>7 DEF Agrees
<1> QED
  BY <1>11, <1>12

\* The taker's part of a trade event.
LEMMA TakerTradeAgrees ==
    ASSUME IInv, IInv', EventsOpposed, EventsOpposed', FilledIsTold,
           NEW t \in Threads, Step(t), TakerTrade(t), NEW o \in OrderIds, Agrees(t, o)
    PROVE  Agrees(t, o)'
<1>0. RouterTypes /\ AccountTypes /\ ThreadTypes /\ BookTypes
  BY DEF IInv, TypeOK
<1>1. PICK f \in todo[t] : /\ NextMatch(t, f) /\ Deal(cur[t], f.vol)
                           /\ UntrackFilled(cur[t], f.taker_filled)
  BY DEF TakerTrade
<1>2. /\ todo' = todo /\ pc[t] = "taker_trade" /\ pc'[t] = "maker" /\ cur'[t] = cur[t]
      /\ status' = status /\ rest' = rest
  BY <1>0 DEF TakerTrade, Goto, ThreadTypes, infoVars, bookVars
<1>3. \A g \in todo[t] : NextMatch(t, g)' <=> NextMatch(t, g)
  BY <1>2, StepSeenStays, NextStays
<1>4. Executed(o)' = Executed(o)
  <2>1. ~RouteToMatchingEngine(t)
    BY <1>2 DEF RouteToMatchingEngine
  <2> QED
    BY <2>1, SameExecuted
<1>5. Uncounted(t, o)' = Uncounted(t, o)
  BY <1>2, <1>3 DEF Uncounted
<1>6. ~CancelUnderWay(t, o) /\ ~CancelUnderWay(t, o)' /\ pc[t] # "cancel_status"
  BY <1>2 DEF CancelUnderWay
<1>7. CASE o # cur[t]
  <2>1. /\ position'[o] = position[o] /\ volume_left'[o] = volume_left[o]
        /\ frozen'[o] = frozen[o] /\ (o \in active_orders' => o \in active_orders)
    BY <1>0, <1>1, <1>7 DEF Deal, UntrackFilled, AccountTypes
  <2>2. Due(t, o)' = Due(t, o)
    BY <1>2, <1>7 DEF Due
  <2> QED
    BY <1>2, <1>4, <1>5, <1>6, <2>1, <2>2, AgreesSame
<1>8. CASE o = cur[t]
  <2>1. /\ position'[o] = position[o] + f.vol /\ volume_left'[o] = volume_left[o] - f.vol
        /\ frozen'[o] = 0 /\ (f.taker_filled => o \notin active_orders')
    BY <1>0, <1>1, <1>8 DEF Deal, UntrackFilled, AccountTypes
  <2>2. Due(t, o) = todo[t] /\ Due(t, o)' = todo[t] \ {f}
    <3>1. \A g \in todo[t] : g.maker # o
      BY <1>8 DEF EventsOpposed
    <3>2. \A g \in todo[t] : NextMatch(t, g) => g = f
      BY <1>1, OneNext
    <3> QED
      BY <1>1, <1>2, <1>3, <1>8, <3>1, <3>2 DEF Due
  <2>3. /\ Volumes(todo[t]) = f.vol + Volumes(todo[t] \ {f})
        /\ f.vol \in Nat /\ Volumes(todo[t] \ {f}) \in Nat
    <3>1. HasVolumes(todo[t])
      BY TodoVolumes
    <3> QED
      BY <3>1, VolumesRemove, VolumesSubset, EventOrders
  <2>4. todo[t] \ {f} = {} /\ rest[o] = 0 => f.taker_filled
    BY <1>8 DEF FilledIsTold, LastMatch
  <2>5. /\ position[o] \in Nat /\ volume_left[o] \in Int /\ rest[o] \in Nat
        /\ position[o] + Volumes(todo[t]) = Executed(o)
        /\ volume_left[o] = rest[o] + Volumes(todo[t])
        /\ rest[o] = 0 /\ Uncounted(t, o) = {} => status[o] \in {"Filled", "Cancelled"}
    BY <1>0, <1>6, <2>2 DEF Agrees, AccountTypes, BookTypes
  <2>6. position'[o] + Volumes(todo[t] \ {f}) = Executed(o)'
    BY <1>4, <2>1, <2>3, <2>5
  <2>7. volume_left'[o] = rest'[o] + Volumes(todo[t] \ {f})
    BY <1>2, <2>1, <2>3, <2>5
  <2> QED
    BY <1>2, <1>5, <2>1, <2>2, <2>4, <2>5, <2>6, <2>7 DEF Agrees
<1> QED
  BY <1>7, <1>8

\* The maker's part of a trade event, the last of the event.
LEMMA MakerTradeAgrees ==
    ASSUME IInv, IInv', EventsOpposed, EventsOpposed', FilledIsTold,
           NEW t \in Threads, Step(t), MakerTrade(t), NEW o \in OrderIds, Agrees(t, o)
    PROVE  Agrees(t, o)'
<1>0. RouterTypes /\ AccountTypes /\ ThreadTypes /\ BookTypes /\ EventTypes
  BY DEF IInv, TypeOK
<1>1. PICK f \in todo[t] : /\ NextMatch(t, f) /\ Deal(f.maker, f.vol)
                           /\ UntrackFilled(f.maker, f.maker_filled)
                           /\ todo' = [todo EXCEPT ![t] = @ \ {f}]
                           /\ AfterEvent(t, todo[t] \ {f})
  BY DEF MakerTrade
<1>2. /\ todo'[t] = todo[t] \ {f} /\ pc[t] = "maker_trade"
      /\ status' = status /\ rest' = rest
  BY <1>0, <1>1 DEF MakerTrade, EventTypes, infoVars, bookVars
<1>3. /\ pc'[t] \in {"taker", "ioc", "idle"}
      /\ cur'[t] = cur[t] \/ (cur'[t] = 0 /\ todo'[t] = {})
  <2>1. PICK left : left = todo[t] \ {f}
    OBVIOUS
  <2>2. AfterEvent(t, left) /\ todo'[t] = left
    BY <1>1, <1>2, <2>1
  <2> QED
    BY <1>0, <1>2, <2>2, AfterEventProceeds
<1>4. Executed(o)' = Executed(o)
  <2>1. ~RouteToMatchingEngine(t)
    BY <1>2 DEF RouteToMatchingEngine
  <2> QED
    BY <2>1, SameExecuted
<1>5. /\ \A g \in todo[t] : g.maker # cur[t] /\ (NextMatch(t, g) => g = f)
      /\ f.maker \in OrderIds /\ o # 0
  BY <1>1, OneNext, EventOrders DEF EventsOpposed, OrderIds
<1>6. Uncounted(t, o)' = Uncounted(t, o)
  <2>1. CASE o = cur[t]
    BY <1>1, <1>2, <1>3, <1>5, <2>1 DEF Uncounted
  <2>2. CASE o # cur[t]
    BY <1>1, <1>2, <1>3, <1>5, <2>2 DEF Uncounted
  <2> QED
    BY <2>1, <2>2
<1>7. ~CancelUnderWay(t, o) /\ ~CancelUnderWay(t, o)' /\ pc[t] # "cancel_status"
  BY <1>2, <1>3 DEF CancelUnderWay
<1>8. CASE o # f.maker
  <2>1. /\ position'[o] = position[o] /\ volume_left'[o] = volume_left[o]
        /\ frozen'[o] = frozen[o] /\ (o \in active_orders' => o \in active_orders)
    BY <1>0, <1>1, <1>5, <1>8 DEF Deal, UntrackFilled, AccountTypes
  <2>2. Due(t, o)' = Due(t, o)
    <3>1. CASE o = cur[t]
      BY <1>1, <1>2, <1>3, <1>5, <3>1 DEF Due
    <3>2. CASE o # cur[t]
      BY <1>1, <1>2, <1>3, <1>5, <1>8, <3>2 DEF Due
    <3> QED
      BY <3>1, <3>2
  <2> QED
    BY <1>2, <1>4, <1>6, <1>7, <2>1, <2>2, AgreesSame
<1>9. CASE o = f.maker
  <2>1. /\ position'[o] = position[o] + f.vol /\ volume_left'[o] = volume_left[o] - f.vol
        /\ frozen'[o] = 0 /\ (f.maker_filled => o \notin active_orders')
    BY <1>0, <1>1, <1>9 DEF Deal, UntrackFilled, AccountTypes
  <2>2. f \in Due(t, o) /\ Due(t, o)' = Due(t, o) \ {f}
    BY <1>1, <1>2, <1>3, <1>5, <1>9 DEF Due
  <2>3. /\ Volumes(Due(t, o)) = f.vol + Volumes(Due(t, o) \ {f})
        /\ f.vol \in Nat /\ Volumes(Due(t, o) \ {f}) \in Nat
    <3>1. HasVolumes(Due(t, o))
      BY TodoVolumes
    <3> QED
      BY <2>2, <3>1, VolumesRemove, VolumesSubset, EventOrders
  <2>4. rest[o] = 0 => f.maker_filled
    BY <1>9 DEF FilledIsTold
  <2>5. /\ position[o] \in Nat /\ volume_left[o] \in Int /\ rest[o] \in Nat
        /\ position[o] + Volumes(Due(t, o)) = Executed(o)
        /\ volume_left[o] = rest[o] + Volumes(Due(t, o))
        /\ rest[o] = 0 /\ Uncounted(t, o) = {} => status[o] \in {"Filled", "Cancelled"}
    BY <1>0, <1>7 DEF Agrees, AccountTypes, BookTypes
  <2>6. position'[o] + Volumes(Due(t, o)') = Executed(o)'
    BY <1>4, <2>1, <2>2, <2>3, <2>5
  <2>7. volume_left'[o] = rest'[o] + Volumes(Due(t, o)')
    BY <1>2, <2>1, <2>2, <2>3, <2>5
  <2> QED
    BY <1>2, <1>6, <2>1, <2>4, <2>5, <2>6, <2>7 DEF Agrees
<1> QED
  BY <1>8, <1>9

\* The two status events: what is reported last of a filled order is that it is.
LEMMA StatusAgrees ==
    ASSUME IInv, IInv', EventsOpposed, FilledIsTold, Mapped, NEW t \in Threads, Step(t),
           TakerStatus(t) \/ MakerStatus(t), NEW o \in OrderIds, Agrees(t, o)
    PROVE  Agrees(t, o)'
<1>0. RouterTypes /\ ThreadTypes /\ EventTypes
  BY DEF IInv, TypeOK
<1>1. \A g \in todo[t] : /\ g.maker # cur[t] /\ g.maker \in OrderIds
                         /\ engine_id[g.maker] # 0 /\ cur[t] \in OrderIds
  BY EventOrders DEF EventsOpposed
<1>2. PICK f \in todo[t], s \in OrderIds, filled \in BOOLEAN :
        /\ NextMatch(t, f) /\ FillStatus(s, f.vol, filled)
        /\ UNCHANGED <<todo, cur, position, volume_left, frozen, rest, active_orders>>
        /\ \/ /\ pc[t] = "taker" /\ pc'[t] = "taker_trade"
              /\ s = cur[t] /\ filled = f.taker_filled
           \/ /\ pc[t] = "maker" /\ pc'[t] = "maker_trade"
              /\ s = f.maker /\ filled = f.maker_filled
  <2>1. CASE TakerStatus(t)
    <3>1. PICK f \in todo[t] : NextMatch(t, f) /\ FillStatus(cur[t], f.vol, f.taker_filled)
      BY <2>1 DEF TakerStatus
    <3>2. f.taker_filled \in BOOLEAN
      BY <1>0 DEF EventTypes, Matches
    <3>3. /\ UNCHANGED <<todo, cur, position, volume_left, frozen, rest, active_orders>>
          /\ pc[t] = "taker" /\ pc'[t] = "taker_trade"
      BY <1>0, <2>1 DEF TakerStatus, Goto, ThreadTypes, acctVars, bookVars
    <3> QED
      BY <1>1, <3>1, <3>2, <3>3
  <2>2. CASE MakerStatus(t)
    <3>1. pc[t] = "maker"
      BY <2>2 DEF MakerStatus
    <3>2. PICK f \in todo[t] :
            /\ NextMatch(t, f) /\ FillStatus(f.maker, f.vol, f.maker_filled)
            /\ Goto(t, "maker_trade") /\ UNCHANGED todo
      BY <1>1, <2>2, <3>1 DEF MakerStatus, Mapped
    <3>3. f.maker_filled \in BOOLEAN
      BY <1>0 DEF EventTypes, Matches
    <3>4. /\ UNCHANGED <<todo, cur, position, volume_left, frozen, rest, active_orders>>
          /\ pc'[t] = "maker_trade"
      BY <1>0, <2>2, <3>2 DEF MakerStatus, Goto, ThreadTypes, acctVars, bookVars
    <3> QED
      BY <1>1, <3>1, <3>2, <3>3, <3>4
  <2> QED
    BY <2>1, <2>2
<1>3. \A g \in todo[t] : (NextMatch(t, g)' <=> g = f) /\ (NextMatch(t, g) <=> g = f)
  <2>1. \A g \in todo[t] : NextMatch(t, g) => g = f
    BY <1>2, OneNext
  <2>2. \A g \in todo[t] : NextMatch(t, g)' <=> NextMatch(t, g)
    BY <1>2, StepSeenStays, NextStays
  <2> QED
    BY <1>2, <2>1, <2>2
<1>4. Executed(o)' = Executed(o)
  <2>1. ~RouteToMatchingEngine(t)
    BY <1>2 DEF RouteToMatchingEngine
  <2> QED
    BY <2>1, SameExecuted
<1>5. Due(t, o)' = Due(t, o)
  BY <1>2, <1>3 DEF Due
<1>6. ~CancelUnderWay(t, o) /\ ~CancelUnderWay(t, o)' /\ pc[t] # "cancel_status"
  BY <1>2 DEF CancelUnderWay
<1>7. CASE o # s
  <2>1. status'[o] = status[o]
    BY <1>0, <1>2, <1>7 DEF FillStatus, RouterTypes
  <2>2. Uncounted(t, o)' = Uncounted(t, o)
    BY <1>1, <1>2, <1>3, <1>7 DEF Uncounted
  <2> QED
    BY <1>2, <1>4, <1>5, <1>6, <2>1, <2>2, AgreesSame
<1>8. CASE o = s
  <2>1. filled => status'[o] = "Filled"
    BY <1>0, <1>2, <1>8 DEF FillStatus, RouterTypes
  <2>2. rest[o] = 0 /\ Uncounted(t, o)' = {} => filled
    <3>1. CASE pc[t] = "maker"
      BY <1>2, <1>8, <3>1 DEF FilledIsTold
    <3>2. CASE pc[t] = "taker"
      <4> SUFFICES ASSUME rest[o] = 0, Uncounted(t, o)' = {} PROVE f.taker_filled
        BY <1>2, <3>2
      <4>1. \A g \in todo[t] : g = f
        BY <1>2, <1>3, <1>8, <3>2 DEF Uncounted
      <4>2. LastMatch(t, f)
        BY <4>1 DEF LastMatch
      <4> QED
        BY <1>2, <1>8, <3>2, <4>2 DEF FilledIsTold
    <3> QED
      BY <1>2, <3>1, <3>2
  <2> QED
    BY <1>2, <1>4, <1>5, <1>6, <2>1, <2>2 DEF Agrees
<1> QED
  BY <1>7, <1>8

\* Every other step and call: a cancel goes through book, router and account; the
\* rest is about orders the book has not seen.
LEMMA QuietAgrees ==
    ASSUME OneThread, IInv, IInv', FilledIsTold, RejectedByFault,
           NEW t \in Threads, Step(t) \/ Call(t), ~RouteToMatchingEngine(t),
           pc[t] \notin Events, faults = 0, faults' = 0,
           NEW o \in OrderIds, engine_id[o] # 0, Agrees(t, o)
    PROVE  Agrees(t, o)'
<1>0. RouterTypes /\ AccountTypes /\ ThreadTypes /\ BookTypes /\ UnseenUntraded /\ CancelsSound
  BY DEF IInv, TypeOK
<1>1. /\ Executed(o)' = Executed(o)
      /\ Due(t, o)' = Due(t, o) /\ Uncounted(t, o)' = Uncounted(t, o)
  BY QuietStays, SameExecuted
<1>2. pc[t] \in PreRoute => cur[t] # o
  BY DEF IInv, RoutedOnce
<1>3. pc[t] # "reject"
  BY DEF RejectedByFault
<1>4. position' = position
  BY DEF Call, SubmitOrder, ClientCancel, Step, FokPrecheck, FreezeFunds,
     RegisterOrder, RouteError, RouteRefused, AcceptStatus, AcceptMap, TakerStatus,
     TakerTrade, MakerStatus, MakerTrade, TradeFails, IocCheck, CancelCheck, CancelBook,
     CancelStatus, CancelRelease, Events, acctVars
<1> DEFINE Same == /\ volume_left'[o] = volume_left[o] /\ rest'[o] = rest[o]
                   /\ frozen'[o] = frozen[o] /\ status'[o] = status[o]
                   /\ o \in active_orders' => o \in active_orders
<1>5. ASSUME Same, ~CancelUnderWay(t, o) PROVE Agrees(t, o)'
  BY <1>1, <1>4, <1>5, AgreesSame DEF CancelUnderWay
<1>6. CASE AcceptStatus(t) /\ cur[t] = o
  <2>1. /\ UNCHANGED <<volume_left, rest, frozen, active_orders>>
        /\ pc[t] = "accept" /\ ~CancelUnderWay(t, o)
    BY <1>6 DEF AcceptStatus, acctVars, bookVars, CancelUnderWay
  <2>2. Uncounted(t, o) = todo[t]
    BY <1>6, <2>1 DEF Uncounted
  <2>3. ~(rest[o] = 0 /\ Uncounted(t, o) = {})
    BY <1>6, <2>1, <2>2 DEF FilledIsTold
  <2> QED
    BY <1>1, <1>4, <2>1, <2>3 DEF Agrees
<1>7. CASE CancelBook(t) /\ cur[t] = o
  <2>1. pc[t] = "cancel_book" /\ ~CancelUnderWay(t, o)
        /\ UNCHANGED <<volume_left, frozen, status, active_orders>>
    BY <1>7 DEF CancelBook, acctVars, infoVars, CancelUnderWay
  <2>2. CASE rest[o] > 0
    <3>1. pc'[t] = "cancel_status" /\ cur'[t] = o
      BY <1>0, <1>7, <2>2 DEF CancelBook, Goto, ThreadTypes
    <3> QED
      BY <1>1, <1>4, <3>1 DEF Agrees, CancelUnderWay
  <2>3. CASE ~(rest[o] > 0)
    <3>1. rest' = rest
      BY <1>7, <2>3 DEF CancelBook
    <3> QED
      BY <1>5, <2>1, <3>1
  <2> QED
    BY <2>2, <2>3
<1>8. CASE CancelStatus(t) /\ cur[t] = o
  <2>1. /\ status'[o] = "Cancelled" /\ pc'[t] = "cancel_release" /\ cur'[t] = o
    BY <1>0, <1>8 DEF CancelStatus, Goto, ThreadTypes, RouterTypes
  <2> QED
    BY <1>1, <1>4, <2>1 DEF Agrees, CancelUnderWay
<1>9. CASE CancelRelease(t) /\ cur[t] = o
  <2>1. pc[t] = "cancel_release" /\ rest[o] = 0
    BY <1>0, <1>9 DEF CancelRelease, CancelsSound
  <2>2. /\ frozen'[o] = 0 /\ volume_left'[o] = 0 /\ o \notin active_orders'
        /\ status' = status /\ rest' = rest
    BY <1>0, <1>9 DEF CancelRelease, AccountTypes, infoVars, bookVars
  <2>3. Due(t, o) = {} /\ Volumes({}) = 0
    BY <2>1, IdleNoEvents, VolumesEmpty DEF Due, Cancelling
  <2> QED
    BY <1>1, <1>4, <2>1, <2>2, <2>3 DEF Agrees
<1>10. CASE cur[t] # o
  <2>1. Same
    BY <1>0, <1>10
    DEF AccountTypes, BookTypes, RouterTypes, Call, SubmitOrder, ClientCancel, Step,
        FokPrecheck, FreezeFunds, RegisterOrder, RouteError, RouteRefused, AcceptStatus,
        AcceptMap, TakerStatus, TakerTrade, MakerStatus, MakerTrade, TradeFails, IocCheck,
        CancelCheck, CancelBook, CancelStatus, CancelRelease, Events, acctVars, infoVars,
        bookVars
  <2> QED
    BY <1>5, <1>10, <2>1 DEF CancelUnderWay
<1>11. CASE /\ cur[t] = o /\ ~AcceptStatus(t) /\ ~CancelBook(t) /\ ~CancelStatus(t)
            /\ ~CancelRelease(t)
  <2>1. pc[t] \notin PreRoute \cup {"reject", "idle"}
    BY <1>0, <1>2, <1>3, <1>11 DEF ThreadTypes, OrderIds
  <2>2. AcceptMap(t) \/ IocCheck(t) \/ CancelCheck(t)
    BY <1>11, <2>1
    DEF Call, SubmitOrder, ClientCancel, Step, FokPrecheck, FreezeFunds, RegisterOrder,
        RouteError, RouteRefused, TakerStatus, TakerTrade, MakerStatus, MakerTrade,
        TradeFails, Events, PreRoute
  <2> QED
    BY <1>5, <2>2 DEF AcceptMap, IocCheck, CancelCheck, CancelUnderWay, acctVars, bookVars, infoVars
<1> QED
  BY <1>6, <1>7, <1>8, <1>9, <1>10, <1>11

\* Every step and call keeps SeenAgree.
LEMMA KeepSeenAgree ==
    ASSUME OneThread, IInv, IInv', EventsOpposed, EventsOpposed', MatchedSound,
           VolumeReady, FilledIsTold, Mapped, RejectedByFault, SeenAgree,
           NEW t \in Threads, Step(t) \/ Call(t)
    PROVE  SeenAgree'
<1> SUFFICES ASSUME faults' = 0, NEW o \in OrderIds, engine_id'[o] # 0
             PROVE  Agrees(t, o)'
  BY DEF SeenAgree, OneThread
<1>1. faults = 0
  BY OnlyGrow
<1>2. engine_id[o] # 0 => Agrees(t, o)
  BY <1>1 DEF SeenAgree
<1>3. CASE RouteToMatchingEngine(t)
  BY <1>2, <1>3, RouteAgrees DEF Step
<1>4. CASE ~RouteToMatchingEngine(t)
  <2>1. engine_id[o] # 0 /\ Agrees(t, o)
    BY <1>2, <1>4, NewArrival
  <2>2. CASE pc[t] \in Events
    <3>1. /\ Step(t)
          /\ TakerStatus(t) \/ TakerTrade(t) \/ MakerStatus(t) \/ MakerTrade(t)
      <4>1. ~TradeFails(t)
        BY <1>1, OnlyGrow DEF TradeFails
      <4>2. pc[t] = "taker" \/ pc[t] = "taker_trade" \/ pc[t] = "maker" \/ pc[t] = "maker_trade"
        BY ONLY <2>2 DEF Events
      <4> QED
        BY ONLY <4>1, <4>2, WhereSteps, Step(t) \/ Call(t) DEF Step
    <3> QED
      BY <2>1, <3>1, TakerTradeAgrees, MakerTradeAgrees, StatusAgrees
  <2>3. CASE pc[t] \notin Events
    BY <1>1, <1>4, <2>1, <2>3, QuietAgrees
  <2> QED
    BY <2>2, <2>3
<1> QED
  BY <1>3, <1>4

\* Every step and call keeps FilledIsTold: events are dealt with from the first to
\* the last, and the book of the only thread stays as it is meanwhile.
LEMMA KeepFilledIsTold ==
    ASSUME OneThread, IInv, IInv', FilledIsTold, NEW t \in Threads, Step(t) \/ Call(t)
    PROVE  FilledIsTold'
<1>0. ThreadTypes /\ BookTypes /\ EventTypes
  BY DEF IInv, TypeOK
<1> SUFFICES /\ pc'[t] = "accept" /\ todo'[t] = {} => rest'[cur'[t]] > 0
             /\ \A f \in todo'[t] :
                  /\ rest'[f.maker] = 0 => f.maker_filled
                  /\ LastMatch(t, f)' /\ rest'[cur'[t]] = 0 => f.taker_filled
  BY DEF FilledIsTold, OneThread
<1>1. CASE RouteToMatchingEngine(t)
  <2>1. PICK c \in OrderIds : /\ c = cur[t] /\ engine_id[c] = 0
                              /\ req[c].vol \in Nat \ {0}
    BY <1>1, Routing
  <2>2. PICK take \in [OrderIds -> Nat], left \in Nat :
          /\ left + SumFunction(take) = req[c].vol
          /\ rest' = [m \in OrderIds |-> IF m = c THEN left ELSE rest[m] - take[m]]
          /\ todo'[t] = MatchEvents(take, left)
          /\ \A m \in OrderIds : take[m] > 0 => m # c
    BY <1>1, <2>1, Routing
  <2>3. /\ cur'[t] = c /\ req' = req
        /\ \A m \in OrderIds \ {c} : engine_id'[m] = engine_id[m]
    BY <1>0, <1>1, <2>1 DEF RouteToMatchingEngine, Goto, infoVars, BookTypes
  <2>4. ASSUME todo'[t] = {} PROVE rest'[c] > 0
    <3>1. PICK evs : evs = EventsFor(take, left, c, c) /\ Volumes(evs) = Taken(take, c, c)
      BY EventVolumes
    <3>2. evs = {} /\ Volumes({}) = 0
      BY <2>2, <2>4, <3>1, VolumesEmpty DEF EventsFor
    <3>3. SumFunction(take) = 0
      BY <3>1, <3>2, TakenIs
    <3> QED
      BY <2>1, <2>2, <3>3
  <2>5. ASSUME NEW f \in todo'[t]
        PROVE  /\ rest'[f.maker] = 0 => f.maker_filled
               /\ LastMatch(t, f)' /\ rest'[c] = 0 => f.taker_filled
    <3> DEFINE hit == {n \in OrderIds : take[n] > 0}
    <3>1. PICK m \in hit :
            f = [maker |-> m, vol |-> take[m], maker_filled |-> take[m] = rest[m],
                 taker_filled |-> /\ left = 0
                                  /\ \A n \in hit : n = m \/ Ahead(req, engine_id, n, m)]
      BY <2>2 DEF MatchEvents
    <3>a. /\ f.maker = m /\ (f.maker_filled <=> take[m] = rest[m])
          /\ f.taker_filled <=> /\ left = 0
                                /\ \A n \in hit : n = m \/ Ahead(req, engine_id, n, m)
      BY ONLY <3>1
    <3>2. \A n \in hit : \E g \in todo'[t] : g.maker = n
      BY <2>2, EventsNamed
    <3>3. rest'[c] = left /\ rest'[m] = rest[m] - take[m] /\ rest[m] \in Nat /\ m \in OrderIds
      BY <1>0, <2>2, <3>1 DEF BookTypes
    <3>4. \A n \in hit : n # c
      BY <2>2
    <3>5. ASSUME LastMatch(t, f)', NEW n \in hit PROVE n = m \/ Ahead(req, engine_id, n, m)
      <4>1. PICK g \in todo'[t] : g.maker = n
        BY <3>2
      <4>2. g = f \/ Ahead(req', engine_id', g.maker, f.maker)
        BY <3>5 DEF LastMatch, Ahead
      <4>3. engine_id'[n] = engine_id[n] /\ engine_id'[m] = engine_id[m] /\ f.maker = m
        BY <2>3, <3>a, <3>3, <3>4
      <4> QED
        BY <2>3, <4>1, <4>2, <4>3 DEF Ahead
    <3>6. rest'[f.maker] = 0 => f.maker_filled
      <4>1. take[m] \in Nat
        BY <3>3
      <4> QED
        BY <3>a, <3>3, <4>1
    <3>7. LastMatch(t, f)' /\ rest'[c] = 0 => f.taker_filled
      BY <3>a, <3>3, <3>5
    <3> QED
      BY <3>6, <3>7
  <2> QED
    BY <2>3, <2>4, <2>5
<1>2. CASE ~RouteToMatchingEngine(t)
  <2>1. pc'[t] # "accept"
    <3>1. ASSUME pc'[t] = "accept" PROVE FALSE
      <4>1. Step(t) /\ pc[t] = "route"
        BY <3>1, OthersStay DEF Before
      <4> QED
        BY <1>0, <1>2, <3>1, <4>1
        DEF Step, FokPrecheck, FreezeFunds, RegisterOrder, RouteError, RouteRefused,
            AcceptStatus, AcceptMap, TakerStatus, TakerTrade, MakerStatus, MakerTrade,
            TradeFails, IocCheck, CancelCheck, CancelBook, CancelStatus, CancelRelease,
            Return, ThreadTypes
    <3> QED
      BY <3>1
  <2>2. ASSUME NEW f \in todo'[t]
        PROVE  /\ rest'[f.maker] = 0 => f.maker_filled
               /\ LastMatch(t, f)' /\ rest'[cur'[t]] = 0 => f.taker_filled
    <3>1. pc'[t] \in {"accept", "map"} \cup Events
      BY DEF IInv, EventsSound
    <3>2. Step(t) /\ pc[t] \in {"accept", "map"} \cup Events /\ cur'[t] = cur[t]
      <4>1. pc'[t] \in {"map"} \cup Events
        BY ONLY <2>1, <3>1
      <4>2. Step(t) /\ pc[t] \in Before(pc'[t]) /\ cur'[t] = cur[t]
        BY <4>1, OthersStay DEF Events
      <4>3. /\ Before("map") = {"accept"} /\ Before("taker_trade") = {"taker"}
            /\ Before("taker") = {"map", "maker", "maker_trade"}
            /\ Before("maker") = {"taker_trade"} /\ Before("maker_trade") = {"maker"}
        BY DEF Before
      <4> QED
        BY ONLY <4>1, <4>2, <4>3 DEF Events
    <3>3. rest' = rest /\ req' = req /\ engine_id' = engine_id
      <4>1. \/ AcceptStatus(t) \/ AcceptMap(t) \/ TakerStatus(t) \/ TakerTrade(t)
            \/ MakerStatus(t) \/ MakerTrade(t) \/ TradeFails(t)
        <5>1. \/ pc[t] = "accept" \/ pc[t] = "map" \/ pc[t] = "taker" \/ pc[t] = "taker_trade"
              \/ pc[t] = "maker" \/ pc[t] = "maker_trade"
          BY ONLY <3>2 DEF Events
        <5> QED
          BY ONLY <3>2, <5>1, WhereSteps DEF Step
      <4> QED
        BY ONLY <4>1
        DEF AcceptStatus, AcceptMap, TakerStatus, TakerTrade, MakerStatus, MakerTrade,
            TradeFails, infoVars, bookVars
    <3>4. \/ todo'[t] = todo[t]
          \/ \E g \in todo[t] : NextMatch(t, g) /\ todo'[t] = todo[t] \ {g}
      <4>1. CASE AcceptMap(t) \/ TradeFails(t)
        BY <1>0, <4>1 DEF AcceptMap, TradeFails, EventTypes
      <4>2. CASE MakerStatus(t)
        BY <1>0, <4>2 DEF MakerStatus, EventTypes
      <4>3. CASE MakerTrade(t)
        BY <1>0, <4>3 DEF MakerTrade, EventTypes
      <4>4. CASE todo' = todo
        BY <4>4
      <4> QED
        BY <3>2, <4>1, <4>2, <4>3, <4>4
        DEF Step, FokPrecheck, FreezeFunds, RegisterOrder, RouteError, RouteRefused,
            RouteToMatchingEngine, AcceptStatus, TakerStatus, TakerTrade, IocCheck,
            CancelCheck, CancelBook, CancelStatus, CancelRelease, Events
    <3>5. f \in todo[t]
      BY <3>4
    <3>6. ASSUME LastMatch(t, f)' PROVE LastMatch(t, f)
      <4>1. \A g \in todo'[t] : g = f \/ Ahead(req, engine_id, g.maker, f.maker)
        BY <3>3, <3>6 DEF LastMatch, Ahead
      <4>2. \A g \in todo[t] \ todo'[t] : Ahead(req, engine_id, g.maker, f.maker)
        BY <3>4, <3>5 DEF NextMatch
      <4> QED
        BY <3>5, <4>1, <4>2 DEF LastMatch
    <3> QED
      BY <3>2, <3>3, <3>5, <3>6 DEF FilledIsTold
  <2> QED
    BY <2>1, <2>2
<1> QED
  BY <1>1, <1>2

\* Every step and call keeps Mapped.
LEMMA KeepMapped ==
    ASSUME OneThread, IInv, Mapped, NEW t \in Threads, Step(t) \/ Call(t)
    PROVE  Mapped'
<1>0. ThreadTypes
  BY DEF IInv, TypeOK
<1> SUFFICES ASSUME NEW o \in OrderIds, engine_id'[o] # 0,
                    ~(cur'[t] = o /\ pc'[t] \in {"accept", "map"})
             PROVE  o \in engine_id_to_order'
  BY DEF Mapped, OneThread
<1>1. engine_id_to_order \subseteq engine_id_to_order'
  BY DEF Call, SubmitOrder, ClientCancel, Step, FokPrecheck, FreezeFunds,
      RegisterOrder, RouteError, RouteRefused, RouteToMatchingEngine, AcceptStatus,
      AcceptMap, TakerStatus, TakerTrade, MakerStatus, MakerTrade, TradeFails, IocCheck,
      CancelCheck, CancelBook, CancelStatus, CancelRelease, infoVars
<1>2. engine_id[o] # 0
  <2>1. ASSUME RouteToMatchingEngine(t), o = cur[t] PROVE FALSE
    BY <1>0, <2>1 DEF RouteToMatchingEngine, Goto, ThreadTypes
  <2> QED
    BY <2>1, NewArrival
<1>3. CASE cur[t] = o /\ pc[t] = "accept"
  <2>1. AcceptStatus(t)
    BY <1>3
    DEF Call, SubmitOrder, ClientCancel, Step, FokPrecheck, FreezeFunds, RegisterOrder,
        RouteError, RouteRefused, RouteToMatchingEngine, AcceptMap, TakerStatus,
        TakerTrade, MakerStatus, MakerTrade, TradeFails, IocCheck, CancelCheck,
        CancelBook, CancelStatus, CancelRelease
  <2> QED
    BY <1>0, <1>3, <2>1 DEF AcceptStatus, Goto, ThreadTypes
<1>4. CASE cur[t] = o /\ pc[t] = "map"
  <2>1. AcceptMap(t)
    BY <1>4
    DEF Call, SubmitOrder, ClientCancel, Step, FokPrecheck, FreezeFunds, RegisterOrder,
        RouteError, RouteRefused, RouteToMatchingEngine, AcceptStatus, TakerStatus,
        TakerTrade, MakerStatus, MakerTrade, TradeFails, IocCheck, CancelCheck,
        CancelBook, CancelStatus, CancelRelease
  <2> QED
    BY <1>4, <2>1 DEF AcceptMap
<1> QED
  BY <1>1, <1>2, <1>3, <1>4 DEF Mapped

\* Every step and call keeps VolumeReady: send_order writes the volume.
LEMMA KeepVolumeReady ==
    ASSUME OneThread, IInv, VolumeReady, NEW t \in Threads, Step(t) \/ Call(t)
    PROVE  VolumeReady'
<1>0. ThreadTypes /\ AccountTypes
  BY DEF IInv, TypeOK
<1> SUFFICES ASSUME pc'[t] \in {"register", "route"}
             PROVE  volume_left'[cur'[t]] = req'[cur'[t]].vol
  BY DEF VolumeReady, OneThread
<1>1. Step(t) /\ cur'[t] = cur[t] /\ pc[t] \in Before(pc'[t])
  BY OthersStay
<1>2. pc[t] \in {"freeze", "register"} /\ cur[t] \in OrderIds
  <2>1. pc[t] \in {"freeze", "register"}
    BY ONLY <1>1, pc'[t] \in {"register", "route"} DEF Before
  <2> QED
    BY <2>1, ServedOrder
<1>3. \/ FreezeFunds(t) /\ pc'[t] # "idle"
      \/ RegisterOrder(t) /\ pc[t] = "register"
  <2>1. FreezeFunds(t) \/ RegisterOrder(t)
    BY ONLY <1>1, <1>2, WhereSteps DEF Step
  <2> QED
    BY ONLY <1>2, <2>1, WhereSteps, pc'[t] \in {"register", "route"}
<1>4. CASE FreezeFunds(t) /\ pc'[t] # "idle"
  BY <1>0, <1>1, <1>2, <1>4 DEF FreezeFunds, Return, ThreadTypes, AccountTypes, infoVars
<1>5. CASE RegisterOrder(t) /\ pc[t] = "register"
  BY <1>1, <1>5 DEF RegisterOrder, VolumeReady, acctVars
<1> QED
  BY <1>3, <1>4, <1>5

\* Every step and call keeps StatusFollowsBook.
LEMMA KeepStatusFollowsBook ==
    ASSUME IInv, AcceptedFirst, StatusFollowsBook, NEW t \in Threads, Step(t) \/ Call(t)
    PROVE  StatusFollowsBook'
<1>0. ThreadTypes /\ RouterTypes
  BY DEF IInv, TypeOK
<1> SUFFICES ASSUME NEW o \in OrderIds
             PROVE  /\ engine_id'[o] = 0 =>
                         \/ status'[o] \in {"None", "Rejected"}
                         \/ \E u \in Threads : cur'[u] = o /\ pc'[u] = "route"
                    /\ engine_id'[o] # 0 /\ status'[o] \in {"None", "PendingRoute"} =>
                         \E u \in Threads : cur'[u] = o /\ pc'[u] = "accept"
  BY DEF StatusFollowsBook
<1>1. ASSUME engine_id'[o] = 0
      PROVE  \/ status'[o] \in {"None", "Rejected"}
             \/ \E u \in Threads : cur'[u] = o /\ pc'[u] = "route"
  <2>1. engine_id[o] = 0
    BY <1>1, OnlyGrow
  <2>2. CASE RegisterOrder(t) /\ o = cur[t]
    BY <1>0, <2>2 DEF RegisterOrder, Goto, ThreadTypes
  <2>3. CASE RouteError(t) \/ RouteRefused(t)
    BY <1>0, <2>1, <2>3, OthersStay DEF StatusFollowsBook, RouteError, RouteRefused, RouterTypes
  <2>4. CASE AcceptStatus(t) \/ CancelStatus(t) \/ TakerStatus(t) \/ MakerStatus(t)
    <3>1. pc[t] # "route" /\ pc[t] # "idle"
      BY <2>4 DEF AcceptStatus, CancelStatus, TakerStatus, MakerStatus
    <3>2. engine_id[cur[t]] # 0 /\ \A f \in todo[t] : engine_id[f.maker] # 0
      BY <2>4, EventOrders
      DEF AcceptStatus, CancelStatus, TakerStatus, MakerStatus, AcceptedFirst, Submitting,
          Events, IInv, CancelsSound
    <3>3. status'[o] = status[o]
      BY <1>0, <2>1, <2>4, <3>2
      DEF AcceptStatus, CancelStatus, TakerStatus, MakerStatus, FillStatus, RouterTypes
    <3> QED
      BY <2>1, <3>1, <3>3, OthersStay DEF StatusFollowsBook
  <2>5. CASE status'[o] = status[o] /\ pc[t] # "route"
    BY <2>1, <2>5, OthersStay DEF StatusFollowsBook
  <2>6. CASE RouteToMatchingEngine(t)
    <3>1. cur[t] # o
      <4>1. engine_id' = [engine_id EXCEPT ![cur[t]] =
                            1 + Cardinality({m \in OrderIds : engine_id[m] > 0})]
        BY <2>6 DEF RouteToMatchingEngine
      <4>2. 1 + Cardinality({m \in OrderIds : engine_id[m] > 0}) \in Nat \ {0}
        BY ArrivalNumber DEF IInv, TypeOK
      <4> QED
        BY <1>1, <4>1, <4>2 DEF IInv, TypeOK, BookTypes
    <3>2. status' = status
      BY <2>6 DEF RouteToMatchingEngine, infoVars
    <3> QED
      BY <2>1, <3>1, <3>2, OthersStay DEF StatusFollowsBook
  <2> QED
    BY <1>0, <2>2, <2>3, <2>4, <2>5, <2>6
    DEF Call, SubmitOrder, ClientCancel, Step, FokPrecheck, FreezeFunds, RegisterOrder,
        AcceptMap, TakerTrade, MakerTrade, TradeFails, IocCheck, CancelCheck, CancelBook,
        CancelRelease, infoVars, RouterTypes
<1>2. ASSUME engine_id'[o] # 0, status'[o] \in {"None", "PendingRoute"}
      PROVE  \E u \in Threads : cur'[u] = o /\ pc'[u] = "accept"
  <2>1. CASE engine_id[o] = 0
    <3>1. RouteToMatchingEngine(t) /\ o = cur[t]
      BY <1>2, <2>1, NewArrival
    <3> QED
      BY <1>0, <3>1 DEF RouteToMatchingEngine, Goto, ThreadTypes
  <2>2. CASE engine_id[o] # 0
    <3>1. status[o] \in {"None", "PendingRoute"}
      BY <1>2, <2>2, StatusMoves DEF Live, IInv, RoutedOnce, PreRoute
    <3>2. PICK u \in Threads : cur[u] = o /\ pc[u] = "accept"
      BY <2>2, <3>1 DEF StatusFollowsBook
    <3>3. CASE u # t
      BY <3>2, <3>3, OthersStay
    <3>4. CASE u = t
      <4>1. AcceptStatus(t)
        BY <3>2, <3>4
        DEF Call, SubmitOrder, ClientCancel, Step, FokPrecheck, FreezeFunds, RegisterOrder,
            RouteError, RouteRefused, RouteToMatchingEngine, AcceptMap, TakerStatus,
            TakerTrade, MakerStatus, MakerTrade, TradeFails, IocCheck, CancelCheck,
            CancelBook, CancelStatus, CancelRelease
      <4> QED
        BY <1>0, <1>2, <3>2, <3>4, <4>1 DEF AcceptStatus, RouterTypes
    <3> QED
      BY <3>3, <3>4
  <2> QED
    BY <2>1, <2>2
<1> QED
  BY <1>1, <1>2
------------------------------------------------------------------------------
SettledInv == FilledIsTold /\ Mapped /\ StatusFollowsBook /\ VolumeReady /\ SeenAgree

\* Between calls nothing is pending, and what agrees but for that agrees.
LEMMA NothingPending ==
    ASSUME IInv, RejectedByFault, StatusFollowsBook, SeenAgree
    PROVE  Settled
<1>0. BookTypes /\ RouterTypes
  BY DEF IInv, TypeOK
<1> SUFFICES ASSUME Idle, faults = 0, NEW o \in OrderIds, status[o] \notin {"None", "Rejected"}
             PROVE  /\ rest[o] > 0 <=> status[o] \in Live
                    /\ rest[o] = volume_left[o]
                    /\ rest[o] > 0 <=> o \in active_orders
                    /\ position[o] = Executed(o)
                    /\ frozen[o] > 0 => rest[o] > 0
  BY DEF Settled
<1>1. engine_id[o] # 0 /\ status[o] \notin {"None", "PendingRoute"}
  BY DEF StatusFollowsBook, Idle
<1>2. PICK t \in Threads : pc[t] = "idle"
  BY <1>1 DEF StatusFollowsBook, Idle
<1>3. Due(t, o) = {} /\ Uncounted(t, o) = {} /\ Volumes({}) = 0 /\ ~CancelUnderWay(t, o)
  BY <1>2, IdleNoEvents, VolumesEmpty DEF Due, Uncounted, CancelUnderWay
<1>4. Agrees(t, o)
  BY <1>1 DEF SeenAgree
<1>5. position[o] + 0 = Executed(o) /\ volume_left[o] = rest[o] + 0
  BY <1>3, <1>4 DEF Agrees
<1>6. rest[o] = 0 => /\ o \notin active_orders /\ frozen[o] = 0
                     /\ status[o] \in {"Filled", "Cancelled"}
  BY <1>2, <1>3, <1>4 DEF Agrees
<1>7. rest[o] > 0 => status[o] \in Live /\ o \in active_orders
  BY <1>0, <1>1 DEF IInv, FinalNotResting, RestingTracked, RejectedByFault, RouterTypes,
                   Statuses, Final, Live
<1>8. position[o] \in Nat /\ rest[o] \in Nat /\ frozen[o] \in Nat
  BY DEF IInv, TypeOK, AccountTypes, BookTypes
<1> QED
  BY <1>5, <1>6, <1>7, <1>8 DEF Live

\* submit_order, cancel_order and the events between them keep route status, account,
\* tracker and book in agreement: when no call is under way and none has met a fault,
\* an order is live exactly while it rests and is tracked, has left what rests, has
\* booked what was executed, and holds no margin once it is out.  With one call at a
\* time, for any orders, accounts and sequences of calls.
THEOREM SettledAlone == ASSUME OneThread PROVE Spec => []Settled
<1>1. Init => SettledInv
  BY DEF Init, SettledInv, FilledIsTold, Mapped, StatusFollowsBook, VolumeReady, SeenAgree
<1>2. /\ IInv /\ IInv' /\ EventsOpposed /\ EventsOpposed' /\ MatchedSound
      /\ RejectedByFault /\ AcceptedFirst /\ SettledInv /\ [Next]_vars
      => SettledInv'
  <2> SUFFICES ASSUME IInv, IInv', EventsOpposed, EventsOpposed', MatchedSound,
                      RejectedByFault, AcceptedFirst, SettledInv, [Next]_vars
               PROVE  SettledInv'
    OBVIOUS
  <2>1. CASE UNCHANGED vars
    <3> USE <2>1 DEF vars, infoVars, acctVars, bookVars, threadVars
    <3>1. \A t, f, g :
            /\ Ahead(req, engine_id, f, g)' <=> Ahead(req, engine_id, f, g)
            /\ NextMatch(t, f)' <=> NextMatch(t, f)
      BY DEF NextMatch, Ahead
    <3>2. \A t \in Threads, o \in OrderIds :
            /\ Due(t, o)' = Due(t, o) /\ Uncounted(t, o)' = Uncounted(t, o)
            /\ Executed(o)' = Executed(o)
      BY <3>1 DEF Due, Uncounted, Executed
    <3>3. FilledIsTold'
      BY <3>1 DEF SettledInv, FilledIsTold, LastMatch
    <3>4. Mapped' /\ StatusFollowsBook' /\ VolumeReady'
      BY DEF SettledInv, Mapped, StatusFollowsBook, VolumeReady
    <3>5. SeenAgree'
      <4> SUFFICES ASSUME NEW t \in Threads, NEW o \in OrderIds, Agrees(t, o)
                   PROVE  Agrees(t, o)'
        BY DEF SettledInv, SeenAgree
      <4> QED
        BY <3>2, AgreesSame DEF CancelUnderWay
    <3> QED
      BY <3>3, <3>4, <3>5 DEF SettledInv
  <2>2. ASSUME NEW t \in Threads, Step(t) \/ Call(t) PROVE SettledInv'
    BY <2>2, KeepFilledIsTold, KeepMapped, KeepStatusFollowsBook, KeepVolumeReady,
       KeepSeenAgree DEF SettledInv
  <2> QED
    BY <2>1, <2>2 DEF Next
<1>3. IInv /\ RejectedByFault /\ SettledInv => Settled
  BY NothingPending DEF SettledInv
<1> QED
  BY VolumesInvariance, StatusesInvariance, <1>1, <1>2, <1>3, PTL DEF Spec
===============================================================================
