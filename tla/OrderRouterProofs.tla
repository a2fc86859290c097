------------------------- MODULE OrderRouterProofs -------------------------
(***************************************************************************)
(* OrderRouter keeps its inductive invariant IInv, for every number of     *)
(* threads, accounts and orders, every set of requests and any bound on    *)
(* the faults.  One lemma per action; a lemma has one step per conjunct    *)
(* that the action can disturb.  Most actions only move one thread and     *)
(* empty the book, so what they keep is proved once, of Moves and          *)
(* BookOnlyShrinks.                                                        *)
(***************************************************************************)
EXTENDS OrderRouter, TLAPS, FiniteSetTheorems

(* What a step of one thread does to the threads' places. *)

\* Thread t goes on to one of steps with its order, or returns.
Moves(t, steps) ==
    /\ pc' \in [Threads -> Steps]
    /\ cur' \in [Threads -> 0..MaxOrders]
    /\ \A u \in Threads \ {t} : pc'[u] = pc[u] /\ cur'[u] = cur[u]
    /\ \/ pc'[t] \in steps \ {"idle"} /\ cur'[t] = cur[t] /\ pc[t] # "idle"
       \/ pc'[t] = "idle" /\ cur'[t] = 0

\* Orders do not come back into the book.
BookOnlyShrinks ==
    engine_id' = engine_id /\ \A o \in OrderIds : rest[o] = 0 => rest'[o] = 0

\* The bounds are numbers.
LEMMA Bounds == MaxOrders \in Nat /\ MaxFaults \in Nat
BY RouterAssumption DEF RouterAssumption

\* What RouterAssumption says of one submission.
LEMMA RequestFields ==
    ASSUME NEW r \in Requests
    PROVE  r.acct \in Accounts /\ r.vol \in Nat \ {0}
BY RouterAssumption DEF RouterAssumption

\* A thread that serves a call has an order.
LEMMA Serving ==
    ASSUME ThreadTypes, NEW t \in Threads, pc[t] # "idle"
    PROVE  cur[t] \in OrderIds
BY Bounds DEF ThreadTypes, OrderIds

\* An order the book has seen has a request behind it.
LEMMA Requested ==
    ASSUME RouterTypes, IssuedOnly, NEW o \in OrderIds, o < order_seq
    PROVE  req[o] \in Requests /\ req[o].acct \in Accounts /\ req[o].vol \in Nat \ {0}
BY RequestFields DEF IssuedOnly

\* The book knows only orders that have been given a number.
LEMMA SeenIsIssued ==
    ASSUME RouterTypes, IssuedOnly, NEW o \in OrderIds, engine_id[o] # 0
    PROVE  o < order_seq
BY Bounds DEF IssuedOnly, RouterTypes, OrderIds

\* receive_deal_sim touches the freeze and the position of the dealt order only.
LEMMA DealAccounts ==
    ASSUME AccountTypes, NEW o \in OrderIds, req[o].acct \in Accounts,
           NEW vol \in Nat \ {0}, Deal(o, vol)
    PROVE  /\ AccountTypes'
           /\ position'[o] > 0
           /\ \A p \in OrderIds \ {o} :
                frozen'[p] = frozen[p] /\ position'[p] = position[p]
BY DEF AccountTypes, Deal

\* The three ways a step ends, as moves.
LEMMA GotoMoves ==
    ASSUME NEW t \in Threads, NEW steps \in SUBSET Steps, NEW s \in steps,
           s # "idle", pc[t] # "idle", ThreadTypes, Goto(t, s)
    PROVE  Moves(t, steps) /\ pc'[t] = s /\ cur'[t] = cur[t]
BY DEF ThreadTypes, Goto, Moves

\* ... a return,
LEMMA ReturnMoves ==
    ASSUME NEW t \in Threads, NEW steps \in SUBSET Steps, ThreadTypes, Return(t)
    PROVE  Moves(t, steps)
BY Bounds DEF ThreadTypes, Return, Moves, Steps

\* ... and the end of an event, which keeps the order while events are left.
LEMMA AfterEventMoves ==
    ASSUME NEW t \in Threads, NEW steps \in SUBSET Steps, NEW left,
           {"taker", "ioc"} \subseteq steps, ThreadTypes, pc[t] # "idle",
           AfterEvent(t, left)
    PROVE  /\ Moves(t, steps)
           /\ left # {} => pc'[t] = "taker" /\ cur'[t] = cur[t]
<1>1. Moves(t, steps)
  BY Bounds, GotoMoves, ReturnMoves DEF AfterEvent
<1>2. left # {} => pc'[t] = "taker" /\ cur'[t] = cur[t]
  BY DEF AfterEvent, Goto, ThreadTypes
<1> QED
  BY <1>1, <1>2

\* What moves keep of the invariant: the threads' types,
LEMMA MovesThreadTypes ==
    ASSUME ThreadTypes, NEW t \in Threads, NEW steps, Moves(t, steps)
    PROVE  ThreadTypes'
BY DEF ThreadTypes, Moves

\* that only issued numbers are in use,
LEMMA MovesIssuedOnly ==
    ASSUME RouterTypes, ThreadTypes, IssuedOnly, NEW t \in Threads, NEW steps,
           Moves(t, steps), UNCHANGED <<order_seq, req, engine_id>>,
           engine_known' \subseteq engine_known \cup {cur[t]}
    PROVE  IssuedOnly'
<1>1. /\ \A o \in OrderIds : o < order_seq' => req'[o] \in Requests
      /\ \A o \in OrderIds : o >= order_seq' => engine_id'[o] = 0
  BY DEF IssuedOnly
<1>2. \A u \in Threads : cur'[u] < order_seq'
  BY DEF IssuedOnly, Moves, RouterTypes
<1>3. \A o \in engine_known' : o < order_seq'
  BY DEF IssuedOnly
<1> QED
  BY <1>1, <1>2, <1>3 DEF IssuedOnly

\* that one thread routes an order,
LEMMA MovesRoutedOnce ==
    ASSUME ThreadTypes, RoutedOnce, NEW t \in Threads, NEW steps, Moves(t, steps),
           UNCHANGED engine_id,
           pc[t] \in PreRoute \/ steps \cap PreRoute = {}
    PROVE  RoutedOnce'
<1>1. \A u \in Threads :
         pc'[u] \in PreRoute => pc[u] \in PreRoute /\ cur'[u] = cur[u]
  BY DEF Moves, PreRoute
<1> QED
  BY <1>1 DEF RoutedOnce

\* that an order about to rest is frozen and tracked,
LEMMA MovesReadyToRest ==
    ASSUME ThreadTypes, RoutedOnce, ReadyToRest, NEW t \in Threads, NEW steps,
           Moves(t, steps), UNCHANGED req,
           steps \cap {"register", "route"} = {},
           \A o \in OrderIds : engine_id[o] = 0 =>
               /\ frozen'[o] = frozen[o]
               /\ o \in active_orders => o \in active_orders'
    PROVE  ReadyToRest'
<1>1. \A u \in Threads : pc'[u] \in {"register", "route"} =>
         /\ pc'[u] = pc[u] /\ cur'[u] = cur[u]
         /\ engine_id[cur[u]] = 0 /\ cur[u] \in OrderIds
  BY Bounds DEF Moves, RoutedOnce, PreRoute, ThreadTypes, OrderIds
<1> QED
  BY <1>1 DEF ReadyToRest

\* that the events still to be handled are right,
LEMMA MovesEventsSound ==
    ASSUME ThreadTypes, EventTypes, EventsSound, NEW t \in Threads, NEW steps,
           Moves(t, steps), BookOnlyShrinks,
           \A u \in Threads : todo'[u] \subseteq todo[u],
           \A f \in todo'[t] : /\ pc'[t] \in {"accept", "map"} \cup Events
                               /\ cur'[t] = cur[t]
    PROVE  EventsSound'
<1> SUFFICES ASSUME NEW u \in Threads, NEW f \in todo'[u]
             PROVE  /\ pc'[u] \in {"accept", "map"} \cup Events
                    /\ engine_id'[cur'[u]] # 0
                    /\ engine_id'[f.maker] # 0
                    /\ f.taker_filled => rest'[cur'[u]] = 0
                    /\ f.maker_filled => rest'[f.maker] = 0
  BY DEF EventsSound
<1>1. f \in todo[u] /\ f.maker \in OrderIds
  BY DEF EventTypes, Matches
<1>2. pc'[u] \in {"accept", "map"} \cup Events /\ cur'[u] = cur[u]
  BY <1>1 DEF Moves, EventsSound
<1>3. cur[u] \in OrderIds
  BY <1>1, Bounds DEF ThreadTypes, EventsSound, Events, OrderIds
<1> QED
  BY <1>1, <1>2, <1>3 DEF EventsSound, BookOnlyShrinks

\* and that an accepted cancel emptied the order.
LEMMA MovesCancelsSound ==
    ASSUME ThreadTypes, CancelsSound, NEW t \in Threads, NEW steps,
           Moves(t, steps), BookOnlyShrinks,
           steps \cap {"cancel_status", "cancel_release"} = {}
    PROVE  CancelsSound'
<1> SUFFICES ASSUME NEW u \in Threads,
                    pc'[u] \in {"cancel_status", "cancel_release"}
             PROVE  engine_id'[cur'[u]] # 0 /\ rest'[cur'[u]] = 0
  BY DEF CancelsSound
<1>1. pc'[u] = pc[u] /\ cur'[u] = cur[u]
  BY DEF Moves
<1>2. cur[u] \in OrderIds
  BY <1>1, Bounds DEF ThreadTypes, OrderIds
<1> QED
  BY <1>1, <1>2 DEF CancelsSound, BookOnlyShrinks

\* FokPrecheck keeps the invariant: check_fok_fulfillable.
LEMMA FokPrecheckStep ==
    ASSUME IInv, NEW t \in Threads, FokPrecheck(t)
    PROVE  IInv'
<1>0. RouterTypes /\ AccountTypes /\ BookTypes /\ ThreadTypes /\ EventTypes
    /\ FinalNotResting /\ RestingTracked /\ RestingCovered /\ IssuedOnly /\ RoutedOnce
    /\ UnseenUntraded /\ ReadyToRest /\ EventsSound /\ CancelsSound
  BY DEF IInv, TypeOK
<1>m. Moves(t, {"freeze"})
  BY <1>0, GotoMoves, ReturnMoves, AfterEventMoves
  DEF FokPrecheck, Steps, PreRoute, Events, Cancelling
<1>1. RouterTypes'
  BY <1>0, <1>m, Bounds
  DEF RouterTypes, ThreadTypes, EventTypes, FokPrecheck, Moves, infoVars, acctVars,
      bookVars, OrderIds, Statuses, Live, Final, Matches
<1>2. AccountTypes'
  BY <1>0, <1>m, RequestFields, Bounds
  DEF AccountTypes, RouterTypes, IssuedOnly, ThreadTypes, EventTypes, FokPrecheck,
      Moves, infoVars, acctVars, bookVars, OrderIds, Matches
<1>3. BookTypes'
  BY <1>0, <1>m, Bounds
  DEF BookTypes, ThreadTypes, FokPrecheck, Moves, infoVars, acctVars, bookVars,
      OrderIds, Matches
<1>4. ThreadTypes'
  BY <1>0, <1>m, MovesThreadTypes DEF FokPrecheck
<1>5. EventTypes'
  BY <1>0, <1>m, Bounds
  DEF EventTypes, ThreadTypes, FokPrecheck, Moves, infoVars, acctVars, bookVars,
      OrderIds, Matches
<1>6. FinalNotResting'
  BY <1>0, <1>m, Bounds
  DEF FinalNotResting, RouterTypes, BookTypes, ThreadTypes, EventTypes,
      UnseenUntraded, EventsSound, CancelsSound, FokPrecheck, Moves, infoVars,
      acctVars, bookVars, OrderIds, Matches
<1>7. RestingTracked'
  BY <1>0, <1>m, Bounds
  DEF RestingTracked, RouterTypes, BookTypes, ThreadTypes, EventTypes, EventsSound,
      CancelsSound, FokPrecheck, Moves, infoVars, acctVars, bookVars, OrderIds,
      Matches
<1>8. RestingCovered'
  BY <1>0, <1>m, RequestFields, Bounds
  DEF RestingCovered, BookTypes, ThreadTypes, EventTypes, AccountTypes,
      UnseenUntraded, RoutedOnce, EventsSound, CancelsSound, FokPrecheck, Moves,
      infoVars, acctVars, bookVars, OrderIds, Matches
<1>9. IssuedOnly'
  BY <1>0, <1>m, MovesIssuedOnly DEF FokPrecheck, infoVars, bookVars
<1>10. RoutedOnce'
  BY <1>0, <1>m, MovesRoutedOnce DEF FokPrecheck, PreRoute, bookVars
<1>11. UnseenUntraded'
  BY <1>0, <1>m, Bounds
  DEF UnseenUntraded, RouterTypes, BookTypes, ThreadTypes, EventTypes, AccountTypes,
      EventsSound, CancelsSound, FokPrecheck, Moves, infoVars, acctVars, bookVars,
      OrderIds, Matches
<1>12. ReadyToRest'
  BY <1>0, <1>m, MovesReadyToRest DEF FokPrecheck, infoVars, acctVars
<1>13. EventsSound'
  BY <1>0, <1>m, MovesEventsSound
  DEF FokPrecheck, BookOnlyShrinks, bookVars, Events, EventTypes, ThreadTypes,
      Moves, EventsSound
<1>14. CancelsSound'
  BY <1>0, <1>m, MovesCancelsSound DEF FokPrecheck, BookOnlyShrinks, bookVars
<1> QED
  BY <1>1, <1>2, <1>3, <1>4, <1>5, <1>6, <1>7, <1>8, <1>9, <1>10, <1>11, <1>12,
     <1>13, <1>14
  DEF IInv, TypeOK

\* RouteError keeps the invariant: the Err arm of submit_order.
LEMMA RouteErrorStep ==
    ASSUME IInv, NEW t \in Threads, RouteError(t)
    PROVE  IInv'
<1>0. RouterTypes /\ AccountTypes /\ BookTypes /\ ThreadTypes /\ EventTypes
    /\ FinalNotResting /\ RestingTracked /\ RestingCovered /\ IssuedOnly /\ RoutedOnce
    /\ UnseenUntraded /\ ReadyToRest /\ EventsSound /\ CancelsSound
  BY DEF IInv, TypeOK
<1>m. Moves(t, {})
  BY <1>0, GotoMoves, ReturnMoves, AfterEventMoves
  DEF RouteError, Steps, PreRoute, Events, Cancelling
<1>1. RouterTypes'
  BY <1>0, <1>m, Bounds
  DEF RouterTypes, ThreadTypes, EventTypes, RouteError, Moves, infoVars, acctVars,
      bookVars, OrderIds, Statuses, Live, Final, Matches
<1>2. AccountTypes'
  BY <1>0, <1>m, RequestFields, Bounds
  DEF AccountTypes, RouterTypes, IssuedOnly, ThreadTypes, EventTypes, RouteError,
      Moves, infoVars, acctVars, bookVars, OrderIds, Matches
<1>3. BookTypes'
  BY <1>0, <1>m, Bounds
  DEF BookTypes, ThreadTypes, RouteError, Moves, infoVars, acctVars, bookVars,
      OrderIds, Matches
<1>4. ThreadTypes'
  BY <1>0, <1>m, MovesThreadTypes DEF RouteError
<1>5. EventTypes'
  BY <1>0, <1>m, Bounds
  DEF EventTypes, ThreadTypes, RouteError, Moves, infoVars, acctVars, bookVars,
      OrderIds, Matches
<1>6. FinalNotResting'
  BY <1>0, <1>m, Bounds
  DEF FinalNotResting, RouterTypes, BookTypes, ThreadTypes, EventTypes,
      UnseenUntraded, EventsSound, CancelsSound, RouteError, Moves, infoVars,
      acctVars, bookVars, OrderIds, Matches
<1>7. RestingTracked'
  BY <1>0, <1>m, Bounds
  DEF RestingTracked, RouterTypes, BookTypes, ThreadTypes, EventTypes, EventsSound,
      CancelsSound, RouteError, Moves, infoVars, acctVars, bookVars, OrderIds,
      Matches
<1>8. RestingCovered'
  BY <1>0, <1>m, RequestFields, Bounds
  DEF RestingCovered, BookTypes, ThreadTypes, EventTypes, AccountTypes,
      UnseenUntraded, RoutedOnce, EventsSound, CancelsSound, RouteError, Moves,
      infoVars, acctVars, bookVars, OrderIds, Matches
<1>9. IssuedOnly'
  BY <1>0, <1>m, MovesIssuedOnly DEF RouteError, infoVars, bookVars
<1>10. RoutedOnce'
  BY <1>0, <1>m, MovesRoutedOnce DEF RouteError, PreRoute, bookVars
<1>11. UnseenUntraded'
  BY <1>0, <1>m, Bounds
  DEF UnseenUntraded, RouterTypes, BookTypes, ThreadTypes, EventTypes, AccountTypes,
      EventsSound, CancelsSound, RouteError, Moves, infoVars, acctVars, bookVars,
      OrderIds, Matches
<1>12. ReadyToRest'
  BY <1>0, <1>m, MovesReadyToRest DEF RouteError, infoVars, acctVars
<1>13. EventsSound'
  BY <1>0, <1>m, MovesEventsSound
  DEF RouteError, BookOnlyShrinks, bookVars, Events, EventTypes, ThreadTypes, Moves,
      EventsSound
<1>14. CancelsSound'
  BY <1>0, <1>m, MovesCancelsSound DEF RouteError, BookOnlyShrinks, bookVars
<1> QED
  BY <1>1, <1>2, <1>3, <1>4, <1>5, <1>6, <1>7, <1>8, <1>9, <1>10, <1>11, <1>12,
     <1>13, <1>14
  DEF IInv, TypeOK

\* RouteRefused keeps the invariant: a refusal of the book.
LEMMA RouteRefusedStep ==
    ASSUME IInv, NEW t \in Threads, RouteRefused(t)
    PROVE  IInv'
<1>0. RouterTypes /\ AccountTypes /\ BookTypes /\ ThreadTypes /\ EventTypes
    /\ FinalNotResting /\ RestingTracked /\ RestingCovered /\ IssuedOnly /\ RoutedOnce
    /\ UnseenUntraded /\ ReadyToRest /\ EventsSound /\ CancelsSound
  BY DEF IInv, TypeOK
<1>m. Moves(t, {})
  BY <1>0, GotoMoves, ReturnMoves, AfterEventMoves
  DEF RouteRefused, Steps, PreRoute, Events, Cancelling
<1>1. RouterTypes'
  BY <1>0, <1>m, Bounds
  DEF RouterTypes, ThreadTypes, EventTypes, RouteRefused, Moves, infoVars, acctVars,
      bookVars, OrderIds, Statuses, Live, Final, Matches
<1>2. AccountTypes'
  BY <1>0, <1>m, RequestFields, Bounds
  DEF AccountTypes, RouterTypes, IssuedOnly, ThreadTypes, EventTypes, RouteRefused,
      Moves, infoVars, acctVars, bookVars, OrderIds, Matches
<1>3. BookTypes'
  BY <1>0, <1>m, Bounds
  DEF BookTypes, ThreadTypes, RouteRefused, Moves, infoVars, acctVars, bookVars,
      OrderIds, Matches
<1>4. ThreadTypes'
  BY <1>0, <1>m, MovesThreadTypes DEF RouteRefused
<1>5. EventTypes'
  BY <1>0, <1>m, Bounds
  DEF EventTypes, ThreadTypes, RouteRefused, Moves, infoVars, acctVars, bookVars,
      OrderIds, Matches
<1>6. FinalNotResting'
  BY <1>0, <1>m, Bounds
  DEF FinalNotResting, RouterTypes, BookTypes, ThreadTypes, EventTypes,
      UnseenUntraded, EventsSound, CancelsSound, RouteRefused, Moves, infoVars,
      acctVars, bookVars, OrderIds, Matches
<1>7. RestingTracked'
  BY <1>0, <1>m, Bounds
  DEF RestingTracked, RouterTypes, BookTypes, ThreadTypes, EventTypes, EventsSound,
      CancelsSound, RouteRefused, Moves, infoVars, acctVars, bookVars, OrderIds,
      Matches
<1>8. RestingCovered'
  BY <1>0, <1>m, RequestFields, Bounds
  DEF RestingCovered, BookTypes, ThreadTypes, EventTypes, AccountTypes,
      UnseenUntraded, RoutedOnce, EventsSound, CancelsSound, RouteRefused, Moves,
      infoVars, acctVars, bookVars, OrderIds, Matches
<1>9. IssuedOnly'
  BY <1>0, <1>m, MovesIssuedOnly DEF RouteRefused, infoVars, bookVars
<1>10. RoutedOnce'
  BY <1>0, <1>m, MovesRoutedOnce DEF RouteRefused, PreRoute, bookVars
<1>11. UnseenUntraded'
  BY <1>0, <1>m, Bounds
  DEF UnseenUntraded, RouterTypes, BookTypes, ThreadTypes, EventTypes, AccountTypes,
      EventsSound, CancelsSound, RouteRefused, Moves, infoVars, acctVars, bookVars,
      OrderIds, Matches
<1>12. ReadyToRest'
  BY <1>0, <1>m, MovesReadyToRest DEF RouteRefused, infoVars, acctVars
<1>13. EventsSound'
  BY <1>0, <1>m, MovesEventsSound
  DEF RouteRefused, BookOnlyShrinks, bookVars, Events, EventTypes, ThreadTypes,
      Moves, EventsSound
<1>14. CancelsSound'
  BY <1>0, <1>m, MovesCancelsSound DEF RouteRefused, BookOnlyShrinks, bookVars
<1> QED
  BY <1>1, <1>2, <1>3, <1>4, <1>5, <1>6, <1>7, <1>8, <1>9, <1>10, <1>11, <1>12,
     <1>13, <1>14
  DEF IInv, TypeOK

\* AcceptStatus keeps the invariant: the status half of Accepted.
LEMMA AcceptStatusStep ==
    ASSUME IInv, NEW t \in Threads, AcceptStatus(t)
    PROVE  IInv'
<1>0. RouterTypes /\ AccountTypes /\ BookTypes /\ ThreadTypes /\ EventTypes
    /\ FinalNotResting /\ RestingTracked /\ RestingCovered /\ IssuedOnly /\ RoutedOnce
    /\ UnseenUntraded /\ ReadyToRest /\ EventsSound /\ CancelsSound
  BY DEF IInv, TypeOK
<1>m. Moves(t, {"map"}) /\ pc'[t] = "map" /\ cur'[t] = cur[t]
  BY <1>0, GotoMoves DEF AcceptStatus, Steps, PreRoute, Events
<1>1. RouterTypes'
  BY <1>0, Serving DEF RouterTypes, AcceptStatus, Statuses, Live
<1>2. AccountTypes'
  BY <1>0, <1>m, RequestFields, Bounds
  DEF AccountTypes, RouterTypes, IssuedOnly, ThreadTypes, EventTypes, AcceptStatus,
      Moves, infoVars, acctVars, bookVars, OrderIds, Matches
<1>3. BookTypes'
  BY <1>0, <1>m, Bounds
  DEF BookTypes, ThreadTypes, AcceptStatus, Moves, infoVars, acctVars, bookVars,
      OrderIds, Matches
<1>4. ThreadTypes'
  BY <1>0, <1>m, MovesThreadTypes DEF AcceptStatus
<1>5. EventTypes'
  BY <1>0, <1>m, Bounds
  DEF EventTypes, ThreadTypes, AcceptStatus, Moves, infoVars, acctVars, bookVars,
      OrderIds, Matches
<1>6. FinalNotResting'
  BY <1>0, <1>m, Bounds
  DEF FinalNotResting, RouterTypes, BookTypes, ThreadTypes, EventTypes,
      UnseenUntraded, EventsSound, CancelsSound, AcceptStatus, Moves, infoVars,
      acctVars, bookVars, OrderIds, Matches
<1>7. RestingTracked'
  BY <1>0, <1>m, Bounds
  DEF RestingTracked, RouterTypes, BookTypes, ThreadTypes, EventTypes, EventsSound,
      CancelsSound, AcceptStatus, Moves, infoVars, acctVars, bookVars, OrderIds,
      Matches
<1>8. RestingCovered'
  BY <1>0, <1>m, RequestFields, Bounds
  DEF RestingCovered, BookTypes, ThreadTypes, EventTypes, AccountTypes,
      UnseenUntraded, RoutedOnce, EventsSound, CancelsSound, AcceptStatus, Moves,
      infoVars, acctVars, bookVars, OrderIds, Matches
<1>9. IssuedOnly'
  BY <1>0, <1>m, MovesIssuedOnly DEF AcceptStatus, infoVars, bookVars
<1>10. RoutedOnce'
  BY <1>0, <1>m, MovesRoutedOnce DEF AcceptStatus, PreRoute, bookVars
<1>11. UnseenUntraded'
  BY <1>0, <1>m, Bounds
  DEF UnseenUntraded, RouterTypes, BookTypes, ThreadTypes, EventTypes, AccountTypes,
      EventsSound, CancelsSound, AcceptStatus, Moves, infoVars, acctVars, bookVars,
      OrderIds, Matches
<1>12. ReadyToRest'
  BY <1>0, <1>m, MovesReadyToRest DEF AcceptStatus, infoVars, acctVars
<1>13. EventsSound'
  BY <1>0, <1>m, MovesEventsSound DEF AcceptStatus, BookOnlyShrinks, bookVars, Events
<1>14. CancelsSound'
  BY <1>0, <1>m, MovesCancelsSound DEF AcceptStatus, BookOnlyShrinks, bookVars
<1> QED
  BY <1>1, <1>2, <1>3, <1>4, <1>5, <1>6, <1>7, <1>8, <1>9, <1>10, <1>11, <1>12,
     <1>13, <1>14
  DEF IInv, TypeOK

\* AcceptMap keeps the invariant: the reverse map and the accepted report.
LEMMA AcceptMapStep ==
    ASSUME IInv, NEW t \in Threads, AcceptMap(t)
    PROVE  IInv'
<1>0. RouterTypes /\ AccountTypes /\ BookTypes /\ ThreadTypes /\ EventTypes
    /\ FinalNotResting /\ RestingTracked /\ RestingCovered /\ IssuedOnly /\ RoutedOnce
    /\ UnseenUntraded /\ ReadyToRest /\ EventsSound /\ CancelsSound
  BY DEF IInv, TypeOK
<1>m. Moves(t, {"taker", "ioc", "reject"})
  BY <1>0, GotoMoves, ReturnMoves, AfterEventMoves
  DEF AcceptMap, Steps, PreRoute, Events, Cancelling
<1>1. RouterTypes'
  BY <1>0, Serving DEF RouterTypes, AcceptMap
<1>2. AccountTypes'
  BY <1>0, <1>m, RequestFields, Bounds
  DEF AccountTypes, RouterTypes, IssuedOnly, ThreadTypes, EventTypes, AcceptMap,
      Moves, infoVars, acctVars, bookVars, OrderIds, Matches
<1>3. BookTypes'
  BY <1>0, <1>m, Bounds, SMTT(60)
  DEF BookTypes, ThreadTypes, AcceptMap, Moves, infoVars, acctVars, bookVars,
      OrderIds, Matches
<1>4. ThreadTypes'
  BY <1>0, <1>m, MovesThreadTypes DEF AcceptMap
<1>5. EventTypes'
  BY <1>0, <1>m, Bounds
  DEF EventTypes, ThreadTypes, AcceptMap, Moves, infoVars, acctVars, bookVars,
      OrderIds, Matches
<1>6. FinalNotResting'
  BY <1>0, <1>m, Bounds
  DEF FinalNotResting, RouterTypes, BookTypes, ThreadTypes, EventTypes,
      UnseenUntraded, EventsSound, CancelsSound, AcceptMap, Moves, infoVars,
      acctVars, bookVars, OrderIds, Matches
<1>7. RestingTracked'
  BY <1>0, <1>m, Bounds
  DEF RestingTracked, RouterTypes, BookTypes, ThreadTypes, EventTypes, EventsSound,
      CancelsSound, AcceptMap, Moves, infoVars, acctVars, bookVars, OrderIds,
      Matches
<1>8. RestingCovered'
  BY <1>0, <1>m, RequestFields, Bounds
  DEF RestingCovered, BookTypes, ThreadTypes, EventTypes, AccountTypes,
      UnseenUntraded, RoutedOnce, EventsSound, CancelsSound, AcceptMap, Moves,
      infoVars, acctVars, bookVars, OrderIds, Matches
<1>9. IssuedOnly'
  BY <1>0, <1>m, MovesIssuedOnly DEF AcceptMap, infoVars, bookVars
<1>10. RoutedOnce'
  BY <1>0, <1>m, MovesRoutedOnce DEF AcceptMap, PreRoute, bookVars
<1>11. UnseenUntraded'
  BY <1>0, <1>m, Bounds
  DEF UnseenUntraded, RouterTypes, BookTypes, ThreadTypes, EventTypes, AccountTypes,
      EventsSound, CancelsSound, AcceptMap, Moves, infoVars, acctVars, bookVars,
      OrderIds, Matches
<1>12. ReadyToRest'
  BY <1>0, <1>m, MovesReadyToRest DEF AcceptMap, infoVars, acctVars
<1>13. EventsSound'
  BY <1>0, <1>m, AfterEventMoves, GotoMoves, MovesEventsSound
  DEF AcceptMap, BookOnlyShrinks, bookVars, EventTypes, Events, Steps, PreRoute
<1>14. CancelsSound'
  BY <1>0, <1>m, MovesCancelsSound DEF AcceptMap, BookOnlyShrinks, bookVars
<1> QED
  BY <1>1, <1>2, <1>3, <1>4, <1>5, <1>6, <1>7, <1>8, <1>9, <1>10, <1>11, <1>12,
     <1>13, <1>14
  DEF IInv, TypeOK

\* TakerStatus keeps the invariant: the taker's status.
LEMMA TakerStatusStep ==
    ASSUME IInv, NEW t \in Threads, TakerStatus(t)
    PROVE  IInv'
<1>0. RouterTypes /\ AccountTypes /\ BookTypes /\ ThreadTypes /\ EventTypes
    /\ FinalNotResting /\ RestingTracked /\ RestingCovered /\ IssuedOnly /\ RoutedOnce
    /\ UnseenUntraded /\ ReadyToRest /\ EventsSound /\ CancelsSound
  BY DEF IInv, TypeOK
<1>m. Moves(t, {"taker_trade"}) /\ pc'[t] = "taker_trade" /\ cur'[t] = cur[t]
  BY <1>0, GotoMoves DEF TakerStatus, Steps, PreRoute, Events
<1>1. RouterTypes'
  BY <1>0, <1>m, Bounds, SMTT(60)
  DEF RouterTypes, ThreadTypes, EventTypes, TakerStatus, FillStatus, NextMatch,
      Moves, infoVars, acctVars, bookVars, OrderIds, Statuses, Live, Final, Matches
<1>2. AccountTypes'
  BY <1>0, <1>m, RequestFields, Bounds
  DEF AccountTypes, RouterTypes, IssuedOnly, ThreadTypes, EventTypes, TakerStatus,
      FillStatus, NextMatch, Moves, infoVars, acctVars, bookVars, OrderIds, Matches
<1>3. BookTypes'
  BY <1>0, <1>m, Bounds
  DEF BookTypes, ThreadTypes, TakerStatus, FillStatus, NextMatch, Moves, infoVars,
      acctVars, bookVars, OrderIds, Matches
<1>4. ThreadTypes'
  BY <1>0, <1>m, MovesThreadTypes DEF TakerStatus, FillStatus, NextMatch
<1>5. EventTypes'
  BY <1>0, <1>m, Bounds
  DEF EventTypes, ThreadTypes, TakerStatus, FillStatus, NextMatch, Moves, infoVars,
      acctVars, bookVars, OrderIds, Matches
<1>6. FinalNotResting'
  BY <1>0, <1>m, Bounds
  DEF FinalNotResting, RouterTypes, BookTypes, ThreadTypes, EventTypes,
      UnseenUntraded, EventsSound, CancelsSound, TakerStatus, FillStatus, NextMatch,
      Moves, infoVars, acctVars, bookVars, OrderIds, Matches
<1>7. RestingTracked'
  BY <1>0, <1>m, Bounds
  DEF RestingTracked, RouterTypes, BookTypes, ThreadTypes, EventTypes, EventsSound,
      CancelsSound, TakerStatus, FillStatus, NextMatch, Moves, infoVars, acctVars,
      bookVars, OrderIds, Matches
<1>8. RestingCovered'
  BY <1>0, <1>m, RequestFields, Bounds
  DEF RestingCovered, BookTypes, ThreadTypes, EventTypes, AccountTypes,
      UnseenUntraded, RoutedOnce, EventsSound, CancelsSound, TakerStatus,
      FillStatus, NextMatch, Moves, infoVars, acctVars, bookVars, OrderIds, Matches
<1>9. IssuedOnly'
  BY <1>0, <1>m, MovesIssuedOnly
  DEF TakerStatus, FillStatus, NextMatch, infoVars, bookVars
<1>10. RoutedOnce'
  BY <1>0, <1>m, MovesRoutedOnce
  DEF TakerStatus, FillStatus, NextMatch, PreRoute, bookVars
<1>11. UnseenUntraded'
  BY <1>0, <1>m, Bounds
  DEF UnseenUntraded, RouterTypes, BookTypes, ThreadTypes, EventTypes, AccountTypes,
      EventsSound, CancelsSound, TakerStatus, FillStatus, NextMatch, Moves,
      infoVars, acctVars, bookVars, OrderIds, Matches
<1>12. ReadyToRest'
  BY <1>0, <1>m, MovesReadyToRest
  DEF TakerStatus, FillStatus, NextMatch, infoVars, acctVars
<1>13. EventsSound'
  BY <1>0, <1>m, MovesEventsSound
  DEF TakerStatus, FillStatus, NextMatch, BookOnlyShrinks, bookVars, Events
<1>14. CancelsSound'
  BY <1>0, <1>m, MovesCancelsSound
  DEF TakerStatus, FillStatus, NextMatch, BookOnlyShrinks, bookVars
<1> QED
  BY <1>1, <1>2, <1>3, <1>4, <1>5, <1>6, <1>7, <1>8, <1>9, <1>10, <1>11, <1>12,
     <1>13, <1>14
  DEF IInv, TypeOK

\* TradeFails keeps the invariant: a WAL fault in handle_trade_new.
LEMMA TradeFailsStep ==
    ASSUME IInv, NEW t \in Threads, TradeFails(t)
    PROVE  IInv'
<1>0. RouterTypes /\ AccountTypes /\ BookTypes /\ ThreadTypes /\ EventTypes
    /\ FinalNotResting /\ RestingTracked /\ RestingCovered /\ IssuedOnly /\ RoutedOnce
    /\ UnseenUntraded /\ ReadyToRest /\ EventsSound /\ CancelsSound
  BY DEF IInv, TypeOK
<1>m. Moves(t, {"reject"})
  BY <1>0, GotoMoves, ReturnMoves, AfterEventMoves
  DEF TradeFails, Steps, PreRoute, Events, Cancelling
<1>1. RouterTypes'
  BY <1>0, <1>m, Bounds
  DEF RouterTypes, ThreadTypes, EventTypes, TradeFails, Moves, infoVars, acctVars,
      bookVars, OrderIds, Statuses, Live, Final, Matches
<1>2. AccountTypes'
  BY <1>0, <1>m, RequestFields, Bounds
  DEF AccountTypes, RouterTypes, IssuedOnly, ThreadTypes, EventTypes, TradeFails,
      Moves, infoVars, acctVars, bookVars, OrderIds, Matches
<1>3. BookTypes'
  BY <1>0, <1>m, Bounds
  DEF BookTypes, ThreadTypes, TradeFails, Moves, infoVars, acctVars, bookVars,
      OrderIds, Matches
<1>4. ThreadTypes'
  BY <1>0, <1>m, MovesThreadTypes DEF TradeFails
<1>5. EventTypes'
  BY <1>0, <1>m, Bounds
  DEF EventTypes, ThreadTypes, TradeFails, Moves, infoVars, acctVars, bookVars,
      OrderIds, Matches
<1>6. FinalNotResting'
  BY <1>0, <1>m, Bounds
  DEF FinalNotResting, RouterTypes, BookTypes, ThreadTypes, EventTypes,
      UnseenUntraded, EventsSound, CancelsSound, TradeFails, Moves, infoVars,
      acctVars, bookVars, OrderIds, Matches
<1>7. RestingTracked'
  BY <1>0, <1>m, Bounds
  DEF RestingTracked, RouterTypes, BookTypes, ThreadTypes, EventTypes, EventsSound,
      CancelsSound, TradeFails, Moves, infoVars, acctVars, bookVars, OrderIds,
      Matches
<1>8. RestingCovered'
  BY <1>0, <1>m, RequestFields, Bounds
  DEF RestingCovered, BookTypes, ThreadTypes, EventTypes, AccountTypes,
      UnseenUntraded, RoutedOnce, EventsSound, CancelsSound, TradeFails, Moves,
      infoVars, acctVars, bookVars, OrderIds, Matches
<1>9. IssuedOnly'
  BY <1>0, <1>m, MovesIssuedOnly DEF TradeFails, infoVars, bookVars
<1>10. RoutedOnce'
  BY <1>0, <1>m, MovesRoutedOnce DEF TradeFails, PreRoute, bookVars
<1>11. UnseenUntraded'
  BY <1>0, <1>m, Bounds
  DEF UnseenUntraded, RouterTypes, BookTypes, ThreadTypes, EventTypes, AccountTypes,
      EventsSound, CancelsSound, TradeFails, Moves, infoVars, acctVars, bookVars,
      OrderIds, Matches
<1>12. ReadyToRest'
  BY <1>0, <1>m, MovesReadyToRest DEF TradeFails, infoVars, acctVars
<1>13. EventsSound'
  BY <1>0, <1>m, MovesEventsSound
  DEF TradeFails, BookOnlyShrinks, bookVars, Events, EventTypes, ThreadTypes, Moves,
      EventsSound
<1>14. CancelsSound'
  BY <1>0, <1>m, MovesCancelsSound DEF TradeFails, BookOnlyShrinks, bookVars
<1> QED
  BY <1>1, <1>2, <1>3, <1>4, <1>5, <1>6, <1>7, <1>8, <1>9, <1>10, <1>11, <1>12,
     <1>13, <1>14
  DEF IInv, TypeOK

\* IocCheck keeps the invariant: handle_ioc_remaining's test.
LEMMA IocCheckStep ==
    ASSUME IInv, NEW t \in Threads, IocCheck(t)
    PROVE  IInv'
<1>0. RouterTypes /\ AccountTypes /\ BookTypes /\ ThreadTypes /\ EventTypes
    /\ FinalNotResting /\ RestingTracked /\ RestingCovered /\ IssuedOnly /\ RoutedOnce
    /\ UnseenUntraded /\ ReadyToRest /\ EventsSound /\ CancelsSound
  BY DEF IInv, TypeOK
<1>m. Moves(t, {"cancel_check"})
  BY <1>0, GotoMoves, ReturnMoves, AfterEventMoves
  DEF IocCheck, Steps, PreRoute, Events, Cancelling
<1>1. RouterTypes'
  BY <1>0, <1>m, Bounds
  DEF RouterTypes, ThreadTypes, EventTypes, IocCheck, Moves, infoVars, acctVars,
      bookVars, OrderIds, Statuses, Live, Final, Matches
<1>2. AccountTypes'
  BY <1>0, <1>m, RequestFields, Bounds
  DEF AccountTypes, RouterTypes, IssuedOnly, ThreadTypes, EventTypes, IocCheck,
      Moves, infoVars, acctVars, bookVars, OrderIds, Matches
<1>3. BookTypes'
  BY <1>0, <1>m, Bounds
  DEF BookTypes, ThreadTypes, IocCheck, Moves, infoVars, acctVars, bookVars,
      OrderIds, Matches
<1>4. ThreadTypes'
  BY <1>0, <1>m, MovesThreadTypes DEF IocCheck
<1>5. EventTypes'
  BY <1>0, <1>m, Bounds
  DEF EventTypes, ThreadTypes, IocCheck, Moves, infoVars, acctVars, bookVars,
      OrderIds, Matches
<1>6. FinalNotResting'
  BY <1>0, <1>m, Bounds
  DEF FinalNotResting, RouterTypes, BookTypes, ThreadTypes, EventTypes,
      UnseenUntraded, EventsSound, CancelsSound, IocCheck, Moves, infoVars,
      acctVars, bookVars, OrderIds, Matches
<1>7. RestingTracked'
  BY <1>0, <1>m, Bounds
  DEF RestingTracked, RouterTypes, BookTypes, ThreadTypes, EventTypes, EventsSound,
      CancelsSound, IocCheck, Moves, infoVars, acctVars, bookVars, OrderIds, Matches
<1>8. RestingCovered'
  BY <1>0, <1>m, RequestFields, Bounds
  DEF RestingCovered, BookTypes, ThreadTypes, EventTypes, AccountTypes,
      UnseenUntraded, RoutedOnce, EventsSound, CancelsSound, IocCheck, Moves,
      infoVars, acctVars, bookVars, OrderIds, Matches
<1>9. IssuedOnly'
  BY <1>0, <1>m, MovesIssuedOnly DEF IocCheck, infoVars, bookVars
<1>10. RoutedOnce'
  BY <1>0, <1>m, MovesRoutedOnce DEF IocCheck, PreRoute, bookVars
<1>11. UnseenUntraded'
  BY <1>0, <1>m, Bounds
  DEF UnseenUntraded, RouterTypes, BookTypes, ThreadTypes, EventTypes, AccountTypes,
      EventsSound, CancelsSound, IocCheck, Moves, infoVars, acctVars, bookVars,
      OrderIds, Matches
<1>12. ReadyToRest'
  BY <1>0, <1>m, MovesReadyToRest DEF IocCheck, infoVars, acctVars
<1>13. EventsSound'
  BY <1>0, <1>m, MovesEventsSound
  DEF IocCheck, BookOnlyShrinks, bookVars, Events, EventTypes, ThreadTypes, Moves,
      EventsSound
<1>14. CancelsSound'
  BY <1>0, <1>m, MovesCancelsSound DEF IocCheck, BookOnlyShrinks, bookVars
<1> QED
  BY <1>1, <1>2, <1>3, <1>4, <1>5, <1>6, <1>7, <1>8, <1>9, <1>10, <1>11, <1>12,
     <1>13, <1>14
  DEF IInv, TypeOK

\* CancelCheck keeps the invariant: cancel_order's test.
LEMMA CancelCheckStep ==
    ASSUME IInv, NEW t \in Threads, CancelCheck(t)
    PROVE  IInv'
<1>0. RouterTypes /\ AccountTypes /\ BookTypes /\ ThreadTypes /\ EventTypes
    /\ FinalNotResting /\ RestingTracked /\ RestingCovered /\ IssuedOnly /\ RoutedOnce
    /\ UnseenUntraded /\ ReadyToRest /\ EventsSound /\ CancelsSound
  BY DEF IInv, TypeOK
<1>m. Moves(t, {"cancel_book"})
  BY <1>0, GotoMoves, ReturnMoves, AfterEventMoves
  DEF CancelCheck, Steps, PreRoute, Events, Cancelling
<1>1. RouterTypes'
  BY <1>0, <1>m, Bounds
  DEF RouterTypes, ThreadTypes, EventTypes, CancelCheck, Moves, infoVars, acctVars,
      bookVars, OrderIds, Statuses, Live, Final, Matches
<1>2. AccountTypes'
  BY <1>0, <1>m, RequestFields, Bounds
  DEF AccountTypes, RouterTypes, IssuedOnly, ThreadTypes, EventTypes, CancelCheck,
      Moves, infoVars, acctVars, bookVars, OrderIds, Matches
<1>3. BookTypes'
  BY <1>0, <1>m, Bounds
  DEF BookTypes, ThreadTypes, CancelCheck, Moves, infoVars, acctVars, bookVars,
      OrderIds, Matches
<1>4. ThreadTypes'
  BY <1>0, <1>m, MovesThreadTypes DEF CancelCheck
<1>5. EventTypes'
  BY <1>0, <1>m, Bounds
  DEF EventTypes, ThreadTypes, CancelCheck, Moves, infoVars, acctVars, bookVars,
      OrderIds, Matches
<1>6. FinalNotResting'
  BY <1>0, <1>m, Bounds
  DEF FinalNotResting, RouterTypes, BookTypes, ThreadTypes, EventTypes,
      UnseenUntraded, EventsSound, CancelsSound, CancelCheck, Moves, infoVars,
      acctVars, bookVars, OrderIds, Matches
<1>7. RestingTracked'
  BY <1>0, <1>m, Bounds
  DEF RestingTracked, RouterTypes, BookTypes, ThreadTypes, EventTypes, EventsSound,
      CancelsSound, CancelCheck, Moves, infoVars, acctVars, bookVars, OrderIds,
      Matches
<1>8. RestingCovered'
  BY <1>0, <1>m, RequestFields, Bounds
  DEF RestingCovered, BookTypes, ThreadTypes, EventTypes, AccountTypes,
      UnseenUntraded, RoutedOnce, EventsSound, CancelsSound, CancelCheck, Moves,
      infoVars, acctVars, bookVars, OrderIds, Matches
<1>9. IssuedOnly'
  BY <1>0, <1>m, MovesIssuedOnly DEF CancelCheck, infoVars, bookVars
<1>10. RoutedOnce'
  BY <1>0, <1>m, MovesRoutedOnce DEF CancelCheck, PreRoute, bookVars
<1>11. UnseenUntraded'
  BY <1>0, <1>m, Bounds
  DEF UnseenUntraded, RouterTypes, BookTypes, ThreadTypes, EventTypes, AccountTypes,
      EventsSound, CancelsSound, CancelCheck, Moves, infoVars, acctVars, bookVars,
      OrderIds, Matches
<1>12. ReadyToRest'
  BY <1>0, <1>m, MovesReadyToRest DEF CancelCheck, infoVars, acctVars
<1>13. EventsSound'
  BY <1>0, <1>m, MovesEventsSound
  DEF CancelCheck, BookOnlyShrinks, bookVars, Events, EventTypes, ThreadTypes,
      Moves, EventsSound
<1>14. CancelsSound'
  BY <1>0, <1>m, MovesCancelsSound DEF CancelCheck, BookOnlyShrinks, bookVars
<1> QED
  BY <1>1, <1>2, <1>3, <1>4, <1>5, <1>6, <1>7, <1>8, <1>9, <1>10, <1>11, <1>12,
     <1>13, <1>14
  DEF IInv, TypeOK

\* TakerTrade keeps the invariant: the taker's deal.
LEMMA TakerTradeStep ==
    ASSUME IInv, NEW t \in Threads, TakerTrade(t)
    PROVE  IInv'
<1>0. RouterTypes /\ AccountTypes /\ BookTypes /\ ThreadTypes /\ EventTypes
    /\ FinalNotResting /\ RestingTracked /\ RestingCovered /\ IssuedOnly /\ RoutedOnce
    /\ UnseenUntraded /\ ReadyToRest /\ EventsSound /\ CancelsSound
  BY DEF IInv, TypeOK
<1>m. Moves(t, {"maker"}) /\ pc'[t] = "maker" /\ cur'[t] = cur[t]
  BY <1>0, GotoMoves DEF TakerTrade, Steps, Events
<1>o. cur[t] \in OrderIds
  BY <1>0, Serving DEF TakerTrade
<1>f. PICK f \in todo[t] : Deal(cur[t], f.vol) /\ UntrackFilled(cur[t], f.taker_filled)
  BY DEF TakerTrade
<1>s. /\ engine_id[cur[t]] # 0
      /\ f.taker_filled => rest[cur[t]] = 0
      /\ f.vol \in Nat \ {0}
  BY <1>0 DEF EventsSound, EventTypes, Matches
<1>a. req[cur[t]].acct \in Accounts
  BY <1>0, <1>o, <1>s, SeenIsIssued, Requested
<1>d. /\ AccountTypes'
      /\ position'[cur[t]] > 0
      /\ \A p \in OrderIds \ {cur[t]} :
           frozen'[p] = frozen[p] /\ position'[p] = position[p]
  BY <1>0, <1>o, <1>f, <1>s, <1>a, DealAccounts
<1>u. /\ UNCHANGED <<order_seq, req, status, filled_volume, engine_known,
                     engine_id_to_order, rest, engine_id, todo, faults>>
      /\ handled_trade' = [handled_trade EXCEPT ![t] = TRUE]
  BY DEF TakerTrade, infoVars, bookVars
<1>t. \A p \in OrderIds :
        p \in active_orders => p \in active_orders' \/ (p = cur[t] /\ rest[p] = 0)
  BY <1>f, <1>s DEF UntrackFilled
<1>1. RouterTypes'
  BY <1>0, <1>u, <1>f DEF RouterTypes, UntrackFilled
<1>2. BookTypes' /\ EventTypes' /\ FinalNotResting'
  BY <1>0, <1>u DEF BookTypes, EventTypes, FinalNotResting
<1>3. ThreadTypes'
  BY <1>0, <1>m, MovesThreadTypes
<1>4. RestingTracked'
  BY <1>0, <1>u, <1>t DEF RestingTracked, BookTypes
<1>5. RestingCovered'
  BY <1>0, <1>u, <1>d DEF RestingCovered
<1>6. IssuedOnly'
  BY <1>0, <1>m, <1>u, MovesIssuedOnly
<1>7. RoutedOnce'
  BY <1>0, <1>m, <1>u, MovesRoutedOnce DEF PreRoute
<1>8. UnseenUntraded'
  BY <1>0, <1>u, <1>d, <1>s DEF UnseenUntraded
<1>9. ReadyToRest'
  BY <1>0, <1>m, <1>u, <1>d, <1>s, <1>t, MovesReadyToRest
<1>10. EventsSound'
  BY <1>0, <1>m, <1>u, MovesEventsSound DEF BookOnlyShrinks, Events
<1>11. CancelsSound'
  BY <1>0, <1>m, <1>u, MovesCancelsSound DEF BookOnlyShrinks
<1> QED
  BY <1>d, <1>1, <1>2, <1>3, <1>4, <1>5, <1>6, <1>7, <1>8, <1>9, <1>10, <1>11
  DEF IInv, TypeOK

\* MakerStatus keeps the invariant: the maker's status, or the skipped fill.
LEMMA MakerStatusStep ==
    ASSUME IInv, NEW t \in Threads, MakerStatus(t)
    PROVE  IInv'
<1>0. RouterTypes /\ AccountTypes /\ BookTypes /\ ThreadTypes /\ EventTypes
    /\ FinalNotResting /\ RestingTracked /\ RestingCovered /\ IssuedOnly /\ RoutedOnce
    /\ UnseenUntraded /\ ReadyToRest /\ EventsSound /\ CancelsSound
  BY DEF IInv, TypeOK
<1>m. Moves(t, {"maker_trade", "taker", "ioc"})
  BY <1>0, GotoMoves, AfterEventMoves DEF MakerStatus, Steps, Events
<1>f. PICK f \in todo[t] :
        \/ /\ FillStatus(f.maker, f.vol, f.maker_filled)
           /\ Goto(t, "maker_trade")
           /\ UNCHANGED todo
        \/ /\ todo' = [todo EXCEPT ![t] = @ \ {f}]
           /\ AfterEvent(t, todo[t] \ {f})
           /\ UNCHANGED <<status, filled_volume>>
  BY DEF MakerStatus
<1>s. /\ f.maker \in OrderIds
      /\ f.vol \in Nat
      /\ engine_id[f.maker] # 0
      /\ f.maker_filled => rest[f.maker] = 0
  BY <1>0 DEF EventsSound, EventTypes, Matches
<1>u. UNCHANGED <<order_seq, req, engine_known, engine_id_to_order, active_orders,
                  acctVars, rest, engine_id, handled_trade, faults>>
  BY DEF MakerStatus, bookVars
<1>v. \/ status' = status
      \/ status' = [status EXCEPT ![f.maker] =
                      IF f.maker_filled THEN "Filled" ELSE "PartiallyFilled"]
  BY <1>f DEF FillStatus
<1>e. /\ \A u \in Threads : todo'[u] \subseteq todo[u]
      /\ todo' \in [Threads -> SUBSET Matches]
  BY <1>0, <1>f DEF EventTypes
<1>g. \A g \in todo'[t] : pc'[t] \in {"accept", "map"} \cup Events /\ cur'[t] = cur[t]
  <2>1. CASE Goto(t, "maker_trade")
    BY <1>0, <2>1, GotoMoves DEF MakerStatus, Steps, Events
  <2>2. CASE /\ todo' = [todo EXCEPT ![t] = @ \ {f}]
             /\ AfterEvent(t, todo[t] \ {f})
    <3>1. todo'[t] = todo[t] \ {f}
      BY <1>0, <2>2 DEF EventTypes
    <3>2. todo[t] \ {f} # {} => pc'[t] = "taker" /\ cur'[t] = cur[t]
      BY <1>0, <2>2, AfterEventMoves DEF MakerStatus, Steps, Events
    <3> QED
      BY <3>1, <3>2 DEF Events
  <2> QED
    BY <1>f, <2>1, <2>2
<1>1. RouterTypes'
  <2>1. status' \in [OrderIds -> Statuses]
    BY <1>0, <1>v DEF RouterTypes, Statuses, Live, Final
  <2>2. filled_volume' \in [OrderIds -> Nat]
    BY <1>0, <1>f, <1>s DEF RouterTypes, FillStatus
  <2> QED
    BY <1>0, <1>u, <2>1, <2>2 DEF RouterTypes
<1>2. AccountTypes' /\ BookTypes' /\ RestingTracked' /\ RestingCovered'
  BY <1>0, <1>u DEF AccountTypes, BookTypes, RestingTracked, RestingCovered, acctVars
<1>3. ThreadTypes'
  BY <1>0, <1>m, MovesThreadTypes
<1>4. EventTypes'
  BY <1>0, <1>u, <1>e DEF EventTypes
<1>5. FinalNotResting'
  BY <1>0, <1>u, <1>v, <1>s DEF FinalNotResting, RouterTypes
<1>6. IssuedOnly'
  BY <1>0, <1>m, <1>u, MovesIssuedOnly
<1>7. RoutedOnce'
  BY <1>0, <1>m, <1>u, MovesRoutedOnce DEF PreRoute
<1>8. UnseenUntraded'
  BY <1>0, <1>u, <1>v, <1>s DEF UnseenUntraded, RouterTypes, acctVars
<1>9. ReadyToRest'
  BY <1>0, <1>m, <1>u, MovesReadyToRest DEF acctVars
<1>10. EventsSound'
  BY <1>0, <1>m, <1>u, <1>e, <1>g, MovesEventsSound DEF BookOnlyShrinks
<1>11. CancelsSound'
  BY <1>0, <1>m, <1>u, MovesCancelsSound DEF BookOnlyShrinks
<1> QED
  BY <1>1, <1>2, <1>3, <1>4, <1>5, <1>6, <1>7, <1>8, <1>9, <1>10, <1>11 DEF IInv, TypeOK

\* MakerTrade keeps the invariant: the maker's deal.
LEMMA MakerTradeStep ==
    ASSUME IInv, NEW t \in Threads, MakerTrade(t)
    PROVE  IInv'
<1>0. RouterTypes /\ AccountTypes /\ BookTypes /\ ThreadTypes /\ EventTypes
    /\ FinalNotResting /\ RestingTracked /\ RestingCovered /\ IssuedOnly /\ RoutedOnce
    /\ UnseenUntraded /\ ReadyToRest /\ EventsSound /\ CancelsSound
  BY DEF IInv, TypeOK
<1>m. Moves(t, {"taker", "ioc"})
  BY <1>0, AfterEventMoves DEF MakerTrade, Steps, Events
<1>f. PICK f \in todo[t] :
        /\ Deal(f.maker, f.vol)
        /\ UntrackFilled(f.maker, f.maker_filled)
        /\ todo' = [todo EXCEPT ![t] = @ \ {f}]
        /\ AfterEvent(t, todo[t] \ {f})
  BY DEF MakerTrade
<1>s. /\ f.maker \in OrderIds
      /\ engine_id[f.maker] # 0
      /\ f.maker_filled => rest[f.maker] = 0
      /\ f.vol \in Nat \ {0}
  BY <1>0 DEF EventsSound, EventTypes, Matches
<1>a. req[f.maker].acct \in Accounts
  BY <1>0, <1>s, SeenIsIssued, Requested
<1>d. /\ AccountTypes'
      /\ position'[f.maker] > 0
      /\ \A p \in OrderIds \ {f.maker} :
           frozen'[p] = frozen[p] /\ position'[p] = position[p]
  BY <1>0, <1>f, <1>s, <1>a, DealAccounts
<1>u. UNCHANGED <<order_seq, req, status, filled_volume, engine_known,
                  engine_id_to_order, rest, engine_id, handled_trade, faults>>
  BY DEF MakerTrade, infoVars, bookVars
<1>t. \A p \in OrderIds :
        p \in active_orders => p \in active_orders' \/ (p = f.maker /\ rest[p] = 0)
  BY <1>f, <1>s DEF UntrackFilled
<1>e. /\ \A u \in Threads : todo'[u] \subseteq todo[u]
      /\ todo' \in [Threads -> SUBSET Matches]
      /\ todo'[t] = todo[t] \ {f}
  BY <1>0, <1>f DEF EventTypes
<1>g. todo[t] \ {f} # {} => pc'[t] = "taker" /\ cur'[t] = cur[t]
  BY <1>0, <1>f, AfterEventMoves DEF MakerTrade, Steps, Events
<1>1. RouterTypes'
  BY <1>0, <1>u, <1>f DEF RouterTypes, UntrackFilled
<1>2. BookTypes' /\ FinalNotResting'
  BY <1>0, <1>u DEF BookTypes, FinalNotResting
<1>3. ThreadTypes'
  BY <1>0, <1>m, MovesThreadTypes
<1>4. EventTypes'
  BY <1>0, <1>u, <1>e DEF EventTypes
<1>5. RestingTracked'
  BY <1>0, <1>u, <1>t DEF RestingTracked, BookTypes
<1>6. RestingCovered'
  BY <1>0, <1>u, <1>d DEF RestingCovered
<1>7. IssuedOnly'
  BY <1>0, <1>m, <1>u, MovesIssuedOnly
<1>8. RoutedOnce'
  BY <1>0, <1>m, <1>u, MovesRoutedOnce DEF PreRoute
<1>9. UnseenUntraded'
  BY <1>0, <1>u, <1>d, <1>s DEF UnseenUntraded
<1>10. ReadyToRest'
  BY <1>0, <1>m, <1>u, <1>d, <1>s, <1>t, MovesReadyToRest
<1>11. EventsSound'
  <2>1. \A g \in todo'[t] : pc'[t] \in {"accept", "map"} \cup Events /\ cur'[t] = cur[t]
    BY <1>e, <1>g DEF Events
  <2> QED
    BY <1>0, <1>m, <1>u, <1>e, <2>1, MovesEventsSound DEF BookOnlyShrinks
<1>12. CancelsSound'
  BY <1>0, <1>m, <1>u, MovesCancelsSound DEF BookOnlyShrinks
<1> QED
  BY <1>d, <1>1, <1>2, <1>3, <1>4, <1>5, <1>6, <1>7, <1>8, <1>9, <1>10, <1>11, <1>12
  DEF IInv, TypeOK

\* CancelBook keeps the invariant: the cancel request to the book.
LEMMA CancelBookStep ==
    ASSUME IInv, NEW t \in Threads, CancelBook(t)
    PROVE  IInv'
<1>0. RouterTypes /\ AccountTypes /\ BookTypes /\ ThreadTypes /\ EventTypes
    /\ FinalNotResting /\ RestingTracked /\ RestingCovered /\ IssuedOnly /\ RoutedOnce
    /\ UnseenUntraded /\ ReadyToRest /\ EventsSound /\ CancelsSound
  BY DEF IInv, TypeOK
<1>m. Moves(t, {"cancel_status"})
  BY <1>0, GotoMoves, ReturnMoves DEF CancelBook, Steps, Cancelling
<1>o. cur[t] \in OrderIds
  BY <1>0, Serving DEF CancelBook
<1>u. UNCHANGED <<order_seq, infoVars, active_orders, acctVars, engine_id, todo,
                  handled_trade, faults>>
  BY DEF CancelBook
<1>r. \/ rest[cur[t]] > 0 /\ rest' = [rest EXCEPT ![cur[t]] = 0]
      \/ rest[cur[t]] = 0 /\ rest' = rest /\ pc'[t] = "idle"
  BY <1>0 DEF CancelBook, Return, ThreadTypes
<1>b. /\ rest' \in [OrderIds -> Nat]
      /\ \A o \in OrderIds : rest'[o] = rest[o] \/ rest'[o] = 0
      /\ pc'[t] # "idle" => engine_id[cur[t]] # 0 /\ rest'[cur[t]] = 0
  BY <1>0, <1>o, <1>r DEF BookTypes, UnseenUntraded
<1>1. RouterTypes' /\ AccountTypes' /\ BookTypes' /\ EventTypes'
  BY <1>0, <1>u, <1>b
  DEF RouterTypes, AccountTypes, BookTypes, EventTypes, infoVars, acctVars
<1>2. ThreadTypes'
  BY <1>0, <1>m, MovesThreadTypes
<1>3. FinalNotResting' /\ RestingTracked'
  BY <1>0, <1>u, <1>b DEF FinalNotResting, RestingTracked, infoVars
<1>4. RestingCovered'
  BY <1>0, <1>u, <1>b DEF RestingCovered, infoVars, acctVars
<1>5. IssuedOnly'
  BY <1>0, <1>m, <1>u, MovesIssuedOnly DEF infoVars
<1>6. RoutedOnce'
  BY <1>0, <1>m, <1>u, MovesRoutedOnce DEF PreRoute
<1>7. UnseenUntraded'
  BY <1>0, <1>u, <1>b DEF UnseenUntraded, infoVars, acctVars
<1>8. ReadyToRest'
  BY <1>0, <1>m, <1>u, MovesReadyToRest DEF infoVars, acctVars
<1>9. EventsSound'
  <2>1. \A f \in todo'[t] : FALSE
    BY <1>0, <1>u DEF EventsSound, CancelBook, Events
  <2> QED
    BY <1>0, <1>m, <1>u, <1>b, <2>1, MovesEventsSound DEF BookOnlyShrinks
<1>10. CancelsSound'
  <2> SUFFICES ASSUME NEW u \in Threads,
                      pc'[u] \in {"cancel_status", "cancel_release"}
               PROVE  engine_id'[cur'[u]] # 0 /\ rest'[cur'[u]] = 0
    BY DEF CancelsSound
  <2>1. CASE u = t
    BY <1>m, <1>b, <1>u, <2>1 DEF Moves
  <2>2. CASE u # t
    <3>1. pc'[u] = pc[u] /\ cur'[u] = cur[u]
      BY <1>m, <2>2 DEF Moves
    <3>2. cur[u] \in OrderIds
      BY <1>0, <3>1, Serving
    <3> QED
      BY <1>0, <1>b, <1>u, <3>1, <3>2 DEF CancelsSound
  <2> QED
    BY <2>1, <2>2
<1> QED
  BY <1>1, <1>2, <1>3, <1>4, <1>5, <1>6, <1>7, <1>8, <1>9, <1>10 DEF IInv, TypeOK

\* CancelStatus keeps the invariant: the status half of Cancelled.
LEMMA CancelStatusStep ==
    ASSUME IInv, NEW t \in Threads, CancelStatus(t)
    PROVE  IInv'
<1>0. RouterTypes /\ AccountTypes /\ BookTypes /\ ThreadTypes /\ EventTypes
    /\ FinalNotResting /\ RestingTracked /\ RestingCovered /\ IssuedOnly /\ RoutedOnce
    /\ UnseenUntraded /\ ReadyToRest /\ EventsSound /\ CancelsSound
  BY DEF IInv, TypeOK
<1>m. Moves(t, {"cancel_release"}) /\ pc'[t] = "cancel_release" /\ cur'[t] = cur[t]
  BY <1>0, GotoMoves DEF CancelStatus, Steps, Cancelling
<1>o. /\ cur[t] \in OrderIds
      /\ engine_id[cur[t]] # 0
      /\ rest[cur[t]] = 0
  BY <1>0, Serving DEF CancelStatus, CancelsSound
<1>u. /\ UNCHANGED <<order_seq, req, filled_volume, engine_known, engine_id_to_order,
                     active_orders, acctVars, rest, engine_id, todo, handled_trade,
                     faults>>
      /\ status' = [status EXCEPT ![cur[t]] = "Cancelled"]
  BY DEF CancelStatus, bookVars
<1>1. RouterTypes'
  BY <1>0, <1>u DEF RouterTypes, Statuses, Final
<1>2. AccountTypes' /\ BookTypes' /\ EventTypes' /\ RestingTracked' /\ RestingCovered'
  BY <1>0, <1>u
  DEF AccountTypes, BookTypes, EventTypes, RestingTracked, RestingCovered, acctVars
<1>3. ThreadTypes'
  BY <1>0, <1>m, MovesThreadTypes
<1>4. FinalNotResting'
  BY <1>0, <1>u, <1>o DEF FinalNotResting, RouterTypes
<1>5. IssuedOnly'
  BY <1>0, <1>m, <1>u, MovesIssuedOnly
<1>6. RoutedOnce'
  BY <1>0, <1>m, <1>u, MovesRoutedOnce DEF PreRoute
<1>7. UnseenUntraded'
  BY <1>0, <1>u, <1>o DEF UnseenUntraded, RouterTypes, acctVars
<1>8. ReadyToRest'
  BY <1>0, <1>m, <1>u, MovesReadyToRest DEF acctVars
<1>9. EventsSound'
  <2>1. \A f \in todo'[t] : FALSE
    BY <1>0, <1>u DEF EventsSound, CancelStatus, Events
  <2> QED
    BY <1>0, <1>m, <1>u, <2>1, MovesEventsSound DEF BookOnlyShrinks
<1>10. CancelsSound'
  <2> SUFFICES ASSUME NEW u \in Threads,
                      pc'[u] \in {"cancel_status", "cancel_release"}
               PROVE  engine_id'[cur'[u]] # 0 /\ rest'[cur'[u]] = 0
    BY DEF CancelsSound
  <2>1. CASE u = t
    BY <1>m, <1>o, <1>u, <2>1
  <2>2. CASE u # t
    BY <1>0, <1>m, <1>u, <2>2 DEF CancelsSound, Moves
  <2> QED
    BY <2>1, <2>2
<1> QED
  BY <1>1, <1>2, <1>3, <1>4, <1>5, <1>6, <1>7, <1>8, <1>9, <1>10 DEF IInv, TypeOK

\* CancelRelease keeps the invariant: handle_cancel_accepted_new.
LEMMA CancelReleaseStep ==
    ASSUME IInv, NEW t \in Threads, CancelRelease(t)
    PROVE  IInv'
<1>0. RouterTypes /\ AccountTypes /\ BookTypes /\ ThreadTypes /\ EventTypes
    /\ FinalNotResting /\ RestingTracked /\ RestingCovered /\ IssuedOnly /\ RoutedOnce
    /\ UnseenUntraded /\ ReadyToRest /\ EventsSound /\ CancelsSound
  BY DEF IInv, TypeOK
<1>m. Moves(t, {})
  BY <1>0, ReturnMoves DEF CancelRelease
<1>o. /\ cur[t] \in OrderIds
      /\ engine_id[cur[t]] # 0
      /\ rest[cur[t]] = 0
  BY <1>0, Serving DEF CancelRelease, CancelsSound
<1>a. req[cur[t]].acct \in Accounts
  BY <1>0, <1>o, SeenIsIssued, Requested
<1>u. /\ UNCHANGED <<order_seq, infoVars, position, rest, engine_id, todo,
                     handled_trade, faults>>
      /\ active_orders' = active_orders \ {cur[t]}
      /\ frozen' = [frozen EXCEPT ![cur[t]] = 0]
  BY DEF CancelRelease, bookVars
<1>1. RouterTypes' /\ BookTypes' /\ EventTypes' /\ FinalNotResting'
  BY <1>0, <1>u DEF RouterTypes, BookTypes, EventTypes, FinalNotResting, infoVars
<1>2. AccountTypes'
  BY <1>0, <1>o, <1>a DEF AccountTypes, CancelRelease
<1>3. ThreadTypes'
  BY <1>0, <1>m, MovesThreadTypes
<1>4. RestingTracked'
  BY <1>0, <1>u, <1>o DEF RestingTracked
<1>5. RestingCovered'
  BY <1>0, <1>u, <1>o DEF RestingCovered, AccountTypes, infoVars
<1>6. IssuedOnly'
  BY <1>0, <1>m, <1>u, MovesIssuedOnly DEF infoVars
<1>7. RoutedOnce'
  BY <1>0, <1>m, <1>u, MovesRoutedOnce DEF PreRoute
<1>8. UnseenUntraded'
  BY <1>0, <1>u DEF UnseenUntraded, infoVars
<1>9. ReadyToRest'
  <2>1. \A o \in OrderIds : engine_id[o] = 0 =>
            /\ frozen'[o] = frozen[o]
            /\ o \in active_orders => o \in active_orders'
    BY <1>0, <1>u, <1>o DEF AccountTypes
  <2> QED
    BY <1>0, <1>m, <1>u, <2>1, MovesReadyToRest DEF infoVars
<1>10. EventsSound'
  <2>1. \A f \in todo'[t] : FALSE
    BY <1>0, <1>u DEF EventsSound, CancelRelease, Events
  <2> QED
    BY <1>0, <1>m, <1>u, <2>1, MovesEventsSound DEF BookOnlyShrinks
<1>11. CancelsSound'
  BY <1>0, <1>m, <1>u, MovesCancelsSound DEF BookOnlyShrinks
<1> QED
  BY <1>1, <1>2, <1>3, <1>4, <1>5, <1>6, <1>7, <1>8, <1>9, <1>10, <1>11 DEF IInv, TypeOK

\* The exchange starts with nothing submitted.
LEMMA InitInv == ASSUME Init PROVE IInv
<1>1. TypeOK
  BY RouterAssumption, Bounds
  DEF Init, TypeOK, RouterTypes, AccountTypes, BookTypes, ThreadTypes, EventTypes,
      OrderIds, Statuses, Steps
<1>2. FinalNotResting /\ RestingTracked /\ RestingCovered /\ UnseenUntraded
  BY DEF Init, FinalNotResting, RestingTracked, RestingCovered, UnseenUntraded
<1>3. IssuedOnly
  BY DEF Init, IssuedOnly, OrderIds
<1>4. RoutedOnce /\ ReadyToRest /\ EventsSound /\ CancelsSound
  BY DEF Init, RoutedOnce, ReadyToRest, EventsSound, CancelsSound, PreRoute
<1> QED
  BY <1>1, <1>2, <1>3, <1>4 DEF IInv

\* SubmitOrder keeps the invariant: submit_order's checks.
LEMMA SubmitOrderStep ==
    ASSUME IInv, NEW t \in Threads, NEW r \in Requests, SubmitOrder(t, r)
    PROVE  IInv'
<1>0. RouterTypes /\ AccountTypes /\ BookTypes /\ ThreadTypes /\ EventTypes
    /\ FinalNotResting /\ RestingTracked /\ RestingCovered /\ IssuedOnly /\ RoutedOnce
    /\ UnseenUntraded /\ ReadyToRest /\ EventsSound /\ CancelsSound
  BY DEF IInv, TypeOK
<1>n. order_seq \in OrderIds /\ engine_id[order_seq] = 0 /\ rest[order_seq] = 0
  BY <1>0 DEF SubmitOrder, IssuedOnly, UnseenUntraded, RouterTypes
<1>p. /\ pc[t] = "idle" /\ cur[t] = 0
      /\ \/ pc' = pc /\ cur' = cur
         \/ /\ cur' = [cur EXCEPT ![t] = order_seq]
            /\ \/ pc' = [pc EXCEPT ![t] = "fok"]
               \/ pc' = [pc EXCEPT ![t] = "freeze"]
  BY <1>0 DEF SubmitOrder, ThreadTypes
<1>u. /\ UNCHANGED <<status, filled_volume, engine_known, engine_id_to_order,
                     active_orders, acctVars, rest, engine_id, todo, handled_trade,
                     faults>>
      /\ order_seq' = order_seq + 1
      /\ req' = [req EXCEPT ![order_seq] = r]
  BY DEF SubmitOrder, bookVars
<1>q. \A u \in Threads : pc'[u] \notin {"fok", "freeze"} =>
         pc'[u] = pc[u] /\ cur'[u] = cur[u]
  BY <1>0, <1>p DEF ThreadTypes
<1>v. \A u \in Threads : cur[u] < order_seq
  BY <1>0 DEF IssuedOnly
<1>1. RouterTypes'
  BY <1>0, <1>n, <1>u, Bounds DEF RouterTypes, OrderIds
<1>2. AccountTypes' /\ BookTypes' /\ EventTypes' /\ FinalNotResting' /\ RestingTracked'
  BY <1>0, <1>u
  DEF AccountTypes, BookTypes, EventTypes, FinalNotResting, RestingTracked, acctVars
<1>3. ThreadTypes'
  BY <1>0, <1>n, <1>p, Bounds DEF ThreadTypes, OrderIds, Steps, PreRoute
<1>4. RestingCovered'
  BY <1>0, <1>n, <1>u DEF RestingCovered, RouterTypes, acctVars
<1>5. IssuedOnly'
  <2>1. \A o \in OrderIds : o < order_seq' => req'[o] \in Requests
    BY <1>0, <1>n, <1>u DEF IssuedOnly, RouterTypes, OrderIds
  <2>2. \A o \in OrderIds : o >= order_seq' => engine_id'[o] = 0
    BY <1>0, <1>n, <1>u DEF IssuedOnly, RouterTypes, OrderIds
  <2>3. \A u \in Threads : cur'[u] < order_seq'
    <3>1. \A u \in Threads : cur'[u] = cur[u] \/ cur'[u] = order_seq
      BY <1>0, <1>p DEF ThreadTypes
    <3>2. \A u \in Threads : cur[u] \in Int /\ order_seq \in Int
      BY <1>0, Bounds DEF RouterTypes, ThreadTypes
    <3> QED
      BY <1>u, <1>v, <3>1, <3>2
  <2>4. \A o \in engine_known' : o < order_seq'
    BY <1>0, <1>u DEF IssuedOnly, RouterTypes, OrderIds
  <2> QED
    BY <2>1, <2>2, <2>3, <2>4 DEF IssuedOnly
<1>6. RoutedOnce'
  <2>1. CASE pc' = pc /\ cur' = cur
    BY <1>0, <1>u, <2>1 DEF RoutedOnce
  <2>2. CASE cur' = [cur EXCEPT ![t] = order_seq]
    <3>1. \A u \in Threads \ {t} : cur'[u] = cur[u] /\ pc'[u] = pc[u]
      BY <1>0, <1>p, <2>2 DEF ThreadTypes
    <3>2. cur'[t] = order_seq
      BY <1>0, <2>2 DEF ThreadTypes
    <3>3. \A u \in Threads \ {t} : cur'[u] # cur'[t]
      BY <1>0, <1>v, <3>1, <3>2 DEF ThreadTypes, RouterTypes
    <3> QED
      BY <1>0, <1>n, <1>u, <3>1, <3>2, <3>3 DEF RoutedOnce
  <2> QED
    BY <1>p, <2>1, <2>2
<1>7. UnseenUntraded'
  BY <1>0, <1>u DEF UnseenUntraded, acctVars
<1>8. ReadyToRest'
  BY <1>0, <1>n, <1>u, <1>q, <1>v, Serving
  DEF ReadyToRest, RouterTypes, acctVars
<1>9. EventsSound'
  <2>1. \A u \in Threads : \A f \in todo[u] : pc'[u] = pc[u] /\ cur'[u] = cur[u]
    BY <1>0, <1>p DEF EventsSound, Events, ThreadTypes
  <2> QED
    BY <1>0, <1>u, <2>1 DEF EventsSound
<1>10. CancelsSound'
  BY <1>0, <1>u, <1>q DEF CancelsSound
<1> QED
  BY <1>1, <1>2, <1>3, <1>4, <1>5, <1>6, <1>7, <1>8, <1>9, <1>10 DEF IInv, TypeOK

\* FreezeFunds keeps the invariant: the account lock of submit_order.
LEMMA FreezeFundsStep ==
    ASSUME IInv, NEW t \in Threads, FreezeFunds(t)
    PROVE  IInv'
<1>0. RouterTypes /\ AccountTypes /\ BookTypes /\ ThreadTypes /\ EventTypes
    /\ FinalNotResting /\ RestingTracked /\ RestingCovered /\ IssuedOnly /\ RoutedOnce
    /\ UnseenUntraded /\ ReadyToRest /\ EventsSound /\ CancelsSound
  BY DEF IInv, TypeOK
<1>m. Moves(t, {"register"})
  BY <1>0, GotoMoves, ReturnMoves DEF FreezeFunds, Steps, PreRoute
<1>o. cur[t] \in OrderIds /\ engine_id[cur[t]] = 0 /\ rest[cur[t]] = 0
  BY <1>0, Serving DEF FreezeFunds, RoutedOnce, PreRoute, UnseenUntraded
<1>a. req[cur[t]].acct \in Accounts /\ req[cur[t]].vol \in Nat \ {0}
  BY <1>0, <1>o, Requested DEF IssuedOnly
<1>u. UNCHANGED <<order_seq, infoVars, active_orders, position, rest, engine_id, todo,
                  handled_trade, faults>>
  BY DEF FreezeFunds, bookVars
<1>f. \/ /\ money' = [money EXCEPT ![req[cur[t]].acct] = @ - req[cur[t]].vol]
         /\ frozen' = [frozen EXCEPT ![cur[t]] = req[cur[t]].vol]
         /\ volume_left' = [volume_left EXCEPT ![cur[t]] = req[cur[t]].vol]
      \/ /\ UNCHANGED <<money, frozen, volume_left>>
         /\ pc'[t] = "idle"
  BY <1>0 DEF FreezeFunds, Return, ThreadTypes
<1>1. RouterTypes' /\ BookTypes' /\ EventTypes' /\ FinalNotResting' /\ RestingTracked'
  BY <1>0, <1>u
  DEF RouterTypes, BookTypes, EventTypes, FinalNotResting, RestingTracked, infoVars
<1>2. AccountTypes'
  BY <1>0, <1>o, <1>a, <1>u, <1>f DEF AccountTypes
<1>3. ThreadTypes'
  BY <1>0, <1>m, MovesThreadTypes
<1>4. RestingCovered'
  BY <1>0, <1>o, <1>u, <1>f DEF RestingCovered, AccountTypes, infoVars
<1>5. IssuedOnly'
  BY <1>0, <1>m, <1>u, MovesIssuedOnly DEF infoVars
<1>6. RoutedOnce'
  BY <1>0, <1>m, <1>u, MovesRoutedOnce DEF FreezeFunds, PreRoute
<1>7. UnseenUntraded'
  BY <1>0, <1>u DEF UnseenUntraded, infoVars
<1>8. ReadyToRest'
  <2> SUFFICES ASSUME NEW u \in Threads, pc'[u] \in {"register", "route"}
               PROVE  /\ frozen'[cur'[u]] = req'[cur'[u]].vol
                      /\ pc'[u] = "route" => cur'[u] \in active_orders'
    BY DEF ReadyToRest
  <2>1. CASE u = t
    BY <1>0, <1>m, <1>o, <1>u, <1>f, <2>1 DEF AccountTypes, Moves, infoVars
  <2>2. CASE u # t
    <3>1. pc'[u] = pc[u] /\ cur'[u] = cur[u] /\ cur[u] # cur[t]
      BY <1>0, <1>m, <2>2 DEF Moves, RoutedOnce, PreRoute, FreezeFunds
    <3>2. cur[u] \in OrderIds
      BY <1>0, <3>1, Serving
    <3> QED
      BY <1>0, <1>f, <1>u, <3>1, <3>2 DEF ReadyToRest, AccountTypes, infoVars
  <2> QED
    BY <2>1, <2>2
<1>9. EventsSound'
  <2>1. \A f \in todo'[t] : FALSE
    BY <1>0, <1>u DEF EventsSound, FreezeFunds, Events
  <2> QED
    BY <1>0, <1>m, <1>u, <2>1, MovesEventsSound DEF BookOnlyShrinks
<1>10. CancelsSound'
  BY <1>0, <1>m, <1>u, MovesCancelsSound DEF BookOnlyShrinks
<1> QED
  BY <1>1, <1>2, <1>3, <1>4, <1>5, <1>6, <1>7, <1>8, <1>9, <1>10 DEF IInv, TypeOK

\* RegisterOrder keeps the invariant: the insertion and the tracking.
LEMMA RegisterOrderStep ==
    ASSUME IInv, NEW t \in Threads, RegisterOrder(t)
    PROVE  IInv'
<1>0. RouterTypes /\ AccountTypes /\ BookTypes /\ ThreadTypes /\ EventTypes
    /\ FinalNotResting /\ RestingTracked /\ RestingCovered /\ IssuedOnly /\ RoutedOnce
    /\ UnseenUntraded /\ ReadyToRest /\ EventsSound /\ CancelsSound
  BY DEF IInv, TypeOK
<1>m. Moves(t, {"route"}) /\ pc'[t] = "route" /\ cur'[t] = cur[t]
  BY <1>0, GotoMoves DEF RegisterOrder, Steps, PreRoute
<1>o. cur[t] \in OrderIds /\ engine_id[cur[t]] = 0 /\ rest[cur[t]] = 0
  BY <1>0, Serving DEF RegisterOrder, RoutedOnce, PreRoute, UnseenUntraded
<1>u. /\ UNCHANGED <<order_seq, req, filled_volume, engine_known, engine_id_to_order,
                     acctVars, rest, engine_id, todo, handled_trade, faults>>
      /\ status' = [status EXCEPT ![cur[t]] = "PendingRoute"]
      /\ active_orders' = active_orders \cup {cur[t]}
  BY DEF RegisterOrder, bookVars
<1>1. RouterTypes'
  BY <1>0, <1>o, <1>u DEF RouterTypes, Statuses
<1>2. AccountTypes' /\ BookTypes' /\ EventTypes' /\ RestingTracked' /\ RestingCovered'
  BY <1>0, <1>u
  DEF AccountTypes, BookTypes, EventTypes, RestingTracked, RestingCovered, acctVars
<1>3. ThreadTypes'
  BY <1>0, <1>m, MovesThreadTypes
<1>4. FinalNotResting'
  BY <1>0, <1>u, <1>o DEF FinalNotResting, RouterTypes
<1>5. IssuedOnly'
  BY <1>0, <1>m, <1>u, MovesIssuedOnly
<1>6. RoutedOnce'
  BY <1>0, <1>m, <1>u, MovesRoutedOnce DEF RegisterOrder, PreRoute
<1>7. UnseenUntraded'
  BY <1>0, <1>u DEF UnseenUntraded, RouterTypes, acctVars
<1>8. ReadyToRest'
  <2> SUFFICES ASSUME NEW u \in Threads, pc'[u] \in {"register", "route"}
               PROVE  /\ frozen'[cur'[u]] = req'[cur'[u]].vol
                      /\ pc'[u] = "route" => cur'[u] \in active_orders'
    BY DEF ReadyToRest
  <2>1. CASE u = t
    BY <1>0, <1>m, <1>u, <2>1 DEF ReadyToRest, RegisterOrder, acctVars
  <2>2. CASE u # t
    BY <1>0, <1>m, <1>u, <2>2 DEF ReadyToRest, Moves, acctVars
  <2> QED
    BY <2>1, <2>2
<1>9. EventsSound'
  <2>1. \A f \in todo'[t] : FALSE
    BY <1>0, <1>u DEF EventsSound, RegisterOrder, Events
  <2> QED
    BY <1>0, <1>m, <1>u, <2>1, MovesEventsSound DEF BookOnlyShrinks
<1>10. CancelsSound'
  BY <1>0, <1>m, <1>u, MovesCancelsSound DEF BookOnlyShrinks
<1> QED
  BY <1>1, <1>2, <1>3, <1>4, <1>5, <1>6, <1>7, <1>8, <1>9, <1>10 DEF IInv, TypeOK

\* The number an order gets on its arrival in the book is not 0.
LEMMA ArrivalNumber ==
    ASSUME NEW S \in SUBSET OrderIds
    PROVE  1 + Cardinality(S) \in Nat \ {0}
<1>1. IsFiniteSet(S)
  <2>1. IsFiniteSet(1..MaxOrders)
    BY Bounds, FS_Interval
  <2> QED
    BY <2>1, FS_Subset DEF OrderIds
<1>2. Cardinality(S) \in Nat
  BY <1>1, FS_CardinalityType
<1> QED
  BY <1>2

\* RouteToMatchingEngine keeps the invariant: process_order, the only way into the book.
LEMMA RouteToMatchingEngineStep ==
    ASSUME IInv, NEW t \in Threads, RouteToMatchingEngine(t)
    PROVE  IInv'
<1> DEFINE o == cur[t]
           r == req[o]
           hit(take) == {m \in OrderIds : take[m] > 0}
<1>0. RouterTypes /\ AccountTypes /\ BookTypes /\ ThreadTypes /\ EventTypes
    /\ FinalNotResting /\ RestingTracked /\ RestingCovered /\ IssuedOnly /\ RoutedOnce
    /\ UnseenUntraded /\ ReadyToRest /\ EventsSound /\ CancelsSound
  BY DEF IInv, TypeOK
<1>m. Moves(t, {"accept"}) /\ pc'[t] = "accept" /\ cur'[t] = cur[t]
  BY <1>0, GotoMoves DEF RouteToMatchingEngine, Steps
<1>o. /\ o \in OrderIds /\ engine_id[o] = 0
      /\ rest[o] = 0 /\ position[o] = 0
      /\ status[o] \notin {"Filled", "Cancelled"}
      /\ frozen[o] = r.vol
      /\ o \in active_orders
      /\ o < order_seq
  BY <1>0, Serving
  DEF RouteToMatchingEngine, RoutedOnce, PreRoute, UnseenUntraded, ReadyToRest, IssuedOnly
<1>a. r.vol \in Nat \ {0}
  BY <1>0, <1>o, Requested
<1>t. PICK take \in [OrderIds -> 0..r.vol], left \in 0..r.vol :
        /\ IsMatch(req, rest, engine_id, r, take, left)
        /\ rest' = [m \in OrderIds |-> IF m = o THEN left ELSE rest[m] - take[m]]
        /\ todo' = [todo EXCEPT ![t] = MatchEvents(take, left)]
  BY DEF RouteToMatchingEngine
<1>k. \A m \in OrderIds :
        /\ take[m] \in Nat
        /\ take[m] =< rest[m]
        /\ take[m] > 0 => rest[m] > 0 /\ m # o /\ engine_id[m] # 0
  <2>1. \A m \in OrderIds : take[m] =< rest[m]
    BY <1>0, <1>t, <1>a DEF IsMatch, BookTypes
  <2> QED
    BY <1>0, <1>a, <1>o, <2>1 DEF BookTypes, UnseenUntraded
<1>r. /\ rest' \in [OrderIds -> Nat]
      /\ rest'[o] = left
      /\ \A m \in OrderIds \ {o} : rest'[m] = rest[m] - take[m]
      /\ \A m \in OrderIds \ {o} : rest[m] = 0 => rest'[m] = 0
  BY <1>0, <1>a, <1>o, <1>t, <1>k DEF BookTypes
<1>e. /\ engine_id' \in [OrderIds -> Nat]
      /\ engine_id'[o] # 0
      /\ \A m \in OrderIds \ {o} : engine_id'[m] = engine_id[m]
  <2>1. 1 + Cardinality({m \in OrderIds : engine_id[m] > 0}) \in Nat \ {0}
    BY ArrivalNumber
  <2>2. engine_id' = [engine_id EXCEPT ![o] =
                        1 + Cardinality({m \in OrderIds : engine_id[m] > 0})]
    BY DEF RouteToMatchingEngine
  <2> QED
    BY <1>0, <1>o, <2>1, <2>2 DEF BookTypes
<1>f. \A f \in MatchEvents(take, left) :
        /\ f \in Matches
        /\ engine_id[f.maker] # 0
        /\ f.maker # o
        /\ f.taker_filled => left = 0
        /\ f.maker_filled => take[f.maker] = rest[f.maker]
  <2> SUFFICES ASSUME NEW f \in MatchEvents(take, left)
               PROVE  /\ f \in Matches
                      /\ engine_id[f.maker] # 0
                      /\ f.maker # o
                      /\ f.taker_filled => left = 0
                      /\ f.maker_filled => take[f.maker] = rest[f.maker]
    OBVIOUS
  <2>1. PICK m \in OrderIds, complete \in BOOLEAN :
          /\ take[m] > 0
          /\ complete => left = 0
          /\ f = [maker |-> m, vol |-> take[m],
                  maker_filled |-> take[m] = rest[m],
                  taker_filled |-> complete]
    BY DEF MatchEvents
  <2>2. (take[m] = rest[m]) \in BOOLEAN
    OBVIOUS
  <2>3. f \in Matches
    BY <1>k, <2>1, <2>2 DEF Matches
  <2> QED
    BY <1>k, <2>1, <2>3
<1>u. /\ UNCHANGED <<order_seq, infoVars, active_orders, acctVars, faults>>
      /\ handled_trade' = [handled_trade EXCEPT ![t] = FALSE]
  BY DEF RouteToMatchingEngine
<1>1. RouterTypes' /\ AccountTypes' /\ BookTypes'
  BY <1>0, <1>u, <1>r, <1>e DEF RouterTypes, AccountTypes, BookTypes, infoVars, acctVars
<1>2. ThreadTypes'
  BY <1>0, <1>m, MovesThreadTypes
<1>3. EventTypes'
  BY <1>0, <1>t, <1>f, <1>u DEF EventTypes
<1>4. FinalNotResting'
  BY <1>0, <1>o, <1>u, <1>r DEF FinalNotResting, infoVars
<1>5. RestingTracked'
  BY <1>0, <1>o, <1>u, <1>r DEF RestingTracked, BookTypes
<1>6. RestingCovered'
  BY <1>0, <1>o, <1>u, <1>r DEF RestingCovered, BookTypes, infoVars, acctVars
<1>7. IssuedOnly'
  <2>1. \A u \in Threads : cur'[u] < order_seq'
    BY <1>0, <1>m, <1>u DEF IssuedOnly, Moves
  <2> QED
    BY <1>0, <1>o, <1>u, <1>e, <2>1 DEF IssuedOnly, infoVars, RouterTypes, OrderIds
<1>8. RoutedOnce'
  <2>1. \A u \in Threads : pc'[u] \in PreRoute =>
          /\ u # t /\ pc[u] \in PreRoute
          /\ cur'[u] = cur[u] /\ cur[u] # o /\ cur[u] \in OrderIds
    BY <1>0, <1>m, Serving DEF Moves, PreRoute, RoutedOnce, RouteToMatchingEngine
  <2> QED
    BY <1>0, <1>e, <2>1 DEF RoutedOnce
<1>9. UnseenUntraded'
  BY <1>0, <1>u, <1>r, <1>e DEF UnseenUntraded, infoVars, acctVars
<1>10. ReadyToRest'
  BY <1>0, <1>m, <1>u, MovesReadyToRest DEF infoVars, acctVars
<1>11. EventsSound'
  <2> SUFFICES ASSUME NEW u \in Threads, NEW f \in todo'[u]
               PROVE  /\ pc'[u] \in {"accept", "map"} \cup Events
                      /\ engine_id'[cur'[u]] # 0
                      /\ engine_id'[f.maker] # 0
                      /\ f.taker_filled => rest'[cur'[u]] = 0
                      /\ f.maker_filled => rest'[f.maker] = 0
    BY DEF EventsSound
  <2>1. CASE u = t
    <3>1. f \in MatchEvents(take, left)
      BY <1>0, <1>t, <2>1 DEF EventTypes
    <3>2. /\ f.maker \in OrderIds \ {o}
          /\ engine_id[f.maker] # 0
          /\ f.taker_filled => left = 0
          /\ f.maker_filled => take[f.maker] = rest[f.maker]
      BY <1>f, <3>1 DEF Matches
    <3>3. f.maker_filled => rest'[f.maker] = 0
      BY <1>0, <1>r, <3>2 DEF BookTypes
    <3> QED
      BY <1>m, <1>r, <1>e, <2>1, <3>2, <3>3
  <2>2. CASE u # t
    <3>1. f \in todo[u] /\ f.maker \in OrderIds
      BY <1>0, <1>t, <2>2 DEF EventTypes, Matches
    <3>2. pc'[u] = pc[u] /\ cur'[u] = cur[u] /\ cur[u] \in OrderIds
      BY <1>0, <1>m, <2>2, <3>1, Serving DEF Moves, EventsSound, Events
    <3>3. cur[u] # o /\ f.maker # o
      BY <1>0, <1>o, <3>1 DEF EventsSound
    <3> QED
      BY <1>0, <1>r, <1>e, <3>1, <3>2, <3>3 DEF EventsSound
  <2> QED
    BY <2>1, <2>2
<1>12. CancelsSound'
  <2> SUFFICES ASSUME NEW u \in Threads,
                      pc'[u] \in {"cancel_status", "cancel_release"}
               PROVE  engine_id'[cur'[u]] # 0 /\ rest'[cur'[u]] = 0
    BY DEF CancelsSound
  <2>1. pc'[u] = pc[u] /\ cur'[u] = cur[u] /\ cur[u] \in OrderIds
    BY <1>0, <1>m, Serving DEF Moves
  <2>2. cur[u] # o
    BY <1>0, <1>o, <2>1 DEF CancelsSound
  <2> QED
    BY <1>0, <1>r, <1>e, <2>1, <2>2 DEF CancelsSound
<1> QED
  BY <1>1, <1>2, <1>3, <1>4, <1>5, <1>6, <1>7, <1>8, <1>9, <1>10, <1>11, <1>12
  DEF IInv, TypeOK

\* ClientCancel keeps the invariant: a client's cancel_order.
LEMMA ClientCancelStep ==
    ASSUME IInv, NEW t \in Threads, NEW o \in OrderIds, ClientCancel(t, o)
    PROVE  IInv'
<1>0. RouterTypes /\ AccountTypes /\ BookTypes /\ ThreadTypes /\ EventTypes
    /\ FinalNotResting /\ RestingTracked /\ RestingCovered /\ IssuedOnly /\ RoutedOnce
    /\ UnseenUntraded /\ ReadyToRest /\ EventsSound /\ CancelsSound
  BY DEF IInv, TypeOK
<1>p. /\ pc[t] = "idle" /\ cur[t] = 0
      /\ pc' = [pc EXCEPT ![t] = "cancel_book"]
      /\ cur' = [cur EXCEPT ![t] = o]
      /\ o < order_seq
  BY <1>0 DEF ClientCancel, Cancellable, ThreadTypes, IssuedOnly
<1>u. UNCHANGED <<order_seq, infoVars, active_orders, acctVars, rest, engine_id, todo,
                  handled_trade, faults>>
  BY DEF ClientCancel, bookVars
<1>q. \A u \in Threads : pc'[u] # "cancel_book" => pc'[u] = pc[u] /\ cur'[u] = cur[u]
  BY <1>0, <1>p DEF ThreadTypes
<1>1. RouterTypes' /\ AccountTypes' /\ BookTypes' /\ EventTypes'
  BY <1>0, <1>u DEF RouterTypes, AccountTypes, BookTypes, EventTypes, infoVars, acctVars
<1>2. FinalNotResting' /\ RestingTracked' /\ RestingCovered' /\ UnseenUntraded'
  BY <1>0, <1>u
  DEF FinalNotResting, RestingTracked, RestingCovered, UnseenUntraded, infoVars, acctVars
<1>3. ThreadTypes'
  BY <1>0, <1>p, Bounds DEF ThreadTypes, OrderIds, Steps, Cancelling
<1>4. IssuedOnly'
  BY <1>0, <1>p, <1>u DEF IssuedOnly, ThreadTypes, infoVars
<1>5. RoutedOnce'
  BY <1>0, <1>u, <1>q DEF RoutedOnce, PreRoute
<1>6. ReadyToRest'
  BY <1>0, <1>u, <1>q DEF ReadyToRest, infoVars, acctVars
<1>7. EventsSound'
  <2>1. \A u \in Threads : \A f \in todo[u] : pc'[u] = pc[u] /\ cur'[u] = cur[u]
    BY <1>0, <1>p DEF EventsSound, Events, ThreadTypes
  <2> QED
    BY <1>0, <1>u, <2>1 DEF EventsSound
<1>8. CancelsSound'
  BY <1>0, <1>u, <1>q DEF CancelsSound
<1> QED
  BY <1>1, <1>2, <1>3, <1>4, <1>5, <1>6, <1>7, <1>8 DEF IInv, TypeOK

\* A stuttering step keeps the invariant.
LEMMA StutterStep == ASSUME IInv, UNCHANGED vars PROVE IInv'
BY DEF IInv, TypeOK, RouterTypes, AccountTypes, BookTypes, ThreadTypes, EventTypes,
       FinalNotResting, RestingTracked, RestingCovered, IssuedOnly, RoutedOnce,
       UnseenUntraded, ReadyToRest, EventsSound, CancelsSound,
       vars, infoVars, acctVars, bookVars, threadVars

\* The invariant of OrderRouter is inductive: no interleaving of submissions,
\* event handling, cancels and WAL faults leaves it.
THEOREM Invariance == Spec => []IInv
<1>1. IInv /\ [Next]_vars => IInv'
  <2> SUFFICES ASSUME IInv, [Next]_vars PROVE IInv'
    OBVIOUS
  <2>1. CASE UNCHANGED vars
    BY <2>1, StutterStep
  <2>2. ASSUME NEW t \in Threads, Step(t) PROVE IInv'
    BY <2>2, FokPrecheckStep, FreezeFundsStep, RegisterOrderStep, RouteErrorStep,
       RouteRefusedStep, RouteToMatchingEngineStep, AcceptStatusStep, AcceptMapStep,
       TakerStatusStep, TakerTradeStep, MakerStatusStep, MakerTradeStep,
       TradeFailsStep, IocCheckStep, CancelCheckStep, CancelBookStep,
       CancelStatusStep, CancelReleaseStep
    DEF Step
  <2>3. ASSUME NEW t \in Threads, Call(t) PROVE IInv'
    BY <2>3, SubmitOrderStep, ClientCancelStep DEF Call
  <2> QED
    BY <2>1, <2>2, <2>3 DEF Next
<1> QED
  BY InitInv, <1>1, PTL DEF Spec

\* The variables keep their types; a thread has an order while it serves a call
\* (submit_order, cancel_order) and no longer.
THEOREM TypeCorrect == Spec => []TypeOK
<1>1. IInv => TypeOK
  BY DEF IInv
<1> QED
  BY Invariance, <1>1, PTL

\* handle_success_result writes Filled and Cancelled after the book lock is gone;
\* for any number of threads and orders nothing of such an order is in the book.
THEOREM FinalOrdersAreOut == Spec => []FinalNotResting
<1>1. IInv => FinalNotResting
  BY DEF IInv
<1> QED
  BY Invariance, <1>1, PTL

\* register_active_order and remove_active_order: whatever rests in the book is
\* among the active orders the self-trade check reads.
THEOREM RestingOrdersAreTracked == Spec => []RestingTracked
<1>1. IInv => RestingTracked
  BY DEF IInv
<1> QED
  BY Invariance, <1>1, PTL

\* An untraded order in the book has its whole margin frozen, whichever calls and
\* faults went before: no path of submit_order or cancel_order releases it early.
THEOREM RestingOrdersAreCovered == Spec => []RestingCovered
<1>1. IInv => RestingCovered
  BY DEF IInv
<1> QED
  BY Invariance, <1>1, PTL
==============================================================================
