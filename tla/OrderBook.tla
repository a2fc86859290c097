------------------------------ MODULE OrderBook ------------------------------
(***************************************************************************)
(* The limit order book of the external qars library, as src/ uses it:     *)
(* price-time priority, one price level test, partial fills.  Its source   *)
(* is not in the repository; the rules below are those its callers and the *)
(* tests of src/src/matching/engine.rs rely on.                            *)
(*                                                                         *)
(* The book is external, so it is described by what a match must satisfy   *)
(* and not by an algorithm: exactly one `take` satisfies IsMatch.          *)
(***************************************************************************)
EXTENDS Integers, Functions

Sides == {"BUY", "SELL"}

\* Two limit orders can trade with one another.
Crosses(a, b) ==
    /\ a.side # b.side
    /\ IF a.side = "BUY" THEN a.price >= b.price ELSE a.price =< b.price

\* Price, then arrival: resting order m is matched before resting order n.
\* The engine id an order receives on arrival orders the arrivals.
Ahead(req, engine_id, m, n) ==
    \/ /\ req[m].side = "BUY"
       /\ req[m].price > req[n].price
    \/ /\ req[m].side = "SELL"
       /\ req[m].price < req[n].price
    \/ /\ req[m].price = req[n].price
       /\ engine_id[m] < engine_id[n]

\* The resting orders that an incoming request r can trade with.
Opposite(req, rest, r) == {m \in DOMAIN rest : rest[m] > 0 /\ Crosses(r, req[m])}

\* The volume a snapshot of the book offers to r.
Available(req, rest, r) == SumFunctionOnSet(rest, Opposite(req, rest, r))

\* Request r, matched against the book, takes take[m] from every resting
\* order m and leaves `left` of its own volume to rest.
IsMatch(req, rest, engine_id, r, take, left) ==
    LET opp == Opposite(req, rest, r)
    IN  /\ \A m \in DOMAIN rest : take[m] =< (IF m \in opp THEN rest[m] ELSE 0)
        /\ left + SumFunction(take) = r.vol
        /\ left > 0 => \A m \in opp : take[m] = rest[m]
        /\ \A m, n \in opp :
             take[n] > 0 /\ Ahead(req, engine_id, m, n) => take[m] = rest[m]
==============================================================================
