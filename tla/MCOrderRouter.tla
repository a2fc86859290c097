---------------------------- MODULE MCOrderRouter ----------------------------
(***************************************************************************)
(* Instances of OrderRouter for TLC.                                       *)
(***************************************************************************)
EXTENDS OrderRouter

CONSTANTS a1, a2

Order(a, s, v, p, tif) ==
    [acct |-> a, side |-> s, vol |-> v, price |-> p, tif |-> tif,
     force |-> FALSE, route |-> "book"]

\* Two threads: makers of both accounts, a taker that takes several of them,
\* an IOC order that a thinner book leaves a remainder of, and a FOK order that
\* the engine refuses once the volume was found.
MTRequests ==
    {Order(a1, "SELL", 2, 1, "GFD"),
     Order(a2, "BUY", 3, 1, "IOC"),
     Order(a2, "BUY", 2, 1, "GFD"),
     [Order(a2, "BUY", 2, 1, "FOK") EXCEPT !.route = "refused"]}

\* One thread: every kind of request, a second account that could trade with
\* itself, orders the book does not know or refuses.
SeqRequests ==
    {Order(a1, "SELL", 1, 1, "GFD"),
     Order(a1, "SELL", 2, 2, "GFD"),
     Order(a2, "BUY", 3, 2, "GFD"),
     Order(a2, "BUY", 2, 2, "IOC"),
     Order(a1, "BUY", 2, 2, "FOK"),
     Order(a2, "BUY", 3, 2, "FOK"),
     [Order(a2, "SELL", 1, 1, "GFD") EXCEPT !.force = TRUE],
     [Order(a1, "BUY", 1, 1, "GFD") EXCEPT !.route = "unlisted"],
     [Order(a2, "BUY", 1, 1, "GFD") EXCEPT !.route = "refused"]}

MTMoney == [a \in Accounts |-> 4]
==============================================================================
