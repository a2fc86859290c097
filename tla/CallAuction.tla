----------------------------- MODULE CallAuction -----------------------------
(***************************************************************************)
(* The clearing price of a call auction: AuctionCalculator of              *)
(* src/src/matching/auction.rs.  Orders are [price, volume] with prices    *)
(* in ticks, so that the rounding to 1/100 loses nothing.                  *)
(***************************************************************************)
EXTENDS Integers, FiniteSetsExt, SequencesExt

NoReference == -1
NoResult == [auction_price |-> 0, auction_volume |-> 0,
             unfilled_buy_volume |-> 0, unfilled_sell_volume |-> 0]

PricesOf(orders) == {orders[i].price : i \in DOMAIN orders}
VolumeOf(orders, Test(_)) ==
    FoldLeft(LAMBDA sum, o : IF Test(o.price) THEN sum + o.volume ELSE sum, 0, orders)

\* Volumes that trade at a price: bids at or above it, offers at or below it.
BuyVolume(buys, price) == VolumeOf(buys, LAMBDA p : p >= price)
SellVolume(sells, price) == VolumeOf(sells, LAMBDA p : p <= price)

MatchVolume(buys, sells, price) == Min({BuyVolume(buys, price), SellVolume(sells, price)})

Distance(p, q) == IF p < q THEN q - p ELSE p - q

\* Of several best prices the one nearest to the reference, the lower of two
\* (the sort is stable); without a reference the middle one, the upper of two.
BestOf(best, reference) ==
    IF reference # NoReference
    THEN Min({p \in best : \A q \in best : Distance(p, reference) <= Distance(q, reference)})
    ELSE SetToSortSeq(best, <)[1 + Cardinality(best) \div 2]

CalculateAuctionPrice(buys, sells, reference) ==
    LET Matched(p) == MatchVolume(buys, sells, p)
        candidates == {p \in PricesOf(buys) \cup PricesOf(sells) : Matched(p) > 0}
        best == {p \in candidates : \A q \in candidates : Matched(q) <= Matched(p)}
        price == BestOf(best, reference)
        bought == BuyVolume(buys, price)
        sold == SellVolume(sells, price)
    IN  IF buys = <<>> \/ sells = <<>> \/ candidates = {} THEN NoResult
        ELSE [auction_price |-> price, auction_volume |-> Min({bought, sold}),
              unfilled_buy_volume |-> bought - Min({bought, sold}),
              unfilled_sell_volume |-> sold - Min({bought, sold})]
------------------------------------------------------------------------------
VARIABLES buy_orders, sell_orders, reference_price
auctionVars == <<buy_orders, sell_orders, reference_price>>

\* The most that any price at all lets trade: the largest volume for which
\* the dearest bids still reach the cheapest offers, unit by unit.
Units(orders, Before(_, _)) ==
    LET UnitsOf(o) == [i \in 1..o.volume |-> o.price]
    IN  SortSeq(FoldLeft(LAMBDA units, o : units \o UnitsOf(o), <<>>, orders), Before)
LargestTrade ==
    LET bids == Units(buy_orders, >)
        offers == Units(sell_orders, <)
    IN  Cardinality({i \in DOMAIN bids \cap DOMAIN offers : bids[i] >= offers[i]})

\* At the price found as much trades as when the dearest bids are paired with
\* the cheapest offers one by one; there is no result only when no bid reaches
\* an offer.
AuctionMaximal ==
    CalculateAuctionPrice(buy_orders, sell_orders, reference_price).auction_volume
        = LargestTrade
=============================================================================
