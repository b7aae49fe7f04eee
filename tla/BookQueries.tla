----------------------------- MODULE BookQueries -----------------------------
(***************************************************************************)
(* The queries of orderbook/order_book.cpp on the book OrderBook.tla       *)
(* drives: best_bid_ask() and depth_snapshot().  bids_ iterates from the   *)
(* highest price, asks_ from the lowest.                                   *)
(***************************************************************************)
EXTENDS OrderBook

Prices(b, side) == {at[2] : at \in {x \in DOMAIN b.levels : x[1] = side}}

\* Faulty: both sides iterate from the lowest price.
LowestFirst(side, p, q) == p < q

BetterPrice(side, p, q) == IF side = "Buy" THEN p > q ELSE p < q

PriceLevelView(b, side, price) ==
  [price |-> price, total |-> b.levels[<<side, price>>].total,
   count |-> Len(b.levels[<<side, price>>].orders)]

\* One side of best_bid_ask(): no view, or the view of begin().
BestOf(b, side) ==
  {PriceLevelView(b, side, p) :
     p \in {x \in Prices(b, side) : \A q \in Prices(b, side) \ {x} : BetterPrice(side, x, q)}}

\* The k-th price from begin() on: the one with k - 1 better ones.
BetterPrices(b, side, p) == {q \in Prices(b, side) : BetterPrice(side, q, p)}
PriceAt(b, side, k) ==
  CHOOSE p \in Prices(b, side) : Cardinality(BetterPrices(b, side, p)) = k - 1

\* One side of depth_snapshot(levels).
DepthOf(b, side, levels) ==
  LET depth == Cardinality(Prices(b, side))
      count == IF levels < depth THEN levels ELSE depth
  IN  [k \in 1 .. count |-> PriceLevelView(b, side, PriceAt(b, side, k))]

-----------------------------------------------------------------------------
BestFirst(side, levels) ==
  LET view == DepthOf(book, side, levels)
      Worse(p, q) == IF side = "Buy" THEN p < q ELSE p > q
  IN  /\ \A j, k \in 1 .. Len(view) : j < k => Worse(view[k].price, view[j].price)
      /\ \A k \in 1 .. Len(view), p \in Prices(book, side) :
           Worse(view[k].price, p) => \E j \in 1 .. k - 1 : view[j].price = p
      /\ view # <<>> => BestOf(book, side) = {view[1]}
      /\ view = <<>> /\ levels > 0 => BestOf(book, side) = {}

\* depth_snapshot() shows the best levels of each side, best first, none left
\* out between two shown, and begins with what best_bid_ask() shows.
SnapshotBestFirst == \A side \in Sides, levels \in 0 .. 3 : BestFirst(side, levels)
=============================================================================
