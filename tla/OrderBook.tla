------------------------------ MODULE OrderBook ------------------------------
(***************************************************************************)
(* One orderbook::OrderBook fed with any sequence of messages: known and   *)
(* unknown orders, ids used again after they are gone, fills larger than   *)
(* what rests.  The book is single-threaded, so an apply() is one step.    *)
(*                                                                         *)
(* Two histories stand for its readers: `mirror' is the price levels as a  *)
(* subscriber knows them who applies the deltas apply() returns, in order; *)
(* `older' has the pairs of resting orders of which the first was in the   *)
(* book before the second joined.                                          *)
(***************************************************************************)
EXTENDS BookRules

CONSTANTS OrderIds, PriceSet, Quantities

ASSUME QuantitiesAssumption == Quantities \subseteq 0 .. QuantityModulus - 1
ASSUME PricesAssumption == PriceSet \subseteq Int

VARIABLES book,     \* bids_, asks_ and order_index_
          error,    \* the last apply()'s error, or "none"
          mirror, older

bookVars == <<book, error, mirror, older>>

Sides == {"Buy", "Sell"}

BookInit ==
  /\ book = EmptyBook
  /\ error = "none"
  /\ mirror = <<>>
  /\ older = {}

\* The subscriber applies the deltas in order, of which ApplyResult has room
\* for two.
AfterDeltas(known, deltas) ==
  CASE Len(deltas) = 0 -> known
    [] Len(deltas) = 1 -> ApplyDelta(known, deltas[1])
    [] Len(deltas) = 2 -> ApplyDelta(ApplyDelta(known, deltas[1]), deltas[2])

\* Orders that stay are older than one that joins.
AfterArrival(before, after) ==
  LET staying == DOMAIN before.index \cap DOMAIN after.index
      joining == DOMAIN after.index \ DOMAIN before.index
  IN  (older \cap (staying \X staying)) \cup (staying \X joining)

Handle(m) ==
  LET r == Apply(book, m)
  IN  /\ book' = r.book
      /\ error' = r.error
      /\ mirror' = AfterDeltas(mirror, r.deltas)
      /\ older' = AfterArrival(book, r.book)

Add ==
  \E id \in OrderIds, side \in Sides, price \in PriceSet, qty \in Quantities :
    Handle([type |-> "Add", id |-> id, side |-> side, price |-> price, qty |-> qty])

Cancel == \E id \in OrderIds : Handle([type |-> "Cancel", id |-> id])

Execute ==
  \E id \in OrderIds, qty \in Quantities :
    Handle([type |-> "Execute", id |-> id, qty |-> qty])

ReplaceOrder ==
  \E id, new \in OrderIds, price \in PriceSet, qty \in Quantities :
    Handle([type |-> "Replace", id |-> id, new |-> new, price |-> price, qty |-> qty])

BookNext == Add \/ Cancel \/ Execute \/ ReplaceOrder

BookSpec == BookInit /\ [][BookNext]_bookVars

-----------------------------------------------------------------------------
Orders(at) == book.levels[at].orders

\* order_index_ and the levels describe the same orders: following an index
\* entry leads to a level that lists the order, once, and every listed order
\* has its entry.  A stale entry would be a dangling iterator.  A level lasts
\* as long as orders rest there, so best_bid_ask() shows no price nobody quotes.
IndexMatchesLevels ==
  /\ \A id \in DOMAIN book.index :
       LET at == <<book.index[id].side, book.index[id].price>>
       IN  at \in DOMAIN book.levels /\ id \in Range(Orders(at))
  /\ \A at \in DOMAIN book.levels :
       /\ \A k \in 1 .. Len(Orders(at)) :
            /\ HasOrder(book, Orders(at)[k])
            /\ at = <<book.index[Orders(at)[k]].side, book.index[Orders(at)[k]].price>>
       /\ Orders(at) # <<>> /\ IsInjective(Orders(at))

\* The sum of a sequence of numbers.
Sum(s) == LET sum[k \in 0 .. Len(s)] == IF k = 0 THEN 0 ELSE sum[k - 1] + s[k]
          IN  sum[Len(s)]

\* A level's total_quantity, kept by increments over Adds, partial and full
\* fills, Cancels and Replaces, is the sum of what rests there.
TotalsMatchOrders ==
  \A at \in DOMAIN book.levels :
    book.levels[at].total =
      Sum([k \in 1 .. Len(Orders(at)) |-> book.index[Orders(at)[k]].qty]) % QuantityModulus

\* Orders of a level are in the order they joined the book, a replaced order
\* counting as new: price-time priority.
TimePriority ==
  \A at \in DOMAIN book.levels : \A j, k \in 1 .. Len(Orders(at)) :
    j < k <=> <<Orders(at)[j], Orders(at)[k]>> \in older

\* A subscriber that applies the deltas apply() returns, in order, has exactly
\* the levels whose total is not 0, with their totals, same-price Replaces
\* included.
DeltasRebuildBook ==
  \A at \in DOMAIN mirror \cup DOMAIN book.levels : RightAbout(mirror, book, at)

\* "total_quantity == 0 means the level is now empty (the last resting order at
\* that price was just removed)": the subscriber has every level where orders
\* rest.
SubscriberSeesEveryLevel == DOMAIN book.levels \subseteq DOMAIN mirror

\* A message apply() rejects leaves the book as it was.
RejectedChangesNothing ==
  [][error' # "none" => book' = book /\ mirror' = mirror]_bookVars
=============================================================================
