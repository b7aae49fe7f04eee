------------------------------ MODULE BookRules ------------------------------
(***************************************************************************)
(* orderbook/order_book.cpp as functions of a book: what each apply()      *)
(* overload makes of the book, which error it returns and which price      *)
(* levels it reports as touched.                                           *)
(*                                                                         *)
(* A book is a record: `levels' is bids_ and asks_ together, a function    *)
(* from the <<side, price>> pairs that have a Level; `index' is            *)
(* order_index_, a function from the resting order ids.  A list node is    *)
(* identified by its order id, so Level::orders is a sequence of ids and   *)
(* the remaining quantity an iterator leads to is index[id].qty.           *)
(***************************************************************************)
EXTENDS Integers, Sequences, FiniteSets, Functions

CONSTANT QuantityModulus   \* protocol::Quantity counts modulo this (2^32)

ASSUME ModulusAssumption == QuantityModulus \in Nat \ {0}

Put(f, k, v) == [x \in DOMAIN f \cup {k} |-> IF x = k THEN v ELSE f[x]]
Erase(f, k) == Restrict(f, DOMAIN f \ {k})

EmptyBook == [levels |-> <<>>, index |-> <<>>]

HasOrder(b, id) == id \in DOMAIN b.index

\* level_for(), with the Level that operator[] would create for an absent one.
LevelFor(b, at) ==
  IF at \in DOMAIN b.levels THEN b.levels[at] ELSE [total |-> 0, orders |-> <<>>]

Delta(b, at) == [at |-> at, total |-> LevelFor(b, at).total]

\* What a subscriber makes of a delta, `known' being the totals it has by
\* level: total_quantity == 0 removes the level.
ApplyDelta(known, d) ==
  IF d.total = 0 THEN Erase(known, d.at) ELSE Put(known, d.at, d.total)

\* A subscriber is right about a level: it has its total, and no entry for a
\* level that is gone or that adds up to 0.
RightAbout(known, b, at) ==
  LET total == LevelFor(b, at).total
  IN  IF total = 0 THEN at \notin DOMAIN known
                   ELSE at \in DOMAIN known /\ known[at] = total

\* A sequence without its k-th entry.
Without(s, k) == SubSeq(s, 1, k - 1) \o SubSeq(s, k + 1, Len(s))

\* orders.erase(loc.it): the iterator stands where the order is listed.
EraseListed(orders, id) == Without(orders, CHOOSE k \in 1 .. Len(orders) : orders[k] = id)

-----------------------------------------------------------------------------
(***************************************************************************)
(* The two private helpers, and faulty variants of them.                   *)
(***************************************************************************)

\* Faulty: the new order goes in front of the level's older ones.
InsertAtFront(b, id, side, price, qty) ==
  LET at    == <<side, price>>
      level == LevelFor(b, at)
  IN  [levels |-> Put(b.levels, at, [total  |-> (level.total + qty) % QuantityModulus,
                                     orders |-> <<id>> \o level.orders]),
       index  |-> Put(b.index, id, [side |-> side, price |-> price, qty |-> qty])]

InsertRestingOrder(b, id, side, price, qty) ==
  LET at    == <<side, price>>
      level == LevelFor(b, at)
  IN  [levels |-> Put(b.levels, at, [total  |-> (level.total + qty) % QuantityModulus,
                                     orders |-> Append(level.orders, id)]),
       index  |-> Put(b.index, id, [side |-> side, price |-> price, qty |-> qty])]

\* Faulty: order_index_ keeps the order.
RemoveKeepingIndex(b, id) ==
  LET order == b.index[id]
      at    == <<order.side, order.price>>
      level == b.levels[at]
      left  == EraseListed(level.orders, id)
  IN  [levels |-> IF left = <<>>
                  THEN Erase(b.levels, at)
                  ELSE [b.levels EXCEPT ![at] =
                          [total  |-> (level.total - order.qty) % QuantityModulus,
                           orders |-> left]],
       index  |-> b.index]

RemoveRestingOrder(b, id) ==
  LET order == b.index[id]
      at    == <<order.side, order.price>>
      level == b.levels[at]
      left  == EraseListed(level.orders, id)
  IN  [levels |-> IF left = <<>>
                  THEN Erase(b.levels, at)
                  ELSE [b.levels EXCEPT ![at] =
                          [total  |-> (level.total - order.qty) % QuantityModulus,
                           orders |-> left]],
       index  |-> Erase(b.index, id)]

-----------------------------------------------------------------------------
(***************************************************************************)
(* The four apply() overloads.  Each returns the book it leaves, the error *)
(* if the message was rejected, and the levels touched, in order.          *)
(***************************************************************************)
Rejected(b, error) == [book |-> b, error |-> error, deltas |-> <<>>]
Applied(b, deltas) == [book |-> b, error |-> "none", deltas |-> deltas]

ApplyAdd(b, m) ==
  IF HasOrder(b, m.id)
    THEN Rejected(b, "DuplicateOrderId")
    ELSE LET after == InsertRestingOrder(b, m.id, m.side, m.price, m.qty)
         IN  Applied(after, <<Delta(after, <<m.side, m.price>>)>>)

ApplyCancel(b, m) ==
  IF ~HasOrder(b, m.id)
    THEN Rejected(b, "OrderNotFound")
    ELSE LET order == b.index[m.id]
             after == RemoveRestingOrder(b, m.id)
         IN  Applied(after, <<Delta(after, <<order.side, order.price>>)>>)

\* Faulty: the executed quantity leaves the order only.
FillOrderOnly(b, id, qty) == [b EXCEPT !.index[id].qty = @ - qty]

\* The executed quantity leaves the order and its level.
Fill(b, id, qty) ==
  LET order == b.index[id]
      at    == <<order.side, order.price>>
  IN  [levels |-> [b.levels EXCEPT ![at].total = (@ - qty) % QuantityModulus],
       index  |-> [b.index EXCEPT ![id].qty = @ - qty]]

\* Faulty: the order's quantity is compared too late to reject an overfill.
ApplyExecuteUnchecked(b, m) ==
  IF ~HasOrder(b, m.id)
    THEN Rejected(b, "OrderNotFound")
    ELSE LET at     == <<b.index[m.id].side, b.index[m.id].price>>
             filled == Fill(b, m.id, m.qty)
         IN  IF m.qty > b.index[m.id].qty
               THEN Rejected(filled, "ExecutedQuantityExceedsRemaining")
               ELSE Applied(filled, <<Delta(filled, at)>>)

ApplyExecute(b, m) ==
  IF ~HasOrder(b, m.id)
    THEN Rejected(b, "OrderNotFound")
  ELSE IF m.qty > b.index[m.id].qty
    THEN Rejected(b, "ExecutedQuantityExceedsRemaining")
    ELSE LET at     == <<b.index[m.id].side, b.index[m.id].price>>
             filled == Fill(b, m.id, m.qty)
             after  == IF filled.index[m.id].qty = 0
                         THEN RemoveRestingOrder(filled, m.id)
                         ELSE filled
         IN  Applied(after, <<Delta(after, at)>>)

\* Faulty: only the new level is reported.
ApplyReplaceOneDelta(b, m) ==
  IF ~HasOrder(b, m.id)
    THEN Rejected(b, "OrderNotFound")
  ELSE IF HasOrder(b, m.new)
    THEN Rejected(b, "DuplicateOrderId")
    ELSE LET side  == b.index[m.id].side
             after == InsertRestingOrder(RemoveRestingOrder(b, m.id), m.new, side, m.price, m.qty)
         IN  Applied(after, <<Delta(after, <<side, m.price>>)>>)

\* The old order leaves its level before the new one joins the back of its own.
ApplyReplace(b, m) ==
  IF ~HasOrder(b, m.id)
    THEN Rejected(b, "OrderNotFound")
  ELSE IF HasOrder(b, m.new)
    THEN Rejected(b, "DuplicateOrderId")
    ELSE LET old     == b.index[m.id]
             vacated == RemoveRestingOrder(b, m.id)
             after   == InsertRestingOrder(vacated, m.new, old.side, m.price, m.qty)
         IN  Applied(after, <<Delta(vacated, <<old.side, old.price>>),
                              Delta(after, <<old.side, m.price>>)>>)

Apply(b, m) ==
  CASE m.type = "Add"     -> ApplyAdd(b, m)
    [] m.type = "Cancel"  -> ApplyCancel(b, m)
    [] m.type = "Execute" -> ApplyExecute(b, m)
    [] m.type = "Replace" -> ApplyReplace(b, m)

=============================================================================
