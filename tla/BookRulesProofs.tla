--------------------------- MODULE BookRulesProofs ---------------------------
(***************************************************************************)
(* What apply() of orderbook/order_book.cpp makes of a well-formed book,   *)
(* whatever the message: another one, with deltas that tell the step; and  *)
(* what a sequence of deltas tells whoever applies them.                   *)
(***************************************************************************)
EXTENDS BookRules, TLAPS, SequenceTheorems

\* Quantities stay in their width.
LEMMA ModRange == \A x \in Int : x % QuantityModulus \in 0 .. QuantityModulus - 1
BY ModulusAssumption

\* A level's total stays in its range when a quantity is taken off.
LEMMA LessRange ==
  \A t \in 0 .. QuantityModulus - 1, q \in Nat : (t - q) % QuantityModulus \in 0 .. QuantityModulus - 1
BY ModulusAssumption, ModRange

\* A sequence over S whose entries are in T is a sequence over T.
LEMMA SeqNarrow ==
  ASSUME NEW S, NEW T, NEW s \in Seq(S), \A i \in 1 .. Len(s) : s[i] \in T
  PROVE  s \in Seq(T)
<1>1. s \in [1 .. Len(s) -> T] /\ Len(s) \in Nat
  OBVIOUS
<1> QED BY <1>1, SeqDef

\* Erasing the k-th entry moves the later ones up by one.
LEMMA WithoutEntries ==
  ASSUME NEW S, NEW s \in Seq(S), NEW k \in 1 .. Len(s)
  PROVE  /\ Without(s, k) \in Seq(S)
         /\ Len(Without(s, k)) = Len(s) - 1
         /\ \A i \in 1 .. Len(s) - 1 : Without(s, k)[i] = IF i < k THEN s[i] ELSE s[i + 1]
<1> DEFINE u == SubSeq(s, 1, k - 1)
           v == SubSeq(s, k + 1, Len(s))
<1>1. u \in Seq(S) /\ Len(u) = k - 1 /\ \A i \in 1 .. k - 1 : u[i] = s[i]
  OBVIOUS
<1>2. v \in Seq(S) /\ Len(v) = Len(s) - k /\ \A i \in 1 .. Len(s) - k : v[i] = s[k + i]
  OBVIOUS
<1>3. Without(s, k) = u \o v
  BY DEF Without
<1> HIDE DEF u, v
<1>4. u \o v \in Seq(S) /\ Len(u \o v) = Len(s) - 1
  BY <1>1, <1>2
<1>5. ASSUME NEW i \in 1 .. Len(s) - 1
      PROVE  (u \o v)[i] = IF i < k THEN s[i] ELSE s[i + 1]
  <2>1. CASE i < k
    BY <2>1, <1>1, <1>2
  <2>2. CASE ~(i < k)
    <3>1. (u \o v)[i] = v[i - (k - 1)]
      BY <2>2, <1>1, <1>2
    <3>2. i - (k - 1) \in 1 .. Len(s) - k /\ k + (i - (k - 1)) = i + 1
      BY <2>2
    <3> QED BY <3>1, <3>2, <2>2, <1>2
  <2> QED BY <2>1, <2>2, Zenon
<1> QED BY <1>3, <1>4, <1>5

\* Erasing a listed order leaves the other entries, in their order.
LEMMA EraseListedEntries ==
  ASSUME NEW S, NEW s \in Seq(S), NEW id,
         \E k \in 1 .. Len(s) : s[k] = id
  PROVE  \E k \in 1 .. Len(s) :
           /\ s[k] = id
           /\ EraseListed(s, id) \in Seq(S)
           /\ Len(EraseListed(s, id)) = Len(s) - 1
           /\ \A i \in 1 .. Len(s) - 1 : EraseListed(s, id)[i] = IF i < k THEN s[i] ELSE s[i + 1]
<1> DEFINE k == CHOOSE k \in 1 .. Len(s) : s[k] = id
<1>1. k \in 1 .. Len(s) /\ s[k] = id
  OBVIOUS
<1>2. EraseListed(s, id) = Without(s, k)
  BY DEF EraseListed
<1> HIDE DEF k
<1> QED BY <1>1, <1>2, WithoutEntries, ZenonT(30)

-----------------------------------------------------------------------------
BookSides == {"Buy", "Sell"}

\* The values a book is made of.
BookTyped(b) ==
  /\ b.index \in [DOMAIN b.index -> [side : BookSides, price : Int, qty : Nat]]
  /\ b.levels \in [DOMAIN b.levels ->
                     [total : 0 .. QuantityModulus - 1, orders : Seq(DOMAIN b.index)]]
  /\ DOMAIN b.levels \subseteq BookSides \X Int

\* Index and levels describe the same orders.
BookLinked(b) ==
  /\ \A id \in DOMAIN b.index :
       /\ <<b.index[id].side, b.index[id].price>> \in DOMAIN b.levels
       /\ \E k \in 1 .. Len(b.levels[<<b.index[id].side, b.index[id].price>>].orders) :
            b.levels[<<b.index[id].side, b.index[id].price>>].orders[k] = id
  /\ \A at \in DOMAIN b.levels :
       /\ b.levels[at].orders # <<>>
       /\ \A k \in 1 .. Len(b.levels[at].orders) :
            at = <<b.index[b.levels[at].orders[k]].side, b.index[b.levels[at].orders[k]].price>>
       /\ \A j, k \in 1 .. Len(b.levels[at].orders) :
            b.levels[at].orders[j] = b.levels[at].orders[k] => j = k

BookOK(b) == BookTyped(b) /\ BookLinked(b)

\* A new book is well-formed.
LEMMA EmptyBookOK == BookOK(EmptyBook)
BY DEF BookOK, BookTyped, BookLinked, EmptyBook

\* What an insertion leaves, entry by entry.
InsertedInto(a, b, id, order, here, old) ==
  /\ here \in BookSides \X Int /\ here = <<order.side, order.price>>
  /\ DOMAIN a.index = DOMAIN b.index \cup {id}
  /\ DOMAIN a.levels = DOMAIN b.levels \cup {here}
  /\ a.index[id] = order
  /\ \A x \in DOMAIN b.index : x # id /\ a.index[x] = b.index[x]
  /\ \A at \in DOMAIN b.levels : at # here => a.levels[at] = b.levels[at]
  /\ a.levels[here] = [total  |-> (old.total + order.qty) % QuantityModulus,
                       orders |-> Append(old.orders, id)]
  /\ a.index = [x \in DOMAIN a.index |-> a.index[x]]
  /\ a.levels = [x \in DOMAIN a.levels |-> a.levels[x]]

\* insert_resting_order() does that.
LEMMA InsertedBook ==
  ASSUME NEW b, BookOK(b), NEW id, ~HasOrder(b, id),
         NEW side \in BookSides, NEW price \in Int, NEW qty \in Nat
  PROVE  InsertedInto(InsertRestingOrder(b, id, side, price, qty), b, id,
                      [side |-> side, price |-> price, qty |-> qty], <<side, price>>,
                      LevelFor(b, <<side, price>>))
BY DEF InsertedInto, InsertRestingOrder, Put, HasOrder

\* A level that operator[] returns is one of the book, or new and empty.
LevelFound(b, here, old) ==
  /\ old.total \in 0 .. QuantityModulus - 1 /\ old.orders \in Seq(DOMAIN b.index)
  /\ here \in DOMAIN b.levels => old = b.levels[here]
  /\ here \notin DOMAIN b.levels => old.orders = <<>>

\* level_for() finds such a level.
LEMMA LevelForFound ==
  ASSUME NEW b, BookOK(b), NEW here
  PROVE  LevelFound(b, here, LevelFor(b, here))
<1> DEFINE old == LevelFor(b, here)
<1>1. CASE here \in DOMAIN b.levels
  <2>1. old = b.levels[here]
    BY <1>1 DEF LevelFor
  <2>2. b.levels[here] \in [total : 0 .. QuantityModulus - 1, orders : Seq(DOMAIN b.index)]
    BY <1>1 DEF BookOK, BookTyped
  <2> QED BY <1>1, <2>1, <2>2 DEF LevelFound
<1>2. CASE here \notin DOMAIN b.levels
  <2>1. old = [total |-> 0, orders |-> <<>>]
    BY <1>2 DEF LevelFor
  <2>2. old.total = 0 /\ old.orders = <<>>
    BY <2>1
  <2>3. 0 \in 0 .. QuantityModulus - 1
    BY ModulusAssumption
  <2>4. <<>> \in Seq(DOMAIN b.index)
    OBVIOUS
  <2> QED BY <1>2, <2>2, <2>3, <2>4 DEF LevelFound
<1> QED BY <1>1, <1>2

\* Such a step keeps index and levels in agreement.
LEMMA InsertedBookOK ==
  ASSUME NEW b, BookOK(b), NEW id, NEW order \in [side : BookSides, price : Int, qty : Nat],
         NEW a, NEW here, NEW old, LevelFound(b, here, old),
         InsertedInto(a, b, id, order, here, old)
  PROVE  BookOK(a)
<1>a. a.levels[here] = [total  |-> (old.total + order.qty) % QuantityModulus,
                        orders |-> Append(old.orders, id)]
  BY DEF InsertedInto
<1>b. a.levels[here].orders = Append(old.orders, id)
  BY <1>a
<1>1. BookTyped(a)
  <2>1. ASSUME NEW x \in DOMAIN a.index
        PROVE  a.index[x] \in [side : BookSides, price : Int, qty : Nat]
    BY <2>1 DEF BookOK, BookTyped, InsertedInto
  <2>2. ASSUME NEW at \in DOMAIN a.levels
        PROVE  a.levels[at] \in [total : 0 .. QuantityModulus - 1, orders : Seq(DOMAIN a.index)]
    <3>1. CASE at = here
      <4>1. (old.total + order.qty) % QuantityModulus \in 0 .. QuantityModulus - 1
        <5>1. old.total + order.qty \in Int
          BY DEF LevelFound
        <5> QED BY <5>1, ModRange
      <4>2. Append(old.orders, id) \in Seq(DOMAIN a.index)
        BY DEF InsertedInto, LevelFound
      <4> QED BY <3>1, <4>1, <4>2, <1>a
    <3>2. CASE at # here
      BY <3>2 DEF BookOK, BookTyped, InsertedInto
    <3> QED BY <3>1, <3>2
  <2>3. DOMAIN a.levels \subseteq BookSides \X Int
    BY DEF BookOK, BookTyped, InsertedInto
  <2> QED BY <2>1, <2>2, <2>3, Zenon DEF BookTyped, InsertedInto
<1>2. BookLinked(a)
  <2>1. ASSUME NEW x \in DOMAIN a.index
        PROVE  /\ <<a.index[x].side, a.index[x].price>> \in DOMAIN a.levels
               /\ \E k \in 1 .. Len(a.levels[<<a.index[x].side, a.index[x].price>>].orders) :
                    a.levels[<<a.index[x].side, a.index[x].price>>].orders[k] = x
    <3>1. CASE x = id
      <4>1. here \in DOMAIN a.levels /\ here = <<a.index[x].side, a.index[x].price>>
        BY <3>1 DEF InsertedInto
      <4>2. \E k \in 1 .. Len(Append(old.orders, id)) : Append(old.orders, id)[k] = id
        <5>1. old.orders \in Seq(DOMAIN a.index) /\ id \in DOMAIN a.index
          BY DEF InsertedInto, LevelFound
        <5>2. Len(old.orders) + 1 \in 1 .. Len(Append(old.orders, id))
          BY <5>1
        <5> QED BY <5>1, <5>2
      <4> QED BY <3>1, <4>1, <4>2, <1>b, Zenon
    <3>2. CASE x # id
      <4>1. x \in DOMAIN b.index /\ a.index[x] = b.index[x]
        BY <3>2 DEF InsertedInto
      <4> DEFINE at == <<b.index[x].side, b.index[x].price>>
      <4>2. PICK k \in 1 .. Len(b.levels[at].orders) : b.levels[at].orders[k] = x
        BY <4>1, Zenon DEF BookOK, BookLinked
      <4>3. at \in DOMAIN b.levels
        BY <4>1, Zenon DEF BookOK, BookLinked
      <4> HIDE DEF at
      <4>4. k \in 1 .. Len(a.levels[at].orders) /\ a.levels[at].orders[k] = x
        <5>1. CASE at = here
          <6>1. a.levels[at].orders = Append(old.orders, id) /\ b.levels[at].orders = old.orders
            BY <5>1, <4>3, <1>b DEF LevelFound
          <6> QED BY <6>1, <4>2 DEF LevelFound
        <5>2. CASE at # here
          BY <5>2, <4>2, <4>3 DEF InsertedInto
        <5> QED BY <5>1, <5>2
      <4> QED BY <4>1, <4>3, <4>4, Zenon DEF at, InsertedInto
    <3> QED BY <3>1, <3>2, Zenon
  <2>2. ASSUME NEW at \in DOMAIN a.levels
        PROVE  /\ a.levels[at].orders # <<>>
               /\ \A k \in 1 .. Len(a.levels[at].orders) :
                    at = <<a.index[a.levels[at].orders[k]].side,
                           a.index[a.levels[at].orders[k]].price>>
               /\ \A j, k \in 1 .. Len(a.levels[at].orders) :
                    a.levels[at].orders[j] = a.levels[at].orders[k] => j = k
    <3>1. CASE at = here
      <4>1. \A k \in 1 .. Len(old.orders) :
              /\ old.orders[k] \in DOMAIN b.index
              /\ here = <<b.index[old.orders[k]].side, b.index[old.orders[k]].price>>
        BY SMTT(20) DEF BookOK, BookLinked, LevelFound
      <4>2. \A j, k \in 1 .. Len(old.orders) : old.orders[j] = old.orders[k] => j = k
        BY DEF BookOK, BookLinked, LevelFound
      <4> DEFINE u == Append(old.orders, id)
      <4>3. /\ u # <<>> /\ Len(u) = Len(old.orders) + 1 /\ u[Len(old.orders) + 1] = id
            /\ \A k \in 1 .. Len(old.orders) : u[k] = old.orders[k]
            /\ Len(old.orders) \in Nat
        <5>1. old.orders \in Seq(DOMAIN a.index) /\ id \in DOMAIN a.index
          BY DEF InsertedInto, LevelFound
        <5> QED BY <5>1
      <4>4. a.levels[at].orders = u
        BY <3>1, <1>b
      <4> HIDE DEF u
      <4>5. \A k \in 1 .. Len(u) : here = <<a.index[u[k]].side, a.index[u[k]].price>>
        <5> TAKE k \in 1 .. Len(u)
        <5>1. CASE k = Len(old.orders) + 1
          BY <5>1, <4>3 DEF InsertedInto
        <5>2. CASE k \in 1 .. Len(old.orders)
          <6>1. u[k] = old.orders[k] /\ old.orders[k] \in DOMAIN b.index
            BY <5>2, <4>3, <4>1, Zenon
          <6>2. a.index[old.orders[k]] = b.index[old.orders[k]]
            BY <6>1, Zenon DEF InsertedInto
          <6> QED BY <5>2, <6>1, <6>2, <4>1, Zenon
        <5> QED BY <5>1, <5>2, <4>3
      <4>6. \A j, k \in 1 .. Len(u) : u[j] = u[k] => j = k
        <5>1. id \notin DOMAIN b.index
          BY DEF InsertedInto
        <5>2. \A k \in 1 .. Len(old.orders) : u[k] # id
          BY <5>1, <4>1, <4>3
        <5> QED BY <5>2, <4>2, <4>3, SMTT(20)
      <4> QED BY <3>1, <4>3, <4>4, <4>5, <4>6, SMTT(20)
    <3>2. CASE at # here
      <4>1. at \in DOMAIN b.levels /\ a.levels[at] = b.levels[at]
        BY <3>2 DEF InsertedInto
      <4>2. \A k \in 1 .. Len(b.levels[at].orders) : b.levels[at].orders[k] \in DOMAIN b.index
        <5>1. b.levels[at] \in [total : 0 .. QuantityModulus - 1, orders : Seq(DOMAIN b.index)]
          BY <4>1, Zenon DEF BookOK, BookTyped
        <5>2. b.levels[at].orders \in Seq(DOMAIN b.index)
          BY <5>1
        <5> QED BY <5>2, ElementOfSeq
      <4>3. \A k \in 1 .. Len(b.levels[at].orders) :
              a.index[b.levels[at].orders[k]] = b.index[b.levels[at].orders[k]]
        BY <4>2 DEF InsertedInto
      <4>4. /\ b.levels[at].orders # <<>>
            /\ \A k \in 1 .. Len(b.levels[at].orders) :
                 at = <<b.index[b.levels[at].orders[k]].side,
                        b.index[b.levels[at].orders[k]].price>>
            /\ \A j, k \in 1 .. Len(b.levels[at].orders) :
                 b.levels[at].orders[j] = b.levels[at].orders[k] => j = k
        BY <4>1, Zenon DEF BookOK, BookLinked
      <4> QED BY <4>1, <4>3, <4>4, Zenon
    <3> QED BY <3>1, <3>2, Zenon
  <2> QED BY <2>1, <2>2, Zenon DEF BookLinked
<1> QED BY <1>1, <1>2 DEF BookOK

\* insert_resting_order() keeps index and levels in agreement.
LEMMA InsertKeepsBook ==
  ASSUME NEW b, BookOK(b), NEW id, ~HasOrder(b, id),
         NEW side \in BookSides, NEW price \in Int, NEW qty \in Nat
  PROVE  BookOK(InsertRestingOrder(b, id, side, price, qty))
<1>1. [side |-> side, price |-> price, qty |-> qty] \in [side : BookSides, price : Int, qty : Nat]
  OBVIOUS
<1> QED BY <1>1, InsertedBook, InsertedBookOK, LevelForFound, ZenonT(30)

\* Where an order rests, the orders of that level, and those left without it.
RestsAt(b, id, here, old, left) ==
  /\ here = <<b.index[id].side, b.index[id].price>>
  /\ old = b.levels[here].orders
  /\ left = EraseListed(old, id)

\* What a removal leaves, entry by entry.
RemovedFrom(a, b, id, here, left) ==
  /\ here \in DOMAIN b.levels
  /\ DOMAIN a.index = DOMAIN b.index \ {id}
  /\ \A x \in DOMAIN a.index : a.index[x] = b.index[x]
  /\ DOMAIN a.levels = IF left = <<>> THEN DOMAIN b.levels \ {here} ELSE DOMAIN b.levels
  /\ \A at \in DOMAIN a.levels : at # here => a.levels[at] = b.levels[at]
  /\ left # <<>> => a.levels[here] =
       [total  |-> (b.levels[here].total - b.index[id].qty) % QuantityModulus,
        orders |-> left]
  /\ a.index = [x \in DOMAIN a.index |-> a.index[x]]
  /\ a.levels = [x \in DOMAIN a.levels |-> a.levels[x]]

\* remove_resting_order() does that.
LEMMA RemovedBook ==
  ASSUME NEW b, BookOK(b), NEW id, HasOrder(b, id), NEW here, NEW old, NEW left,
         RestsAt(b, id, here, old, left)
  PROVE  RemovedFrom(RemoveRestingOrder(b, id), b, id, here, left)
<1> SUFFICES ASSUME NEW a, a = RemoveRestingOrder(b, id)
             PROVE  RemovedFrom(a, b, id, here, left)
  OBVIOUS
<1> USE DEF RemovedFrom
<1>1. here \in DOMAIN b.levels
  BY Zenon DEF RestsAt, BookOK, BookLinked, HasOrder
<1>2. a.index = Erase(b.index, id)
  BY DEF RemoveRestingOrder
<1>3. a.levels = IF left = <<>> THEN Erase(b.levels, here)
                 ELSE [b.levels EXCEPT ![here] =
                         [total  |-> (b.levels[here].total - b.index[id].qty) % QuantityModulus,
                          orders |-> left]]
  BY Zenon DEF RestsAt, RemoveRestingOrder
<1>4. /\ DOMAIN a.index = DOMAIN b.index \ {id} /\ \A x \in DOMAIN a.index : a.index[x] = b.index[x]
      /\ a.index = [x \in DOMAIN a.index |-> a.index[x]]
  BY <1>2 DEF Erase, Restrict
<1>5. CASE left = <<>>
  BY <1>1, <1>3, <1>4, <1>5 DEF Erase, Restrict
<1>6. CASE left # <<>>
  BY <1>1, <1>3, <1>4, <1>6
<1> QED BY <1>5, <1>6

\* Such a step keeps index and levels in agreement.
LEMMA RemovedBookOK ==
  ASSUME NEW b, BookOK(b), NEW id, HasOrder(b, id), NEW here, NEW old, NEW left,
         RestsAt(b, id, here, old, left), NEW a, RemovedFrom(a, b, id, here, left)
  PROVE  BookOK(a)
<1>1. /\ b.levels[here] \in [total : 0 .. QuantityModulus - 1, orders : Seq(DOMAIN b.index)]
      /\ b.index[id] \in [side : BookSides, price : Int, qty : Nat]
  BY DEF BookOK, BookTyped, HasOrder, RemovedFrom
<1>2. old \in Seq(DOMAIN b.index)
  BY <1>1, ZenonT(30) DEF RestsAt
<1>3. /\ \A k \in 1 .. Len(old) : here = <<b.index[old[k]].side, b.index[old[k]].price>>
      /\ \A j, k \in 1 .. Len(old) : old[j] = old[k] => j = k
  <2>1. old = b.levels[here].orders /\ here \in DOMAIN b.levels
    BY Zenon DEF RestsAt, RemovedFrom
  <2> QED BY <2>1, ZenonT(30) DEF BookOK, BookLinked
<1>4. PICK k \in 1 .. Len(old) :
        /\ old[k] = id
        /\ left \in Seq(DOMAIN b.index)
        /\ Len(left) = Len(old) - 1
        /\ \A i \in 1 .. Len(old) - 1 : left[i] = IF i < k THEN old[i] ELSE old[i + 1]
  <2>1. \E k \in 1 .. Len(old) : old[k] = id
    BY Zenon DEF BookOK, BookLinked, HasOrder, RestsAt
  <2>2. left = EraseListed(old, id)
    BY DEF RestsAt
  <2>3. \E k \in 1 .. Len(old) :
          /\ old[k] = id
          /\ EraseListed(old, id) \in Seq(DOMAIN b.index)
          /\ Len(EraseListed(old, id)) = Len(old) - 1
          /\ \A i \in 1 .. Len(old) - 1 :
               EraseListed(old, id)[i] = IF i < k THEN old[i] ELSE old[i + 1]
    BY <1>2, <2>1, EraseListedEntries
  <2> QED BY <2>2, <2>3
<1> DEFINE Was(i) == IF i < k THEN i ELSE i + 1
<1>5. \A i \in 1 .. Len(left) :
        Was(i) \in 1 .. Len(old) /\ Was(i) # k /\ left[i] = old[Was(i)]
  BY <1>2, <1>4
<1>6. \A j \in 1 .. Len(old) : j # k => \E i \in 1 .. Len(left) : Was(i) = j
  <2> TAKE j \in 1 .. Len(old)
  <2> HAVE j # k
  <2>1. CASE j < k
    <3>1. j \in 1 .. Len(left) /\ Was(j) = j
      BY <2>1, <1>2, <1>4
    <3> QED BY <3>1
  <2>2. CASE j > k
    <3>1. j - 1 \in 1 .. Len(left) /\ Was(j - 1) = j
      BY <2>2, <1>2, <1>4
    <3> QED BY <3>1
  <2> QED BY <2>1, <2>2, <1>2
<1>7. \A i, j \in 1 .. Len(left) : Was(i) = Was(j) => i = j
  BY <1>2, <1>4
<1> HIDE DEF Was
<1>8. \A i \in 1 .. Len(left) : left[i] \in DOMAIN a.index
  BY <1>2, <1>3, <1>4, <1>5 DEF RemovedFrom
<1>9. BookTyped(a)
  <2>1. ASSUME NEW x \in DOMAIN a.index
        PROVE  a.index[x] \in [side : BookSides, price : Int, qty : Nat]
    BY DEF BookOK, BookTyped, RemovedFrom
  <2>2. ASSUME NEW at \in DOMAIN a.levels
        PROVE  a.levels[at] \in [total : 0 .. QuantityModulus - 1, orders : Seq(DOMAIN a.index)]
    <3>1. CASE at = here
      <4>1. (b.levels[here].total - b.index[id].qty) % QuantityModulus \in 0 .. QuantityModulus - 1
        <5>1. b.levels[here].total \in 0 .. QuantityModulus - 1 /\ b.index[id].qty \in Nat
          BY <1>1
        <5> QED BY <5>1, LessRange, Zenon
      <4>2. left \in Seq(DOMAIN a.index)
        BY <1>4, <1>8, SeqNarrow, Zenon
      <4>3. left # <<>>
        BY <3>1, <2>2 DEF RemovedFrom
      <4> QED BY <3>1, <4>1, <4>2, <4>3 DEF RemovedFrom
    <3>2. CASE at # here
      <4>1. at \in DOMAIN b.levels /\ a.levels[at] = b.levels[at]
        BY <3>2 DEF RemovedFrom
      <4>2. b.levels[at] \in [total : 0 .. QuantityModulus - 1, orders : Seq(DOMAIN b.index)]
        BY <4>1 DEF BookOK, BookTyped
      <4>3. \A i \in 1 .. Len(b.levels[at].orders) : b.levels[at].orders[i] # id
        <5>1. \A i \in 1 .. Len(b.levels[at].orders) :
                at = <<b.index[b.levels[at].orders[i]].side, b.index[b.levels[at].orders[i]].price>>
          BY <4>1, Zenon DEF BookOK, BookLinked
        <5> QED BY <5>1, <3>2, ZenonT(30) DEF RestsAt
      <4>4. \A i \in 1 .. Len(b.levels[at].orders) : b.levels[at].orders[i] \in DOMAIN a.index
        BY <4>2, <4>3 DEF RemovedFrom
      <4>5. b.levels[at].orders \in Seq(DOMAIN a.index)
        BY <4>2, <4>4, SeqNarrow, Zenon
      <4> QED BY <4>1, <4>2, <4>5
    <3> QED BY <3>1, <3>2
  <2>3. DOMAIN a.levels \subseteq BookSides \X Int
    BY DEF BookOK, BookTyped, RemovedFrom
  <2> QED BY <2>1, <2>2, <2>3, Zenon DEF BookTyped, RemovedFrom
<1>10. BookLinked(a)
  <2>1. ASSUME NEW x \in DOMAIN a.index
        PROVE  /\ <<a.index[x].side, a.index[x].price>> \in DOMAIN a.levels
               /\ \E i \in 1 .. Len(a.levels[<<a.index[x].side, a.index[x].price>>].orders) :
                    a.levels[<<a.index[x].side, a.index[x].price>>].orders[i] = x
    <3> DEFINE at == <<b.index[x].side, b.index[x].price>>
    <3>1. x \in DOMAIN b.index /\ x # id /\ a.index[x] = b.index[x]
      BY DEF RemovedFrom
    <3>2. at \in DOMAIN b.levels /\ \E j \in 1 .. Len(b.levels[at].orders) : b.levels[at].orders[j] = x
      BY <3>1, Zenon DEF BookOK, BookLinked
    <3>3. at \in DOMAIN a.levels /\ \E i \in 1 .. Len(a.levels[at].orders) : a.levels[at].orders[i] = x
      <4> HIDE DEF at
      <4>1. CASE at = here
        <5>1. PICK j \in 1 .. Len(old) : old[j] = x
          BY <3>2, <4>1, Zenon DEF RestsAt
        <5>2. PICK i \in 1 .. Len(left) : Was(i) = j
          BY <5>1, <3>1, <1>4, <1>6
        <5>3. left[i] = x
          BY <5>1, <5>2, <1>5
        <5>4. left # <<>>
          BY <5>2
        <5>5. a.levels[at].orders = left
          BY <5>4, <4>1 DEF RemovedFrom
        <5> QED BY <5>2, <5>3, <5>4, <5>5, <4>1, <3>2 DEF RemovedFrom
      <4>2. CASE at # here
        BY <4>2, <3>2 DEF RemovedFrom
      <4> QED BY <4>1, <4>2
    <3> QED BY <3>1, <3>3
  <2>2. ASSUME NEW at \in DOMAIN a.levels
        PROVE  /\ a.levels[at].orders # <<>>
               /\ \A i \in 1 .. Len(a.levels[at].orders) :
                    at = <<a.index[a.levels[at].orders[i]].side,
                           a.index[a.levels[at].orders[i]].price>>
               /\ \A i, j \in 1 .. Len(a.levels[at].orders) :
                    a.levels[at].orders[i] = a.levels[at].orders[j] => i = j
    <3>1. CASE at = here
      <4>1. left # <<>> /\ a.levels[at].orders = left
        BY <3>1, <2>2 DEF RemovedFrom
      <4>2. \A i \in 1 .. Len(left) : here = <<a.index[left[i]].side, a.index[left[i]].price>>
        BY <1>3, <1>5, <1>8 DEF RemovedFrom
      <4>3. \A i, j \in 1 .. Len(left) : left[i] = left[j] => i = j
        BY <1>3, <1>5, <1>7, Zenon
      <4> QED BY <3>1, <4>1, <4>2, <4>3
    <3>2. CASE at # here
      <4>1. at \in DOMAIN b.levels /\ a.levels[at] = b.levels[at]
        BY <3>2 DEF RemovedFrom
      <4>2. /\ b.levels[at].orders # <<>>
            /\ \A i \in 1 .. Len(b.levels[at].orders) :
                 at = <<b.index[b.levels[at].orders[i]].side,
                        b.index[b.levels[at].orders[i]].price>>
            /\ \A i, j \in 1 .. Len(b.levels[at].orders) :
                 b.levels[at].orders[i] = b.levels[at].orders[j] => i = j
        BY <4>1, Zenon DEF BookOK, BookLinked
      <4>3. \A i \in 1 .. Len(a.levels[at].orders) : a.levels[at].orders[i] \in DOMAIN a.index
        BY <1>9, SMTT(20) DEF BookTyped
      <4>4. \A i \in 1 .. Len(b.levels[at].orders) :
              a.index[b.levels[at].orders[i]] = b.index[b.levels[at].orders[i]]
        BY <4>1, <4>3 DEF RemovedFrom
      <4> QED BY <4>1, <4>2, <4>4, Zenon
    <3> QED BY <3>1, <3>2, Zenon
  <2> QED BY <2>1, <2>2, Zenon DEF BookLinked
<1> QED BY <1>9, <1>10 DEF BookOK

\* remove_resting_order() keeps index and levels in agreement.
LEMMA RemoveKeepsBook ==
  ASSUME NEW b, BookOK(b), NEW id, HasOrder(b, id)
  PROVE  BookOK(RemoveRestingOrder(b, id))
<1>1. \E here, old, left : RestsAt(b, id, here, old, left)
  BY Zenon DEF RestsAt
<1> QED BY <1>1, RemovedBook, RemovedBookOK
-----------------------------------------------------------------------------
\* What a fill leaves, entry by entry.
FilledAt(a, b, id, qty, here) ==
  /\ here \in DOMAIN b.levels
  /\ DOMAIN a.index = DOMAIN b.index
  /\ DOMAIN a.levels = DOMAIN b.levels
  /\ a.index[id] = [b.index[id] EXCEPT !.qty = b.index[id].qty - qty]
  /\ \A x \in DOMAIN b.index : x # id => a.index[x] = b.index[x]
  /\ a.levels[here] = [b.levels[here] EXCEPT
                         !.total = (b.levels[here].total - qty) % QuantityModulus]
  /\ \A at \in DOMAIN b.levels : at # here => a.levels[at] = b.levels[at]
  /\ a.index = [x \in DOMAIN a.index |-> a.index[x]]
  /\ a.levels = [x \in DOMAIN a.levels |-> a.levels[x]]

\* An execution does that to the order and its level.
LEMMA FilledBook ==
  ASSUME NEW b, BookOK(b), NEW id, HasOrder(b, id), NEW qty, NEW here,
         here = <<b.index[id].side, b.index[id].price>>
  PROVE  FilledAt(Fill(b, id, qty), b, id, qty, here)
<1> SUFFICES ASSUME NEW a, a = Fill(b, id, qty)
             PROVE  FilledAt(a, b, id, qty, here)
  BY Zenon
<1>1. here \in DOMAIN b.levels /\ id \in DOMAIN b.index
  BY Zenon DEF BookOK, BookLinked, HasOrder
<1>2. a.index = [b.index EXCEPT ![id].qty = @ - qty]
  BY Zenon DEF Fill
<1>3. a.levels = [b.levels EXCEPT ![here].total = (@ - qty) % QuantityModulus]
  BY Zenon DEF Fill
<1>4. /\ DOMAIN a.index = DOMAIN b.index
      /\ a.index[id] = [b.index[id] EXCEPT !.qty = b.index[id].qty - qty]
      /\ \A x \in DOMAIN b.index : x # id => a.index[x] = b.index[x]
      /\ a.index = [x \in DOMAIN a.index |-> a.index[x]]
  BY <1>1, <1>2
<1>5. /\ DOMAIN a.levels = DOMAIN b.levels
      /\ a.levels[here] = [b.levels[here] EXCEPT
                             !.total = (b.levels[here].total - qty) % QuantityModulus]
      /\ \A at \in DOMAIN b.levels : at # here => a.levels[at] = b.levels[at]
      /\ a.levels = [x \in DOMAIN a.levels |-> a.levels[x]]
  BY <1>1, <1>3, Zenon
<1> QED BY <1>1, <1>4, <1>5, Zenon DEF FilledAt

\* A fill of no more than what rests keeps index and levels in agreement.
LEMMA FilledBookOK ==
  ASSUME NEW b, BookOK(b), NEW id, HasOrder(b, id), NEW qty \in 0 .. b.index[id].qty,
         NEW here, NEW a, FilledAt(a, b, id, qty, here)
  PROVE  BookOK(a)
<1>1. /\ b.index[id] \in [side : BookSides, price : Int, qty : Nat]
      /\ b.levels[here] \in [total : 0 .. QuantityModulus - 1, orders : Seq(DOMAIN b.index)]
  BY DEF BookOK, BookTyped, HasOrder, FilledAt
<1>2. \A x \in DOMAIN b.index : /\ a.index[x] \in [side : BookSides, price : Int, qty : Nat]
                                /\ a.index[x].side = b.index[x].side
                                /\ a.index[x].price = b.index[x].price
  <2> TAKE x \in DOMAIN b.index
  <2>1. CASE x = id
    <3>1. b.index[id].qty - qty \in Nat
      BY <1>1
    <3> QED BY <2>1, <3>1, <1>1, Zenon DEF FilledAt
  <2>2. CASE x # id
    BY <2>2, Zenon DEF FilledAt, BookOK, BookTyped
  <2> QED BY <2>1, <2>2
<1>3. \A at \in DOMAIN b.levels :
        /\ a.levels[at] \in [total : 0 .. QuantityModulus - 1, orders : Seq(DOMAIN b.index)]
        /\ a.levels[at].orders = b.levels[at].orders
  <2> TAKE at \in DOMAIN b.levels
  <2>1. CASE at = here
    <3>1. (b.levels[here].total - qty) % QuantityModulus \in 0 .. QuantityModulus - 1
      <4>1. b.levels[here].total - qty \in Int
        BY <1>1
      <4> QED BY <4>1, ModRange
    <3> QED BY <2>1, <3>1, <1>1, Zenon DEF FilledAt
  <2>2. CASE at # here
    BY <2>2, Zenon DEF FilledAt, BookOK, BookTyped
  <2> QED BY <2>1, <2>2
<1>4. DOMAIN a.index = DOMAIN b.index /\ DOMAIN a.levels = DOMAIN b.levels
  BY DEF FilledAt
<1>5. BookTyped(a)
  <2>1. DOMAIN b.levels \subseteq BookSides \X Int
    BY DEF BookOK, BookTyped
  <2> QED BY <2>1, <1>2, <1>3, <1>4 DEF BookTyped, FilledAt
<1>6. BookLinked(a)
  <2>1. ASSUME NEW x \in DOMAIN a.index
        PROVE  /\ <<a.index[x].side, a.index[x].price>> \in DOMAIN a.levels
               /\ \E k \in 1 .. Len(a.levels[<<a.index[x].side, a.index[x].price>>].orders) :
                    a.levels[<<a.index[x].side, a.index[x].price>>].orders[k] = x
    <3> DEFINE at == <<b.index[x].side, b.index[x].price>>
    <3>1. /\ at \in DOMAIN b.levels
          /\ \E k \in 1 .. Len(b.levels[at].orders) : b.levels[at].orders[k] = x
      BY <1>4, Zenon DEF BookOK, BookLinked
    <3>2. at = <<a.index[x].side, a.index[x].price>>
      BY <1>2, <1>4
    <3> HIDE DEF at
    <3>3. /\ at \in DOMAIN a.levels
          /\ \E k \in 1 .. Len(a.levels[at].orders) : a.levels[at].orders[k] = x
      BY <3>1, <1>3, <1>4
    <3> QED BY <3>2, <3>3
  <2>2. ASSUME NEW at \in DOMAIN a.levels
        PROVE  /\ a.levels[at].orders # <<>>
               /\ \A k \in 1 .. Len(a.levels[at].orders) :
                    at = <<a.index[a.levels[at].orders[k]].side,
                           a.index[a.levels[at].orders[k]].price>>
               /\ \A j, k \in 1 .. Len(a.levels[at].orders) :
                    a.levels[at].orders[j] = a.levels[at].orders[k] => j = k
    <3>1. \A k \in 1 .. Len(b.levels[at].orders) : b.levels[at].orders[k] \in DOMAIN b.index
      BY <1>4, SMTT(20) DEF BookOK, BookTyped
    <3>2. /\ b.levels[at].orders # <<>>
          /\ \A k \in 1 .. Len(b.levels[at].orders) :
               at = <<b.index[b.levels[at].orders[k]].side, b.index[b.levels[at].orders[k]].price>>
          /\ \A j, k \in 1 .. Len(b.levels[at].orders) :
               b.levels[at].orders[j] = b.levels[at].orders[k] => j = k
      BY <1>4, Zenon DEF BookOK, BookLinked
    <3>3. a.levels[at].orders = b.levels[at].orders
      BY <1>3, <1>4
    <3>4. \A k \in 1 .. Len(b.levels[at].orders) :
            /\ a.index[b.levels[at].orders[k]].side = b.index[b.levels[at].orders[k]].side
            /\ a.index[b.levels[at].orders[k]].price = b.index[b.levels[at].orders[k]].price
      BY <3>1, <1>2, Zenon
    <3> QED BY <3>2, <3>3, <3>4, Zenon
  <2> QED BY <2>1, <2>2, Zenon DEF BookLinked
<1> QED BY <1>5, <1>6 DEF BookOK

\* A fill of no more than what rests keeps the book.
LEMMA FillKeepsBook ==
  ASSUME NEW b, BookOK(b), NEW id, HasOrder(b, id), NEW qty \in 0 .. b.index[id].qty
  PROVE  BookOK(Fill(b, id, qty))
BY FilledBook, FilledBookOK, Zenon

-----------------------------------------------------------------------------
\* A step that touches one place leaves every other level alone.
OnlyAt(a, b, here) == \A at : at # here => LevelFor(a, at) = LevelFor(b, at)

\* insert_resting_order() touches the new order's level,
LEMMA InsertTouches ==
  ASSUME NEW b, BookOK(b), NEW id, ~HasOrder(b, id),
         NEW side \in BookSides, NEW price \in Int, NEW qty \in Nat
  PROVE  OnlyAt(InsertRestingOrder(b, id, side, price, qty), b, <<side, price>>)
<1> SUFFICES ASSUME NEW a, NEW here, NEW order, NEW old, InsertedInto(a, b, id, order, here, old)
             PROVE  OnlyAt(a, b, here)
  BY InsertedBook, Zenon
<1> QED BY DEF InsertedInto, OnlyAt, LevelFor

\* remove_resting_order() the level the order rests at,
LEMMA RemoveTouches ==
  ASSUME NEW b, BookOK(b), NEW id, HasOrder(b, id)
  PROVE  OnlyAt(RemoveRestingOrder(b, id), b, <<b.index[id].side, b.index[id].price>>)
<1>1. RestsAt(b, id, <<b.index[id].side, b.index[id].price>>,
              b.levels[<<b.index[id].side, b.index[id].price>>].orders,
              EraseListed(b.levels[<<b.index[id].side, b.index[id].price>>].orders, id))
  BY Zenon DEF RestsAt
<1> SUFFICES ASSUME NEW a, NEW here, NEW left, RemovedFrom(a, b, id, here, left)
             PROVE  OnlyAt(a, b, here)
  BY <1>1, RemovedBook
<1> QED BY DEF RemovedFrom, OnlyAt, LevelFor

\* and so does a fill.
LEMMA FillTouches ==
  ASSUME NEW b, BookOK(b), NEW id, HasOrder(b, id), NEW qty
  PROVE  OnlyAt(Fill(b, id, qty), b, <<b.index[id].side, b.index[id].price>>)
<1> SUFFICES ASSUME NEW a, NEW here, FilledAt(a, b, id, qty, here)
             PROVE  OnlyAt(a, b, here)
  BY FilledBook
<1> QED BY DEF FilledAt, OnlyAt, LevelFor

-----------------------------------------------------------------------------
\* The messages an OrderBook is handed.
BookMessage(m) ==
  \/ m.type = "Add" /\ m.side \in BookSides /\ m.price \in Int /\ m.qty \in Nat
  \/ m.type = "Cancel"
  \/ m.type = "Execute" /\ m.qty \in Nat
  \/ m.type = "Replace" /\ m.price \in Int /\ m.qty \in Nat

\* Deltas tell a step from b to a: a level no delta is about keeps its total,
\* and the last delta about a level has the total it is left with.
DeltasTell(deltas, b, a) ==
  /\ deltas \in Seq([at : BookSides \X Int, total : 0 .. QuantityModulus - 1]) /\ Len(deltas) <= 2
  /\ \A at : (\A k \in 1 .. Len(deltas) : deltas[k].at # at)
               => LevelFor(a, at).total = LevelFor(b, at).total
  /\ \A k \in 1 .. Len(deltas) :
       (\A j \in 1 .. Len(deltas) : j > k => deltas[j].at # deltas[k].at)
         => deltas[k].total = LevelFor(a, deltas[k].at).total

\* What every apply() overload guarantees of what it returns.
GoodOutcome(r, b) ==
  /\ BookOK(r.book)
  /\ DeltasTell(r.deltas, b, r.book)
  /\ r.error # "none" => r.book = b /\ r.deltas = <<>>

\* A rejection guarantees it.
LEMMA RejectedOutcome ==
  ASSUME NEW b, BookOK(b), NEW e
  PROVE  GoodOutcome(Rejected(b, e), b)
<1>1. <<>> \in Seq([at : BookSides \X Int, total : 0 .. QuantityModulus - 1])
  OBVIOUS
<1>2. DeltasTell(<<>>, b, b)
  BY <1>1 DEF DeltasTell
<1>3. Rejected(b, e).book = b /\ Rejected(b, e).deltas = <<>>
  BY DEF Rejected
<1> QED BY <1>2, <1>3 DEF GoodOutcome

\* A delta is well-formed.
LEMMA DeltaTyped ==
  ASSUME NEW a, BookOK(a), NEW here \in BookSides \X Int
  PROVE  Delta(a, here) \in [at : BookSides \X Int, total : 0 .. QuantityModulus - 1]
<1>1. LevelFor(a, here).total \in 0 .. QuantityModulus - 1
  BY LevelForFound DEF LevelFound
<1> QED BY <1>1 DEF Delta

\* A step that touches one level and reports it guarantees it too.
LEMMA OneDeltaOutcome ==
  ASSUME NEW b, NEW a, BookOK(a), NEW here \in BookSides \X Int, OnlyAt(a, b, here)
  PROVE  GoodOutcome(Applied(a, <<Delta(a, here)>>), b)
<1> DEFINE d == Delta(a, here)
<1>1. /\ d \in [at : BookSides \X Int, total : 0 .. QuantityModulus - 1]
      /\ d.at = here /\ d.total = LevelFor(a, here).total
  BY DeltaTyped DEF Delta
<1> HIDE DEF d
<1>2. /\ <<d>> \in Seq([at : BookSides \X Int, total : 0 .. QuantityModulus - 1])
      /\ Len(<<d>>) = 1 /\ <<d>>[1] = d
  BY <1>1
<1>3. DeltasTell(<<d>>, b, a)
  BY <1>1, <1>2 DEF DeltasTell, OnlyAt
<1>4. /\ Applied(a, <<d>>).book = a /\ Applied(a, <<d>>).deltas = <<d>>
      /\ Applied(a, <<d>>).error = "none"
  BY DEF Applied
<1>5. GoodOutcome(Applied(a, <<d>>), b)
  BY <1>3, <1>4 DEF GoodOutcome
<1> QED BY <1>5 DEF d

\* An order rests at a proper side and price.
LEMMA PlaceTyped ==
  ASSUME NEW b, BookOK(b), NEW id, HasOrder(b, id)
  PROVE  /\ b.index[id].side \in BookSides /\ b.index[id].price \in Int /\ b.index[id].qty \in Nat
         /\ <<b.index[id].side, b.index[id].price>> \in BookSides \X Int
<1>1. b.index[id] \in [side : BookSides, price : Int, qty : Nat]
  BY DEF BookOK, BookTyped, HasOrder
<1> QED BY <1>1

\* A fill leaves the order where it is; a removal takes it out of the index.
LEMMA FillKeepsPlace ==
  ASSUME NEW b, BookOK(b), NEW id, HasOrder(b, id), NEW qty
  PROVE  /\ HasOrder(Fill(b, id, qty), id)
         /\ Fill(b, id, qty).index[id].side = b.index[id].side
         /\ Fill(b, id, qty).index[id].price = b.index[id].price
<1>1. b.index[id] \in [side : BookSides, price : Int, qty : Nat]
  BY DEF BookOK, BookTyped, HasOrder
<1> SUFFICES ASSUME NEW a, NEW here, FilledAt(a, b, id, qty, here)
             PROVE  /\ HasOrder(a, id) /\ a.index[id].side = b.index[id].side
                    /\ a.index[id].price = b.index[id].price
  BY FilledBook, Zenon
<1> QED BY <1>1 DEF FilledAt, HasOrder

\* The index after a removal.
LEMMA RemovedIndex ==
  ASSUME NEW b, NEW id
  PROVE  /\ DOMAIN RemoveRestingOrder(b, id).index = DOMAIN b.index \ {id}
         /\ \A x \in DOMAIN b.index \ {id} : RemoveRestingOrder(b, id).index[x] = b.index[x]
BY DEF RemoveRestingOrder, Erase, Restrict

\* The index after an insertion.
LEMMA InsertedIndex ==
  ASSUME NEW b, NEW id, NEW side, NEW price, NEW qty
  PROVE  DOMAIN InsertRestingOrder(b, id, side, price, qty).index = DOMAIN b.index \cup {id}
BY DEF InsertRestingOrder, Put

\* apply(AddOrder)
LEMMA AddOutcome ==
  ASSUME NEW b, BookOK(b), NEW m, m.side \in BookSides, m.price \in Int, m.qty \in Nat
  PROVE  GoodOutcome(ApplyAdd(b, m), b)
<1>1. CASE HasOrder(b, m.id)
  BY <1>1, RejectedOutcome DEF ApplyAdd
<1>2. CASE ~HasOrder(b, m.id)
  <2> SUFFICES ASSUME NEW a, a = InsertRestingOrder(b, m.id, m.side, m.price, m.qty)
               PROVE  GoodOutcome(Applied(a, <<Delta(a, <<m.side, m.price>>)>>), b)
    BY <1>2 DEF ApplyAdd
  <2>1. BookOK(a) /\ OnlyAt(a, b, <<m.side, m.price>>)
    BY <1>2, InsertKeepsBook, InsertTouches
  <2>2. <<m.side, m.price>> \in BookSides \X Int
    OBVIOUS
  <2> QED BY <2>1, <2>2, OneDeltaOutcome
<1> QED BY <1>1, <1>2

\* apply(CancelOrder)
LEMMA CancelOutcome ==
  ASSUME NEW b, BookOK(b), NEW m
  PROVE  GoodOutcome(ApplyCancel(b, m), b)
<1>1. CASE ~HasOrder(b, m.id)
  BY <1>1, RejectedOutcome DEF ApplyCancel
<1>2. CASE HasOrder(b, m.id)
  <2> SUFFICES ASSUME NEW a, a = RemoveRestingOrder(b, m.id),
                      NEW here, here = <<b.index[m.id].side, b.index[m.id].price>>
               PROVE  GoodOutcome(Applied(a, <<Delta(a, here)>>), b)
    BY <1>2 DEF ApplyCancel
  <2>1. BookOK(a) /\ OnlyAt(a, b, here) /\ here \in BookSides \X Int
    BY <1>2, RemoveKeepsBook, RemoveTouches, PlaceTyped
  <2> QED BY <2>1, OneDeltaOutcome
<1> QED BY <1>1, <1>2

\* apply(ExecuteOrder): rejected, or filled and then removed if nothing is left.
LEMMA ExecuteOutcome ==
  ASSUME NEW b, BookOK(b), NEW m, m.qty \in Nat
  PROVE  GoodOutcome(ApplyExecute(b, m), b)
<1>1. CASE ~HasOrder(b, m.id)
  BY <1>1, RejectedOutcome DEF ApplyExecute
<1>2. CASE HasOrder(b, m.id) /\ m.qty > b.index[m.id].qty
  BY <1>2, RejectedOutcome, Zenon DEF ApplyExecute
<1>3. CASE HasOrder(b, m.id) /\ ~(m.qty > b.index[m.id].qty)
  <2> SUFFICES ASSUME NEW f, f = Fill(b, m.id, m.qty),
                      NEW here, here = <<b.index[m.id].side, b.index[m.id].price>>,
                      NEW a, a = IF f.index[m.id].qty = 0 THEN RemoveRestingOrder(f, m.id) ELSE f
               PROVE  GoodOutcome(Applied(a, <<Delta(a, here)>>), b)
    BY <1>3 DEF ApplyExecute
  <2>1. m.qty \in 0 .. b.index[m.id].qty
    BY <1>3, PlaceTyped
  <2>2. BookOK(f) /\ OnlyAt(f, b, here) /\ here \in BookSides \X Int
    BY <1>3, <2>1, FillKeepsBook, FillTouches, PlaceTyped, Zenon
  <2>3. HasOrder(f, m.id) /\ here = <<f.index[m.id].side, f.index[m.id].price>>
    BY <1>3, FillKeepsPlace
  <2>4. BookOK(RemoveRestingOrder(f, m.id)) /\ OnlyAt(RemoveRestingOrder(f, m.id), f, here)
    BY <2>2, <2>3, RemoveKeepsBook, RemoveTouches, Zenon
  <2>5. BookOK(a) /\ OnlyAt(a, b, here)
    BY <2>2, <2>4 DEF OnlyAt
  <2> QED BY <2>2, <2>5, OneDeltaOutcome, Zenon
<1> QED BY <1>1, <1>2, <1>3

\* Two steps that touch one level each, the first reported before the second
\* is taken: right even when both are about the same level.
LEMMA TwoDeltasOutcome ==
  ASSUME NEW b, NEW v, BookOK(v), NEW a, BookOK(a),
         NEW from \in BookSides \X Int, NEW to \in BookSides \X Int,
         OnlyAt(v, b, from), OnlyAt(a, v, to)
  PROVE  GoodOutcome(Applied(a, <<Delta(v, from), Delta(a, to)>>), b)
<1> DEFINE d == Delta(v, from)
           e == Delta(a, to)
<1>1. /\ d \in [at : BookSides \X Int, total : 0 .. QuantityModulus - 1]
      /\ e \in [at : BookSides \X Int, total : 0 .. QuantityModulus - 1]
      /\ d.at = from /\ d.total = LevelFor(v, from).total
      /\ e.at = to /\ e.total = LevelFor(a, to).total
  BY DeltaTyped DEF Delta
<1> HIDE DEF d, e
<1>2. /\ <<d, e>> \in Seq([at : BookSides \X Int, total : 0 .. QuantityModulus - 1])
      /\ Len(<<d, e>>) = 2 /\ <<d, e>>[1] = d /\ <<d, e>>[2] = e
  BY <1>1
<1> SUFFICES ASSUME NEW u, u = <<d, e>> PROVE GoodOutcome(Applied(a, u), b)
  BY DEF d, e
<1>3. \A at : (\A k \in 1 .. Len(u) : u[k].at # at)
                => LevelFor(a, at).total = LevelFor(b, at).total
  <2> SUFFICES ASSUME NEW at, \A k \in 1 .. Len(u) : u[k].at # at
               PROVE  LevelFor(a, at).total = LevelFor(b, at).total
    OBVIOUS
  <2>1. at # from /\ at # to
    BY <1>1, <1>2
  <2> QED BY <2>1 DEF OnlyAt
<1>4. ASSUME NEW k \in 1 .. Len(u),
             \A j \in 1 .. Len(u) : j > k => u[j].at # u[k].at
      PROVE  u[k].total = LevelFor(a, u[k].at).total
  <2>1. CASE k = 2
    BY <2>1, <1>1, <1>2
  <2>2. CASE k = 1
    <3>1. from # to
      BY <2>2, <1>4, <1>1, <1>2
    <3>2. LevelFor(a, from) = LevelFor(v, from)
      BY <3>1 DEF OnlyAt
    <3> QED BY <2>2, <3>2, <1>1, <1>2
  <2> QED BY <2>1, <2>2, <1>2
<1>5. DeltasTell(u, b, a)
  BY <1>2, <1>3, <1>4 DEF DeltasTell
<1>6. Applied(a, u).book = a /\ Applied(a, u).deltas = u /\ Applied(a, u).error = "none"
  BY DEF Applied
<1> QED BY <1>5, <1>6 DEF GoodOutcome

\* apply(ReplaceOrder)
LEMMA ReplaceOutcome ==
  ASSUME NEW b, BookOK(b), NEW m, m.price \in Int, m.qty \in Nat
  PROVE  GoodOutcome(ApplyReplace(b, m), b)
<1>1. CASE ~HasOrder(b, m.id)
  BY <1>1, RejectedOutcome, Zenon DEF ApplyReplace
<1>2. CASE HasOrder(b, m.id) /\ HasOrder(b, m.new)
  BY <1>2, RejectedOutcome, Zenon DEF ApplyReplace
<1>3. CASE HasOrder(b, m.id) /\ ~HasOrder(b, m.new)
  <2> SUFFICES ASSUME NEW side, side = b.index[m.id].side,
                      NEW from, from = <<side, b.index[m.id].price>>,
                      NEW to, to = <<side, m.price>>,
                      NEW v, v = RemoveRestingOrder(b, m.id),
                      NEW a, a = InsertRestingOrder(v, m.new, side, m.price, m.qty)
               PROVE  GoodOutcome(Applied(a, <<Delta(v, from), Delta(a, to)>>), b)
    BY <1>3, Zenon DEF ApplyReplace
  <2>1. side \in BookSides /\ from \in BookSides \X Int /\ to \in BookSides \X Int
    BY <1>3, PlaceTyped, Zenon
  <2>2. BookOK(v) /\ OnlyAt(v, b, from)
    BY <1>3, RemoveKeepsBook, RemoveTouches
  <2>3. ~HasOrder(v, m.new)
    BY <1>3, RemovedIndex DEF HasOrder
  <2>4. BookOK(a) /\ OnlyAt(a, v, to)
    BY <2>1, <2>2, <2>3, InsertKeepsBook, InsertTouches
  <2> QED BY <2>1, <2>2, <2>4, TwoDeltasOutcome, Zenon
<1> QED BY <1>1, <1>2, <1>3, Zenon

\* Whatever message an OrderBook is handed, index and levels stay in agreement,
\* the returned deltas tell the step, and a rejection changes nothing.
THEOREM ApplyOutcome ==
  ASSUME NEW b, BookOK(b), NEW m, BookMessage(m)
  PROVE  GoodOutcome(Apply(b, m), b)
<1>1. CASE m.type = "Add" /\ m.side \in BookSides /\ m.price \in Int /\ m.qty \in Nat
  BY <1>1, AddOutcome DEF Apply
<1>2. CASE m.type = "Cancel"
  BY <1>2, CancelOutcome DEF Apply
<1>3. CASE m.type = "Execute" /\ m.qty \in Nat
  BY <1>3, ExecuteOutcome DEF Apply
<1>4. CASE m.type = "Replace" /\ m.price \in Int /\ m.qty \in Nat
  BY <1>4, ReplaceOutcome DEF Apply
<1> QED BY <1>1, <1>2, <1>3, <1>4 DEF BookMessage

-----------------------------------------------------------------------------
(***************************************************************************)
(* What a sequence of deltas tells.                                        *)
(***************************************************************************)
\* Some delta is about the level; the k-th is the last about its own.
Named(ahead, y, at) == \E k \in 1 .. Len(ahead) : ahead[k].symbol = y /\ ahead[k].at = at
LastNamed(ahead, k) ==
  \A j \in 1 .. Len(ahead) : j > k => ahead[j].symbol # ahead[k].symbol \/ ahead[j].at # ahead[k].at

\* Knowing some levels and with deltas ahead a subscriber will know the book's.
Tells(y, ahead, known, b) ==
  /\ \A k \in 1 .. Len(ahead) :
       ahead[k].symbol = y /\ LastNamed(ahead, k) => ahead[k].total = LevelFor(b, ahead[k].at).total
  /\ \A at : ~Named(ahead, y, at) => RightAbout(known, b, at)

\* A delta with a level's total makes a subscriber right about that level and
\* leaves it as right as it was about the others.
LEMMA DeltaApplied ==
  ASSUME NEW known, NEW d, NEW b
  PROVE  /\ d.total = LevelFor(b, d.at).total => RightAbout(ApplyDelta(known, d), b, d.at)
         /\ \A at : at # d.at => (RightAbout(ApplyDelta(known, d), b, at) <=> RightAbout(known, b, at))
<1>1. CASE d.total = 0
  <2>1. /\ DOMAIN ApplyDelta(known, d) = DOMAIN known \ {d.at}
        /\ \A at \in DOMAIN known \ {d.at} : ApplyDelta(known, d)[at] = known[at]
    BY <1>1, Zenon DEF ApplyDelta, Erase, Restrict
  <2> QED BY <2>1, <1>1, Zenon DEF RightAbout
<1>2. CASE d.total # 0
  <2>1. /\ DOMAIN ApplyDelta(known, d) = DOMAIN known \cup {d.at}
        /\ \A at \in DOMAIN known \cup {d.at} :
             ApplyDelta(known, d)[at] = IF at = d.at THEN d.total ELSE known[at]
    BY <1>2, Zenon DEF ApplyDelta, Put
  <2>2. d.total = LevelFor(b, d.at).total => RightAbout(ApplyDelta(known, d), b, d.at)
    BY <2>1, <1>2, Zenon DEF RightAbout
  <2>3. ASSUME NEW at, at # d.at
        PROVE  RightAbout(ApplyDelta(known, d), b, at) <=> RightAbout(known, b, at)
    <3>1. /\ at \in DOMAIN ApplyDelta(known, d) <=> at \in DOMAIN known
          /\ at \in DOMAIN known => ApplyDelta(known, d)[at] = known[at]
      BY <2>1, <2>3, Zenon
    <3> QED BY <3>1, Zenon DEF RightAbout
  <2> QED BY <2>2, <2>3, Zenon
<1> QED BY <1>1, <1>2, Zenon

\* What is right about a level depends on the book by its total only.
LEMMA RightAboutTotal ==
  ASSUME NEW known, NEW b, NEW a, NEW at, LevelFor(a, at).total = LevelFor(b, at).total,
         RightAbout(known, b, at)
  PROVE  RightAbout(known, a, at)
BY Zenon DEF RightAbout

\* This stays so when the first delta is handed over,
LEMMA TellsPublished ==
  ASSUME NEW D, NEW ahead \in Seq(D), ahead # <<>>, NEW y, NEW known, NEW b,
         Tells(y, ahead, known, b), NEW after,
         after = IF Head(ahead).symbol = y THEN ApplyDelta(known, Head(ahead)) ELSE known
  PROVE  Tells(y, Tail(ahead), after, b)
<1> DEFINE rest == Tail(ahead)
<1>1. /\ Len(ahead) \in Nat \ {0} /\ Len(rest) = Len(ahead) - 1 /\ Head(ahead) = ahead[1]
      /\ \A k \in 1 .. Len(rest) : rest[k] = ahead[k + 1]
  BY HeadTailProperties
<1> HIDE DEF rest
<1>2. /\ 1 \in 1 .. Len(ahead)
      /\ \A k \in 1 .. Len(rest) : k + 1 \in 1 .. Len(ahead)
      /\ \A k \in 1 .. Len(ahead) : k > 1 => k - 1 \in 1 .. Len(rest) /\ (k - 1) + 1 = k
      /\ \A k \in 1 .. Len(ahead) : k = 1 \/ k > 1
  BY <1>1
<1>3. \A k \in 1 .. Len(ahead) : k > 1 => rest[k - 1] = ahead[k]
  BY <1>1, <1>2
<1>4. ASSUME NEW k \in 1 .. Len(rest), rest[k].symbol = y, LastNamed(rest, k)
      PROVE  rest[k].total = LevelFor(b, rest[k].at).total
  <2>1. LastNamed(ahead, k + 1)
    <3> SUFFICES ASSUME NEW j \in 1 .. Len(ahead), j > k + 1
                 PROVE  ahead[j].symbol # ahead[k + 1].symbol \/ ahead[j].at # ahead[k + 1].at
      BY DEF LastNamed
    <3>1. j > 1 /\ j - 1 > k
      BY <1>1
    <3> QED BY <3>1, <1>1, <1>2, <1>3, <1>4, Zenon DEF LastNamed
  <2> QED BY <2>1, <1>1, <1>2, <1>4 DEF Tells
<1>5. ASSUME NEW at, ~Named(rest, y, at) PROVE RightAbout(after, b, at)
  <2>1. CASE ahead[1].symbol = y /\ ahead[1].at = at
    <3>1. LastNamed(ahead, 1)
      <4> SUFFICES ASSUME NEW j \in 1 .. Len(ahead), j > 1
                   PROVE  ahead[j].symbol # ahead[1].symbol \/ ahead[j].at # ahead[1].at
        BY DEF LastNamed
      <4> QED BY <1>2, <1>3, <1>5, <2>1, Zenon DEF Named
    <3>2. ahead[1].total = LevelFor(b, at).total
      BY <3>1, <2>1, <1>2 DEF Tells
    <3> QED BY <3>2, <2>1, <1>1, DeltaApplied, Zenon
  <2>2. CASE ~(ahead[1].symbol = y /\ ahead[1].at = at)
    <3>1. ~Named(ahead, y, at)
      <4> SUFFICES ASSUME NEW j \in 1 .. Len(ahead), ahead[j].symbol = y, ahead[j].at = at PROVE FALSE
        BY DEF Named
      <4> QED BY <1>2, <1>3, <1>5, <2>2 DEF Named
    <3>2. RightAbout(known, b, at)
      BY <3>1, Zenon DEF Tells
    <3> QED BY <3>2, <2>2, <1>1, DeltaApplied, Zenon
  <2> QED BY <2>1, <2>2
<1>6. Tells(y, rest, after, b)
  BY <1>4, <1>5 DEF Tells
<1> QED BY <1>6 DEF rest

\* and when deltas that tell a step of the book follow.
LEMMA TellsMore ==
  ASSUME NEW D, NEW ahead \in Seq(D), NEW more \in Seq(D), NEW y, NEW known, NEW b,
         NEW a, Tells(y, ahead, known, b),
         \A at : ~Named(more, y, at) => LevelFor(a, at).total = LevelFor(b, at).total,
         \A k \in 1 .. Len(more) : more[k].symbol = y /\ LastNamed(more, k) =>
           more[k].total = LevelFor(a, more[k].at).total
  PROVE  Tells(y, ahead \o more, known, a)
<1> DEFINE all == ahead \o more
           n == Len(ahead)
<1>1. /\ n \in Nat /\ Len(more) \in Nat /\ Len(all) = n + Len(more)
      /\ \A k \in 1 .. n : all[k] = ahead[k]
      /\ \A k \in 1 .. Len(more) : all[n + k] = more[k]
  <2>1. \A k \in 1 .. Len(more) : n + k > n /\ n + k \in 1 .. n + Len(more) /\ (n + k) - n = k
    OBVIOUS
  <2> QED BY <2>1, ConcatProperties
<1>n. n = Len(ahead)
  OBVIOUS
<1> HIDE DEF all, n
<1>2. /\ \A k \in 1 .. n : k \in 1 .. Len(all)
      /\ \A k \in 1 .. Len(more) : n + k \in 1 .. Len(all)
      /\ \A k \in 1 .. Len(all) : k \in 1 .. n \/ \E i \in 1 .. Len(more) : k = n + i
  <2>1. \A k \in 1 .. Len(all) : k > n => k - n \in 1 .. Len(more) /\ k = n + (k - n)
    BY <1>1
  <2> QED BY <1>1, <2>1
<1>3. \A at : Named(more, y, at) => Named(all, y, at)
  BY <1>1, <1>2, SMTT(20) DEF Named
<1>4. \A at : Named(ahead, y, at) => Named(all, y, at)
  BY <1>1, <1>2, <1>n DEF Named
<1>6. ASSUME NEW k \in 1 .. Len(all), all[k].symbol = y, LastNamed(all, k)
      PROVE  all[k].total = LevelFor(a, all[k].at).total
  <2>1. CASE k \in 1 .. n
    <3>1. LastNamed(ahead, k)
      BY <2>1, <1>1, <1>2, <1>6, <1>n, Zenon DEF LastNamed
    <3>2. ~Named(more, y, ahead[k].at)
      <4> SUFFICES ASSUME NEW i \in 1 .. Len(more), more[i].symbol = y, more[i].at = ahead[k].at PROVE FALSE
        BY DEF Named
      <4>1. n + i > k
        BY <2>1, <1>1
      <4> QED BY <4>1, <2>1, <1>1, <1>2, <1>6, SMTT(20) DEF LastNamed
    <3>3. ahead[k].total = LevelFor(b, ahead[k].at).total
      BY <3>1, <2>1, <1>1, <1>6, <1>n, Zenon DEF Tells
    <3> QED BY <3>2, <3>3, <2>1, <1>1
  <2>2. ASSUME NEW i \in 1 .. Len(more), k = n + i PROVE all[k].total = LevelFor(a, all[k].at).total
    <3>1. LastNamed(more, i)
      <4> SUFFICES ASSUME NEW j \in 1 .. Len(more), j > i
                   PROVE  more[j].symbol # more[i].symbol \/ more[j].at # more[i].at
        BY DEF LastNamed
      <4>1. n + j > k /\ n + j \in 1 .. Len(all) /\ all[n + j] = more[j] /\ all[k] = more[i]
        BY <2>2, <1>1, <1>2
      <4>2. all[n + j].symbol # all[k].symbol \/ all[n + j].at # all[k].at
        BY <4>1, <1>6, Zenon DEF LastNamed
      <4> QED BY <4>1, <4>2, Zenon
    <3> QED BY <3>1, <2>2, <1>1, <1>6, Zenon
  <2> QED BY <2>1, <2>2, <1>2
<1>7. ASSUME NEW at, ~Named(all, y, at) PROVE RightAbout(known, a, at)
  <2>1. ~Named(ahead, y, at) /\ ~Named(more, y, at)
    BY <1>3, <1>4, <1>7, Zenon
  <2>2. RightAbout(known, b, at) /\ LevelFor(a, at).total = LevelFor(b, at).total
    BY <2>1, Zenon DEF Tells
  <2> QED BY <2>2, RightAboutTotal, Zenon
<1>8. Tells(y, all, known, a)
  BY <1>6, <1>7 DEF Tells
<1> QED BY <1>8 DEF all

\* Moving a delta from the decoder's to the queue leaves what is ahead.
LEMMA DeltaMoves ==
  ASSUME NEW D, NEW q \in Seq(D), NEW d \in Seq(D), d # <<>>
  PROVE  Append(q, Head(d)) \o Tail(d) = q \o d
<1>1. /\ Head(d) \in D /\ Tail(d) \in Seq(D) /\ Len(Tail(d)) = Len(d) - 1
      /\ \A k \in 1 .. Len(Tail(d)) : Tail(d)[k] = d[k + 1]
      /\ Len(d) \in Nat \ {0} /\ Len(q) \in Nat /\ Head(d) = d[1]
  BY HeadTailProperties
<1>2. /\ Append(q, Head(d)) \in Seq(D) /\ Len(Append(q, Head(d))) = Len(q) + 1
      /\ \A k \in 1 .. Len(q) : Append(q, Head(d))[k] = q[k]
      /\ Append(q, Head(d))[Len(q) + 1] = d[1]
  BY <1>1, AppendProperties
<1>3. PICK p \in Seq(D), r \in Seq(D) : p = Append(q, Head(d)) /\ r = Tail(d)
  BY <1>1, <1>2, Zenon
<1>4. /\ p \o r \in Seq(D) /\ q \o d \in Seq(D)
      /\ Len(p \o r) = Len(q) + Len(d) /\ Len(q \o d) = Len(q) + Len(d)
  BY <1>1, <1>2, <1>3, ConcatProperties
<1>5. ASSUME NEW i \in 1 .. Len(q) + Len(d) PROVE (p \o r)[i] = (q \o d)[i]
  <2>1. (p \o r)[i] = IF i <= Len(q) + 1 THEN p[i] ELSE r[i - (Len(q) + 1)]
    BY <1>1, <1>2, <1>3, ConcatProperties
  <2>2. (q \o d)[i] = IF i <= Len(q) THEN q[i] ELSE d[i - Len(q)]
    BY <1>1, ConcatProperties
  <2>3. CASE i <= Len(q)
    BY <2>1, <2>2, <2>3, <1>1, <1>2, <1>3
  <2>4. CASE i = Len(q) + 1
    BY <2>1, <2>2, <2>4, <1>1, <1>2, <1>3
  <2>5. CASE i > Len(q) + 1
    <3>1. i - (Len(q) + 1) \in 1 .. Len(Tail(d)) /\ (i - (Len(q) + 1)) + 1 = i - Len(q)
      BY <2>5, <1>1
    <3> QED BY <3>1, <2>1, <2>2, <2>5, <1>1, <1>3
  <2>6. i <= Len(q) \/ i = Len(q) + 1 \/ i > Len(q) + 1
    BY <1>1
  <2> QED BY <2>3, <2>4, <2>5, <2>6, Zenon
<1> QED BY <1>3, <1>4, <1>5, SeqEqual, Zenon

\* The first delta ahead is the first of the queue.
LEMMA FirstAhead ==
  ASSUME NEW D, NEW q \in Seq(D), NEW d \in Seq(D), q # <<>>
  PROVE  /\ q \o d \in Seq(D) /\ q \o d # <<>>
         /\ Head(q \o d) = Head(q) /\ Tail(q \o d) = Tail(q) \o d
<1>1. /\ Tail(q) \in Seq(D) /\ Len(Tail(q)) = Len(q) - 1 /\ Head(q) = q[1]
      /\ \A k \in 1 .. Len(Tail(q)) : Tail(q)[k] = q[k + 1]
      /\ Len(q) \in Nat \ {0} /\ Len(d) \in Nat
  BY HeadTailProperties
<1>2. PICK p \in Seq(D) : p = q \o d
  BY ConcatProperties, Zenon
<1>3. /\ Len(p) = Len(q) + Len(d)
      /\ \A i \in 1 .. Len(q) + Len(d) : p[i] = IF i <= Len(q) THEN q[i] ELSE d[i - Len(q)]
  BY <1>1, <1>2, ConcatProperties
<1>4. p # <<>> /\ Len(p) \in Nat \ {0} /\ 1 \in 1 .. Len(q) + Len(d) /\ 1 <= Len(q)
  BY <1>1, <1>3
<1>5. /\ Head(p) = p[1] /\ Tail(p) \in Seq(D) /\ Len(Tail(p)) = Len(p) - 1
      /\ \A k \in 1 .. Len(Tail(p)) : Tail(p)[k] = p[k + 1]
  BY <1>4, HeadTailProperties
<1>6. Head(p) = Head(q)
  BY <1>1, <1>3, <1>4, <1>5
<1>7. PICK r \in Seq(D) : r = Tail(q) \o d
  BY <1>1, ConcatProperties, Zenon
<1>8. /\ Len(r) = (Len(q) - 1) + Len(d)
      /\ \A i \in 1 .. (Len(q) - 1) + Len(d) :
           r[i] = IF i <= Len(q) - 1 THEN Tail(q)[i] ELSE d[i - (Len(q) - 1)]
  BY <1>1, <1>7, ConcatProperties
<1>9. ASSUME NEW i \in 1 .. Len(r) PROVE Tail(p)[i] = r[i]
  <2>1. /\ i \in 1 .. (Len(q) - 1) + Len(d) /\ i + 1 \in 1 .. Len(q) + Len(d) /\ i \in 1 .. Len(Tail(p))
        /\ (i + 1) - Len(q) = i - (Len(q) - 1)
    BY <1>1, <1>3, <1>5, <1>8
  <2>2. Tail(p)[i] = IF i + 1 <= Len(q) THEN q[i + 1] ELSE d[(i + 1) - Len(q)]
    BY <2>1, <1>3, <1>5
  <2>3. CASE i <= Len(q) - 1
    <3>1. i + 1 <= Len(q) /\ i \in 1 .. Len(Tail(q))
      BY <2>3, <1>1
    <3> QED BY <3>1, <2>1, <2>2, <2>3, <1>1, <1>8, Zenon
  <2>4. CASE ~(i <= Len(q) - 1)
    <3>1. ~(i + 1 <= Len(q))
      BY <2>4, <1>1
    <3> QED BY <3>1, <2>1, <2>2, <2>4, <1>8, Zenon
  <2> QED BY <2>3, <2>4, Zenon
<1>10. Len(Tail(p)) = Len(r)
  BY <1>1, <1>3, <1>5, <1>8
<1>11. Tail(p) = r
  BY <1>5, <1>9, <1>10, SeqEqual
<1> QED BY <1>2, <1>4, <1>6, <1>7, <1>11
=============================================================================
