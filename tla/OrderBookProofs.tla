--------------------------- MODULE OrderBookProofs ---------------------------
(***************************************************************************)
(* OrderBook's properties for any sets of order ids, prices and quantities *)
(* and any width of a quantity.  Induction over numbers goes by way of     *)
(* least elements.                                                         *)
(***************************************************************************)
EXTENDS BookQueries, BookRulesProofs, WellFoundedInduction, FiniteSetTheorems

\* Every non-empty set of natural numbers has a least element.
LEMMA LeastElement ==
  ASSUME NEW T \in SUBSET Nat, T # {}
  PROVE  \E x \in T : \A y \in T : ~(y < x)
<1> DEFINE R == OpToRel(<, Nat)
<1>1. IsWellFoundedOn(R, Nat)
  BY NatLessThanWellFounded, Zenon
<1>2. \A x, y \in Nat : y < x => <<y, x>> \in R
  BY DEF OpToRel
<1> HIDE DEF R
<1>3. PICK x \in T : \A y \in T : ~(<<y, x>> \in R)
  BY <1>1, WFMin, Zenon
<1> QED BY <1>2, <1>3, Zenon

\* Induction, for a set of numbers in place of a predicate.
LEMMA SetInduction ==
  ASSUME NEW S, 0 \in S, \A n \in Nat : n \in S => n + 1 \in S
  PROVE  \A n \in Nat : n \in S
<1>1. SUFFICES ASSUME Nat \ S # {} PROVE FALSE
  OBVIOUS
<1>2. PICK x \in Nat \ S : \A y \in Nat \ S : ~(y < x)
  BY <1>1, LeastElement, Zenon
<1>3. x # 0 /\ x - 1 \in Nat
  BY <1>2
<1> QED BY <1>2, <1>3

-----------------------------------------------------------------------------
(***************************************************************************)
(* Index, levels and the subscriber's view.                                *)
(***************************************************************************)

\* A subscriber who applies deltas that tell a step from b to a is right about
\* a if they were right about b.
LEMMA MirrorFollows ==
  ASSUME NEW known, NEW deltas, NEW b, NEW a, DeltasTell(deltas, b, a),
         \A at : RightAbout(known, b, at)
  PROVE  \A at : RightAbout(AfterDeltas(known, deltas), a, at)
<1> DEFINE one == ApplyDelta(known, deltas[1])
           two == ApplyDelta(one, deltas[2])
<1>1. Len(deltas) \in {0, 1, 2}
  <2>1. Len(deltas) \in Nat /\ Len(deltas) <= 2
    BY LenProperties, Zenon DEF DeltasTell
  <2>2. \A n \in Nat : n <= 2 => n = 0 \/ n = 1 \/ n = 2
    OBVIOUS
  <2> QED BY <2>1, <2>2, Zenon
<1>2. ASSUME NEW at, \A k \in 1 .. Len(deltas) : deltas[k].at # at PROVE RightAbout(known, a, at)
  BY <1>2, RightAboutTotal, Zenon DEF DeltasTell
<1>3. CASE Len(deltas) = 0
  <2>1. \A at : RightAbout(known, a, at)
    BY <1>2, <1>3
  <2>2. AfterDeltas(known, deltas) = known
    BY <1>3 DEF AfterDeltas
  <2> QED BY <2>1, <2>2, Zenon
<1>4. CASE Len(deltas) = 1
  <2>1. deltas[1].total = LevelFor(a, deltas[1].at).total
    BY <1>4 DEF DeltasTell
  <2>2. \A at : at # deltas[1].at => RightAbout(known, a, at)
    BY <1>2, <1>4
  <2>3. \A at : RightAbout(one, a, at)
    BY <2>1, <2>2, DeltaApplied, Zenon
  <2>4. AfterDeltas(known, deltas) = one
    BY <1>4 DEF AfterDeltas
  <2> QED BY <2>3, <2>4, Zenon
<1>5. CASE Len(deltas) = 2
  <2>1. deltas[2].total = LevelFor(a, deltas[2].at).total
    BY <1>5 DEF DeltasTell
  <2>2. deltas[1].at # deltas[2].at => deltas[1].total = LevelFor(a, deltas[1].at).total
    BY <1>5 DEF DeltasTell
  <2>3. \A at : at # deltas[1].at /\ at # deltas[2].at => RightAbout(known, a, at)
    BY <1>2, <1>5
  <2>4. \A at : at # deltas[2].at => RightAbout(one, a, at)
    BY <2>2, <2>3, DeltaApplied, Zenon
  <2>5. \A at : RightAbout(two, a, at)
    BY <2>1, <2>4, DeltaApplied, Zenon
  <2>6. AfterDeltas(known, deltas) = two
    BY <1>5 DEF AfterDeltas
  <2> QED BY <2>5, <2>6, Zenon
<1> QED BY <1>1, <1>3, <1>4, <1>5

\* What every step keeps: index and levels agree, and the subscriber is right
\* about every level.
BookInv ==
  /\ BookOK(book)
  /\ \A at : RightAbout(mirror, book, at)

\* The messages the actions build are ones an OrderBook is handed.
LEMMA MessagesTyped ==
  /\ \A id \in OrderIds, side \in Sides, price \in PriceSet, qty \in Quantities :
       BookMessage([type |-> "Add", id |-> id, side |-> side, price |-> price, qty |-> qty])
  /\ \A id \in OrderIds : BookMessage([type |-> "Cancel", id |-> id])
  /\ \A id \in OrderIds, qty \in Quantities :
       BookMessage([type |-> "Execute", id |-> id, qty |-> qty])
  /\ \A id, new \in OrderIds, price \in PriceSet, qty \in Quantities :
       BookMessage([type |-> "Replace", id |-> id, new |-> new, price |-> price, qty |-> qty])
<1>1. /\ \A price \in PriceSet : price \in Int
      /\ \A qty \in Quantities : qty \in Nat
  BY PricesAssumption, QuantitiesAssumption, ModulusAssumption
<1> QED BY <1>1 DEF BookMessage, Sides, BookSides

\* Every step hands the book one such message.
LEMMA StepHandles ==
  ASSUME BookNext
  PROVE  \E m : BookMessage(m) /\ Handle(m)
BY MessagesTyped, Zenon DEF BookNext, Add, Cancel, Execute, ReplaceOrder

\* The invariant is inductive.
LEMMA BookInvInductive ==
  /\ BookInit => BookInv
  /\ BookInv /\ [BookNext]_bookVars => BookInv'
<1>1. BookInit => BookInv
  BY EmptyBookOK DEF BookInit, BookInv, EmptyBook, LevelFor, RightAbout
<1>2. ASSUME BookInv, [BookNext]_bookVars PROVE BookInv'
  <2>1. CASE UNCHANGED bookVars
    BY <1>2, <2>1 DEF BookInv, bookVars
  <2>2. CASE BookNext
    <3>1. PICK m : BookMessage(m) /\ Handle(m)
      BY <2>2, StepHandles
    <3>2. GoodOutcome(Apply(book, m), book)
      BY <3>1, <1>2, ApplyOutcome, Zenon DEF BookInv
    <3>3. book' = Apply(book, m).book /\ mirror' = AfterDeltas(mirror, Apply(book, m).deltas)
      BY <3>1 DEF Handle
    <3>4. BookOK(book') /\ DeltasTell(Apply(book, m).deltas, book, book')
      BY <3>2, <3>3 DEF GoodOutcome
    <3>5. \A at : RightAbout(mirror, book, at)
      BY <1>2, Zenon DEF BookInv
    <3>6. \A at : RightAbout(mirror', book', at)
      BY <3>3, <3>4, <3>5, MirrorFollows, Zenon
    <3> QED BY <3>4, <3>6 DEF BookInv
  <2> QED BY <1>2, <2>1, <2>2
<1> QED BY <1>1, <1>2

\* In every reachable book order_index_ and the levels describe the same
\* orders, and no level is empty.
THEOREM IndexMatches == BookSpec => []IndexMatchesLevels
<1>1. BookOK(book) => IndexMatchesLevels
  <2> SUFFICES ASSUME BookOK(book) PROVE IndexMatchesLevels
    OBVIOUS
  <2>1. ASSUME NEW at \in DOMAIN book.levels
        PROVE  /\ Orders(at) \in Seq(DOMAIN book.index) /\ Orders(at) # <<>>
               /\ \A k \in 1 .. Len(Orders(at)) :
                    at = <<book.index[Orders(at)[k]].side, book.index[Orders(at)[k]].price>>
               /\ IsInjective(Orders(at))
    <3>1. Orders(at) \in Seq(DOMAIN book.index)
      BY DEF BookOK, BookTyped, Orders
    <3>2. DOMAIN Orders(at) = 1 .. Len(Orders(at))
      BY <3>1
    <3> QED BY <3>1, <3>2, Zenon DEF BookOK, BookLinked, Orders, IsInjective
  <2>2. ASSUME NEW at \in DOMAIN book.levels, NEW k \in 1 .. Len(Orders(at))
        PROVE  HasOrder(book, Orders(at)[k])
    BY <2>1 DEF HasOrder
  <2>3. ASSUME NEW id \in DOMAIN book.index, NEW at,
               at = <<book.index[id].side, book.index[id].price>>
        PROVE  at \in DOMAIN book.levels /\ id \in Range(Orders(at))
    <3>1. at \in DOMAIN book.levels /\ \E k \in 1 .. Len(Orders(at)) : Orders(at)[k] = id
      BY <2>3, Zenon DEF BookOK, BookLinked, Orders
    <3>2. DOMAIN Orders(at) = 1 .. Len(Orders(at))
      BY <3>1, <2>1
    <3> QED BY <3>1, <3>2 DEF Range
  <2> QED BY <2>1, <2>2, <2>3 DEF IndexMatchesLevels
<1>2. BookInv => BookOK(book)
  BY DEF BookInv
<1> QED BY <1>1, <1>2, BookInvInductive, PTL DEF BookSpec

\* A subscriber who applies the returned deltas in order always has exactly the
\* levels whose total is not 0, with their totals.
THEOREM SubscriberKnowsTotals == BookSpec => []DeltasRebuildBook
<1>1. BookInv => DeltasRebuildBook
  BY DEF BookInv, DeltasRebuildBook
<1> QED BY <1>1, BookInvInductive, PTL DEF BookSpec

\* A rejected message changes neither the book nor what subscribers know.
THEOREM RejectionHarmless == BookSpec => RejectedChangesNothing
<1>1. BookInv /\ [BookNext]_bookVars => [error' # "none" => book' = book /\ mirror' = mirror]_bookVars
  <2> SUFFICES ASSUME BookInv, BookNext, error' # "none"
               PROVE  book' = book /\ mirror' = mirror
    OBVIOUS
  <2>1. PICK m : BookMessage(m) /\ Handle(m)
    BY StepHandles
  <2>2. GoodOutcome(Apply(book, m), book)
    BY <2>1, ApplyOutcome DEF BookInv
  <2>3. book' = book /\ Apply(book, m).deltas = <<>>
    BY <2>1, <2>2 DEF Handle, GoodOutcome
  <2>4. mirror' = AfterDeltas(mirror, <<>>)
    BY <2>1, <2>3 DEF Handle
  <2>5. AfterDeltas(mirror, <<>>) = mirror
    BY DEF AfterDeltas
  <2> QED BY <2>3, <2>4, <2>5 DEF BookInv
<1> QED BY <1>1, BookInvInductive, PTL DEF BookSpec, RejectedChangesNothing
-----------------------------------------------------------------------------
(***************************************************************************)
(* Price-time priority.                                                    *)
(***************************************************************************)

\* The orders of each level of b stand in the order R has them in.
InTimeOrder(b, R) ==
  /\ R \subseteq (DOMAIN b.index) \X (DOMAIN b.index)
  /\ \A at \in DOMAIN b.levels : \A j, k \in 1 .. Len(b.levels[at].orders) :
       j < k <=> <<b.levels[at].orders[j], b.levels[at].orders[k]>> \in R

\* Pairs of members of D, and those of which the second is a newcomer.
LEMMA JoiningPairs ==
  ASSUME NEW D, NEW id, id \notin D, NEW R, R \subseteq D \X D
  PROVE  /\ R \cup (D \X {id}) \subseteq (D \cup {id}) \X (D \cup {id})
         /\ \A x, y \in D : <<x, y>> \in R \cup (D \X {id}) <=> <<x, y>> \in R
         /\ \A x \in D : <<x, id>> \in R \cup (D \X {id})
         /\ \A x : <<id, x>> \notin R \cup (D \X {id})
<1>1. \A x \in D : <<x, id>> \in D \X {id}
  OBVIOUS
<1>2. \A x : <<id, x>> \notin D \X {id} /\ <<id, x>> \notin D \X D
  OBVIOUS
<1>3. \A x, y \in D : <<x, y>> \notin D \X {id}
  OBVIOUS
<1>4. R \cup (D \X {id}) \subseteq (D \cup {id}) \X (D \cup {id})
  OBVIOUS
<1> QED BY <1>1, <1>2, <1>3, <1>4, Zenon

\* Pairs of those that stay.
LEMMA StayingPairs ==
  ASSUME NEW D, NEW R
  PROVE  /\ R \cap (D \X D) \subseteq D \X D
         /\ \A x, y \in D : <<x, y>> \in R \cap (D \X D) <=> <<x, y>> \in R
OBVIOUS

\* An order that joins the back of a level is younger than all others.
LEMMA InsertedInTime ==
  ASSUME NEW b, BookOK(b), NEW id, NEW order, NEW here, NEW old, LevelFound(b, here, old),
         NEW a, InsertedInto(a, b, id, order, here, old), NEW R, InTimeOrder(b, R)
  PROVE  InTimeOrder(a, R \cup ((DOMAIN b.index) \X {id}))
<1> DEFINE S == R \cup ((DOMAIN b.index) \X {id})
<1>1. DOMAIN a.index = DOMAIN b.index \cup {id} /\ id \notin DOMAIN b.index
  BY DEF InsertedInto
<1>2. R \subseteq (DOMAIN b.index) \X (DOMAIN b.index)
  BY DEF InTimeOrder
<1>3. /\ S \subseteq (DOMAIN a.index) \X (DOMAIN a.index)
      /\ \A x, y \in DOMAIN b.index : <<x, y>> \in S <=> <<x, y>> \in R
      /\ \A x \in DOMAIN b.index : <<x, id>> \in S
      /\ \A x \in DOMAIN a.index : <<id, x>> \notin S
  BY <1>1, <1>2, JoiningPairs, ZenonT(30)
<1> HIDE DEF S
<1>4. ASSUME NEW at \in DOMAIN a.levels, NEW j \in 1 .. Len(a.levels[at].orders),
             NEW k \in 1 .. Len(a.levels[at].orders)
      PROVE  j < k <=> <<a.levels[at].orders[j], a.levels[at].orders[k]>> \in S
  <2>1. CASE at # here
    <3>1. at \in DOMAIN b.levels /\ a.levels[at] = b.levels[at]
      BY <2>1 DEF InsertedInto
    <3>2. b.levels[at].orders \in Seq(DOMAIN b.index)
      BY <3>1 DEF BookOK, BookTyped
    <3>3. b.levels[at].orders[j] \in DOMAIN b.index /\ b.levels[at].orders[k] \in DOMAIN b.index
      BY <3>1, <3>2
    <3> QED BY <3>1, <3>3, <1>3, Zenon DEF InTimeOrder
  <2>2. CASE at = here
    <3>1. old.orders \in Seq(DOMAIN b.index)
      BY DEF LevelFound
    <3>2. a.levels[here] = [total  |-> (old.total + order.qty) % QuantityModulus,
                            orders |-> Append(old.orders, id)]
      BY DEF InsertedInto
    <3>3. a.levels[at].orders = Append(old.orders, id)
      BY <3>2, <2>2
    <3>4. \A i, l \in 1 .. Len(old.orders) : i < l <=> <<old.orders[i], old.orders[l]>> \in R
      <4>1. CASE here \in DOMAIN b.levels
        BY <4>1 DEF InTimeOrder, LevelFound
      <4>2. CASE here \notin DOMAIN b.levels
        BY <4>2 DEF LevelFound
      <4> QED BY <4>1, <4>2, Zenon
    <3> DEFINE n == Len(old.orders)
               u == Append(old.orders, id)
    <3>5. /\ n \in Nat /\ Len(u) = n + 1 /\ u[n + 1] = id
          /\ \A i \in 1 .. n : u[i] = old.orders[i] /\ old.orders[i] \in DOMAIN b.index
      <4>1. old.orders \in Seq(DOMAIN a.index) /\ id \in DOMAIN a.index
        BY <3>1, <1>1
      <4> QED BY <4>1, <3>1
    <3> HIDE DEF n, u
    <3>6. j \in 1 .. n + 1 /\ k \in 1 .. n + 1 /\ a.levels[at].orders = u
      BY <3>3, <3>5, Zenon DEF u
    <3>7. CASE j \in 1 .. n /\ k \in 1 .. n
      BY <3>7, <3>4, <3>5, <3>6, <1>3, Zenon DEF n
    <3>8. CASE j \in 1 .. n /\ k = n + 1
      BY <3>8, <3>5, <3>6, <1>3
    <3>9. CASE j = n + 1
      <4>1. u[k] \in DOMAIN a.index
        BY <3>5, <3>6, <1>1
      <4>2. <<u[j], u[k]>> \notin S
        BY <3>9, <3>5, <4>1, <1>3, Zenon
      <4> QED BY <3>9, <3>5, <3>6, <4>2
    <3> QED BY <3>5, <3>6, <3>7, <3>8, <3>9
  <2> QED BY <2>1, <2>2, Zenon
<1>5. InTimeOrder(a, S)
  BY <1>3, <1>4 DEF InTimeOrder
<1> QED BY <1>5 DEF S

\* Erasing an order moves up the ones behind it.
LEMMA ErasedShift ==
  ASSUME NEW S, NEW s \in Seq(S), NEW id, \E k \in 1 .. Len(s) : s[k] = id
  PROVE  \E k \in 1 .. Len(s) :
           /\ Len(EraseListed(s, id)) = Len(s) - 1
           /\ \A l \in 1 .. Len(s) - 1 : EraseListed(s, id)[l] = IF l < k THEN s[l] ELSE s[l + 1]
<1>1. PICK k \in 1 .. Len(s) :
        /\ Len(EraseListed(s, id)) = Len(s) - 1
        /\ \A l \in 1 .. Len(s) - 1 : EraseListed(s, id)[l] = IF l < k THEN s[l] ELSE s[l + 1]
  BY EraseListedEntries
<1> QED BY <1>1, Zenon

\* Any two orders listed in `left' are listed in s, in the same order.
KeepsOrder(left, s) ==
  \A i, j \in 1 .. Len(left) : \E x, y \in 1 .. Len(s) :
    left[i] = s[x] /\ left[j] = s[y] /\ (i < j <=> x < y)

\* The orders that are left when one is erased keep their order.
LEMMA ErasedPairs ==
  ASSUME NEW S, NEW s \in Seq(S), NEW id, \E k \in 1 .. Len(s) : s[k] = id,
         NEW left, left = EraseListed(s, id)
  PROVE  KeepsOrder(left, s)
<1> SUFFICES ASSUME NEW i \in 1 .. Len(left), NEW j \in 1 .. Len(left)
             PROVE  \E x, y \in 1 .. Len(s) : left[i] = s[x] /\ left[j] = s[y] /\ (i < j <=> x < y)
  BY Zenon DEF KeepsOrder
<1>1. PICK k \in 1 .. Len(s) :
        /\ Len(left) = Len(s) - 1
        /\ \A l \in 1 .. Len(s) - 1 : left[l] = IF l < k THEN s[l] ELSE s[l + 1]
  BY ErasedShift, Zenon
<1> DEFINE Was(l) == IF l < k THEN l ELSE l + 1
<1>2. i \in 1 .. Len(s) - 1 /\ j \in 1 .. Len(s) - 1 /\ Len(s) \in Nat /\ k \in Nat
  BY <1>1
<1>3. left[i] = s[Was(i)] /\ left[j] = s[Was(j)]
  BY <1>1, <1>2, Zenon
<1>4. Was(i) \in 1 .. Len(s) /\ Was(j) \in 1 .. Len(s) /\ (i < j <=> Was(i) < Was(j))
  BY <1>2
<1> HIDE DEF Was
<1> QED BY <1>3, <1>4, Zenon

\* An order that leaves does not change the order of the others.
LEMMA RemovedInTime ==
  ASSUME NEW b, BookOK(b), NEW id, HasOrder(b, id), NEW here, NEW old, NEW left,
         RestsAt(b, id, here, old, left), NEW a, RemovedFrom(a, b, id, here, left),
         NEW R, InTimeOrder(b, R), NEW D, D = DOMAIN b.index \ {id}
  PROVE  InTimeOrder(a, R \cap (D \X D))
<1> DEFINE S == R \cap (D \X D)
<1>1. BookOK(a) /\ DOMAIN a.index = D
  <2>1. BookOK(a)
    BY RemovedBookOK, Zenon
  <2>2. DOMAIN a.index = D
    BY DEF RemovedFrom
  <2> QED BY <2>1, <2>2
<1>2. /\ S \subseteq (DOMAIN a.index) \X (DOMAIN a.index)
      /\ \A x, y \in DOMAIN a.index : <<x, y>> \in S <=> <<x, y>> \in R
  BY <1>1, StayingPairs, Zenon
<1> HIDE DEF S
<1>3. ASSUME NEW at \in DOMAIN a.levels, NEW i \in 1 .. Len(a.levels[at].orders),
             NEW j \in 1 .. Len(a.levels[at].orders)
      PROVE  i < j <=> <<a.levels[at].orders[i], a.levels[at].orders[j]>> \in S
  <2>0. a.levels[at].orders \in Seq(DOMAIN a.index)
    BY <1>1, Zenon DEF BookOK, BookTyped
  <2>1. a.levels[at].orders[i] \in DOMAIN a.index /\ a.levels[at].orders[j] \in DOMAIN a.index
    BY <2>0
  <2>2. CASE at # here
    <3>1. at \in DOMAIN b.levels /\ a.levels[at] = b.levels[at]
      BY <2>2 DEF RemovedFrom
    <3> QED BY <2>1, <3>1, <1>2, Zenon DEF InTimeOrder
  <2>3. CASE at = here
    <3>1. here \in DOMAIN b.levels /\ old = b.levels[here].orders /\ left = EraseListed(old, id)
      BY Zenon DEF RemovedFrom, RestsAt
    <3>2. left # <<>> /\ a.levels[at].orders = left
      BY <2>3 DEF RemovedFrom
    <3>3. old \in Seq(DOMAIN b.index) /\ \E k \in 1 .. Len(old) : old[k] = id
      <4>1. b.levels[here] \in [total : 0 .. QuantityModulus - 1, orders : Seq(DOMAIN b.index)]
        BY <3>1 DEF BookOK, BookTyped
      <4>2. \E k \in 1 .. Len(b.levels[here].orders) : b.levels[here].orders[k] = id
        BY Zenon DEF BookOK, BookLinked, RestsAt, HasOrder
      <4> QED BY <3>1, <4>1, <4>2, Zenon
    <3>4. i \in 1 .. Len(left) /\ j \in 1 .. Len(left)
      BY <3>2
    <3>5. PICK x, y \in 1 .. Len(old) :
            left[i] = old[x] /\ left[j] = old[y] /\ (i < j <=> x < y)
      <4>1. left = EraseListed(old, id)
        BY <3>1
      <4>2. KeepsOrder(left, old)
        BY <3>3, <4>1, ErasedPairs, Zenon
      <4> QED BY <3>4, <4>2 DEF KeepsOrder
    <3>6. x < y <=> <<old[x], old[y]>> \in R
      BY <3>1, Zenon DEF InTimeOrder
    <3> QED BY <2>1, <3>2, <3>5, <3>6, <1>2, Zenon
  <2> QED BY <2>2, <2>3, Zenon
<1>4. InTimeOrder(a, S)
  BY <1>2, <1>3, Zenon DEF InTimeOrder
<1> QED BY <1>4 DEF S

\* A fill moves no order.
LEMMA FilledInTime ==
  ASSUME NEW b, BookOK(b), NEW id, HasOrder(b, id), NEW qty, NEW here,
         NEW a, FilledAt(a, b, id, qty, here), NEW R, InTimeOrder(b, R)
  PROVE  InTimeOrder(a, R)
<1>1. DOMAIN a.index = DOMAIN b.index /\ DOMAIN a.levels = DOMAIN b.levels
  BY DEF FilledAt
<1>2. ASSUME NEW at \in DOMAIN b.levels PROVE a.levels[at].orders = b.levels[at].orders
  <2>1. b.levels[at] \in [total : 0 .. QuantityModulus - 1, orders : Seq(DOMAIN b.index)]
    BY DEF BookOK, BookTyped
  <2>2. CASE at = here
    BY <2>1, <2>2, Zenon DEF FilledAt
  <2>3. CASE at # here
    BY <2>3 DEF FilledAt
  <2> QED BY <2>2, <2>3, Zenon
<1> QED BY <1>1, <1>2, Zenon DEF InTimeOrder

\* The pairs AfterArrival keeps and adds to any pairs R, for the orders of the
\* book before and after.
Arrived(R, before, after) ==
  (R \cap ((before \cap after) \X (before \cap after))) \cup ((before \cap after) \X (after \ before))

\* If no order joins, the pairs of those that stay are kept.
LEMMA NoneArrived ==
  ASSUME NEW R, NEW before, NEW after, after \subseteq before
  PROVE  Arrived(R, before, after) = R \cap (after \X after)
<1>1. before \cap after = after /\ after \ before = {}
  OBVIOUS
<1>2. after \X {} = {}
  OBVIOUS
<1> QED BY <1>1, <1>2, Zenon DEF Arrived

\* If one joins, it is younger than those that stay.
LEMMA OneArrived ==
  ASSUME NEW R, NEW before, NEW D, D \subseteq before, NEW id, id \notin before
  PROVE  Arrived(R, before, D \cup {id}) = (R \cap (D \X D)) \cup (D \X {id})
<1>1. before \cap (D \cup {id}) = D /\ (D \cup {id}) \ before = {id}
  OBVIOUS
<1> QED BY <1>1 DEF Arrived

\* insert_resting_order() and the queue of its level.
LEMMA InsertInTime ==
  ASSUME NEW b, BookOK(b), NEW id, ~HasOrder(b, id),
         NEW side \in BookSides, NEW price \in Int, NEW qty \in Nat, NEW R, InTimeOrder(b, R)
  PROVE  InTimeOrder(InsertRestingOrder(b, id, side, price, qty), R \cup ((DOMAIN b.index) \X {id}))
BY InsertedBook, LevelForFound, InsertedInTime, Zenon

\* remove_resting_order() and the queue of its level.
LEMMA RemoveInTime ==
  ASSUME NEW b, BookOK(b), NEW id, HasOrder(b, id), NEW R, InTimeOrder(b, R),
         NEW D, D = DOMAIN b.index \ {id}
  PROVE  InTimeOrder(RemoveRestingOrder(b, id), R \cap (D \X D))
<1>1. \E here, old, left : RestsAt(b, id, here, old, left)
  BY Zenon DEF RestsAt
<1> QED BY <1>1, RemovedBook, RemovedInTime, Zenon

\* A fill and the queue of its level.
LEMMA FillInTime ==
  ASSUME NEW b, BookOK(b), NEW id, HasOrder(b, id), NEW qty, NEW R, InTimeOrder(b, R)
  PROVE  InTimeOrder(Fill(b, id, qty), R) /\ DOMAIN Fill(b, id, qty).index = DOMAIN b.index
<1>1. DOMAIN Fill(b, id, qty).index = DOMAIN b.index
  BY DEF Fill
<1>2. FilledAt(Fill(b, id, qty), b, id, qty, <<b.index[id].side, b.index[id].price>>)
  BY FilledBook
<1>3. InTimeOrder(Fill(b, id, qty), R)
  BY <1>2, FilledInTime
<1> QED BY <1>1, <1>3, Zenon

\* Pairs of a book's orders are kept when all orders stay.
LEMMA AllStay ==
  ASSUME NEW b, NEW a, DOMAIN a.index = DOMAIN b.index, NEW R, InTimeOrder(b, R)
  PROVE  Arrived(R, DOMAIN b.index, DOMAIN a.index) = R
<1>1. R \subseteq (DOMAIN b.index) \X (DOMAIN b.index)
  BY DEF InTimeOrder
<1>2. R \cap ((DOMAIN b.index) \X (DOMAIN b.index)) = R
  BY <1>1
<1>3. DOMAIN a.index \subseteq DOMAIN b.index
  OBVIOUS
<1>4. Arrived(R, DOMAIN b.index, DOMAIN a.index) = R \cap ((DOMAIN a.index) \X (DOMAIN a.index))
  BY <1>3, NoneArrived
<1> QED BY <1>2, <1>4, Zenon

\* apply() keeps price-time priority, whatever the message.
LEMMA ApplyInTime ==
  ASSUME NEW b, BookOK(b), NEW m, BookMessage(m), NEW R, InTimeOrder(b, R)
  PROVE  InTimeOrder(Apply(b, m).book, Arrived(R, DOMAIN b.index, DOMAIN Apply(b, m).book.index))
<1>1. ASSUME NEW e PROVE InTimeOrder(Rejected(b, e).book, Arrived(R, DOMAIN b.index, DOMAIN Rejected(b, e).book.index))
  <2>1. Rejected(b, e).book = b
    BY DEF Rejected
  <2>2. Arrived(R, DOMAIN b.index, DOMAIN b.index) = R
    BY AllStay
  <2> QED BY <2>1, <2>2, Zenon
<1>2. ASSUME NEW a, NEW d PROVE Applied(a, d).book = a
  BY DEF Applied
<1>3. CASE m.type = "Add" /\ m.side \in BookSides /\ m.price \in Int /\ m.qty \in Nat
  <2>1. CASE HasOrder(b, m.id)
    <3>1. Apply(b, m) = Rejected(b, "DuplicateOrderId")
      BY <1>3, <2>1, Zenon DEF Apply, ApplyAdd
    <3> QED BY <3>1, <1>1, Zenon
  <2>2. CASE ~HasOrder(b, m.id)
    <3> SUFFICES ASSUME NEW a, a = InsertRestingOrder(b, m.id, m.side, m.price, m.qty)
                 PROVE  InTimeOrder(a, Arrived(R, DOMAIN b.index, DOMAIN a.index))
      BY <1>2, <1>3, <2>2, ZenonT(30) DEF Apply, ApplyAdd
    <3>1. InTimeOrder(a, R \cup ((DOMAIN b.index) \X {m.id}))
      BY <1>3, <2>2, InsertInTime, Zenon
    <3>2. DOMAIN a.index = DOMAIN b.index \cup {m.id} /\ m.id \notin DOMAIN b.index
      BY <2>2, InsertedIndex DEF HasOrder
    <3>3. Arrived(R, DOMAIN b.index, DOMAIN a.index) =
            (R \cap ((DOMAIN b.index) \X (DOMAIN b.index))) \cup ((DOMAIN b.index) \X {m.id})
      <4> DEFINE D == DOMAIN b.index
      <4>1. D \subseteq DOMAIN b.index
        OBVIOUS
      <4> HIDE DEF D
      <4>2. Arrived(R, DOMAIN b.index, D \cup {m.id}) = (R \cap (D \X D)) \cup (D \X {m.id})
        BY <3>2, <4>1, OneArrived
      <4> QED BY <3>2, <4>2, Zenon DEF D
    <3>4. R \cap ((DOMAIN b.index) \X (DOMAIN b.index)) = R
      BY DEF InTimeOrder
    <3> QED BY <3>1, <3>3, <3>4, Zenon
  <2> QED BY <2>1, <2>2, Zenon
<1>4. CASE m.type = "Cancel"
  <2>1. CASE ~HasOrder(b, m.id)
    <3>1. Apply(b, m) = Rejected(b, "OrderNotFound")
      BY <1>4, <2>1, Zenon DEF Apply, ApplyCancel
    <3> QED BY <3>1, <1>1
  <2>2. CASE HasOrder(b, m.id)
    <3> SUFFICES ASSUME NEW a, a = RemoveRestingOrder(b, m.id)
                 PROVE  InTimeOrder(a, Arrived(R, DOMAIN b.index, DOMAIN a.index))
      BY <1>2, <1>4, <2>2, ZenonT(30) DEF Apply, ApplyCancel
    <3>1. DOMAIN a.index = DOMAIN b.index \ {m.id}
      BY RemovedIndex, Zenon
    <3>2. InTimeOrder(a, R \cap ((DOMAIN a.index) \X (DOMAIN a.index)))
      BY <2>2, <3>1, RemoveInTime, Zenon
    <3>3. DOMAIN a.index \subseteq DOMAIN b.index
      BY <3>1
    <3>4. Arrived(R, DOMAIN b.index, DOMAIN a.index) = R \cap ((DOMAIN a.index) \X (DOMAIN a.index))
      BY <3>3, NoneArrived
    <3> QED BY <3>2, <3>4, Zenon
  <2> QED BY <2>1, <2>2, Zenon
<1>5. CASE m.type = "Execute" /\ m.qty \in Nat
  <2>1. CASE ~HasOrder(b, m.id)
    <3>1. Apply(b, m) = Rejected(b, "OrderNotFound")
      BY <1>5, <2>1, Zenon DEF Apply, ApplyExecute
    <3> QED BY <3>1, <1>1
  <2>2. CASE HasOrder(b, m.id) /\ m.qty > b.index[m.id].qty
    <3>1. Apply(b, m) = Rejected(b, "ExecutedQuantityExceedsRemaining")
      BY <1>5, <2>2, Zenon DEF Apply, ApplyExecute
    <3> QED BY <3>1, <1>1, Zenon
  <2>3. CASE HasOrder(b, m.id) /\ ~(m.qty > b.index[m.id].qty)
    <3> SUFFICES ASSUME NEW f, f = Fill(b, m.id, m.qty), NEW a,
                        a = IF f.index[m.id].qty = 0 THEN RemoveRestingOrder(f, m.id) ELSE f
                 PROVE  InTimeOrder(a, Arrived(R, DOMAIN b.index, DOMAIN a.index))
      BY <1>2, <1>5, <2>3 DEF Apply, ApplyExecute
    <3>1. m.qty \in 0 .. b.index[m.id].qty
      <4>1. b.index[m.id].qty \in Nat
        BY <2>3, PlaceTyped, Zenon
      <4> QED BY <1>5, <2>3, <4>1
    <3>2. BookOK(f) /\ InTimeOrder(f, R) /\ DOMAIN f.index = DOMAIN b.index
      BY <2>3, <3>1, FillKeepsBook, FillInTime, Zenon
    <3>3. CASE a = f
      BY <3>2, <3>3, AllStay, Zenon
    <3>4. CASE a = RemoveRestingOrder(f, m.id)
      <4>1. HasOrder(f, m.id)
        BY <2>3, <3>2 DEF HasOrder
      <4>2. DOMAIN a.index = DOMAIN f.index \ {m.id}
        BY <3>4, RemovedIndex, SMTT(20)
      <4>3. InTimeOrder(a, R \cap ((DOMAIN a.index) \X (DOMAIN a.index)))
        BY <3>2, <3>4, <4>1, <4>2, RemoveInTime, SMTT(20)
      <4>4. DOMAIN a.index \subseteq DOMAIN b.index
        BY <3>2, <4>2, Zenon
      <4>5. Arrived(R, DOMAIN b.index, DOMAIN a.index) = R \cap ((DOMAIN a.index) \X (DOMAIN a.index))
        BY <4>4, NoneArrived
      <4> QED BY <4>3, <4>5, Zenon
    <3> QED BY <3>3, <3>4, SMTT(20)
  <2> QED BY <2>1, <2>2, <2>3, Zenon
<1>6. CASE m.type = "Replace" /\ m.price \in Int /\ m.qty \in Nat
  <2>1. CASE ~HasOrder(b, m.id)
    <3>1. Apply(b, m) = Rejected(b, "OrderNotFound")
      BY <1>6, <2>1, Zenon DEF Apply, ApplyReplace
    <3> QED BY <3>1, <1>1
  <2>2. CASE HasOrder(b, m.id) /\ HasOrder(b, m.new)
    <3>1. Apply(b, m) = Rejected(b, "DuplicateOrderId")
      BY <1>6, <2>2, Zenon DEF Apply, ApplyReplace
    <3> QED BY <3>1, <1>1
  <2>3. CASE HasOrder(b, m.id) /\ ~HasOrder(b, m.new)
    <3> SUFFICES ASSUME NEW side, side = b.index[m.id].side,
                        NEW v, v = RemoveRestingOrder(b, m.id),
                        NEW a, a = InsertRestingOrder(v, m.new, side, m.price, m.qty)
                 PROVE  InTimeOrder(a, Arrived(R, DOMAIN b.index, DOMAIN a.index))
      BY <1>2, <1>6, <2>3, SMTT(20) DEF Apply, ApplyReplace
    <3> DEFINE D == DOMAIN v.index
    <3>1. D = DOMAIN b.index \ {m.id} /\ BookOK(v) /\ side \in BookSides
      BY <2>3, RemovedIndex, RemoveKeepsBook, PlaceTyped, Zenon
    <3>2. InTimeOrder(v, R \cap (D \X D))
      BY <2>3, <3>1, RemoveInTime, Zenon
    <3>3. ~HasOrder(v, m.new) /\ m.new \notin DOMAIN b.index
      BY <2>3, <3>1, Zenon DEF HasOrder
    <3>4. InTimeOrder(a, (R \cap (D \X D)) \cup (D \X {m.new}))
      BY <1>6, <3>1, <3>2, <3>3, InsertInTime, Zenon
    <3>5. DOMAIN a.index = D \cup {m.new}
      BY InsertedIndex, SMTT(20)
    <3> HIDE DEF D
    <3>6. Arrived(R, DOMAIN b.index, DOMAIN a.index) = (R \cap (D \X D)) \cup (D \X {m.new})
      <4>1. D \subseteq DOMAIN b.index
        BY <3>1
      <4> QED BY <3>3, <3>5, <4>1, OneArrived, SMTT(20)
    <3> QED BY <3>4, <3>6, Zenon
  <2> QED BY <2>1, <2>2, <2>3, Zenon
<1> QED BY <1>3, <1>4, <1>5, <1>6, Zenon DEF BookMessage

\* Every level lists its orders in the order they joined the book, a replaced
\* order counting as new, whatever was cancelled or filled in between.
THEOREM PriorityKept == BookSpec => []TimePriority
<1> DEFINE I == BookInv /\ InTimeOrder(book, older)
<1>1. BookInit => I
  <2> SUFFICES ASSUME BookInit PROVE InTimeOrder(book, older)
    BY BookInvInductive
  <2>1. DOMAIN book.levels = {} /\ older = {}
    BY DEF BookInit, EmptyBook
  <2> QED BY <2>1 DEF InTimeOrder
<1>2. I /\ [BookNext]_bookVars => I'
  <2> SUFFICES ASSUME BookInv, InTimeOrder(book, older), [BookNext]_bookVars
               PROVE  InTimeOrder(book', older')
    BY BookInvInductive
  <2>1. CASE UNCHANGED bookVars
    BY <2>1 DEF bookVars
  <2>2. CASE BookNext
    <3>1. PICK m : BookMessage(m) /\ Handle(m)
      BY <2>2, StepHandles, Zenon
    <3>2. book' = Apply(book, m).book /\ older' = Arrived(older, DOMAIN book.index, DOMAIN Apply(book, m).book.index)
      BY <3>1, Zenon DEF Handle, AfterArrival, Arrived
    <3> QED BY <3>1, <3>2, ApplyInTime, Zenon DEF BookInv
  <2> QED BY <2>1, <2>2
<1>3. I => TimePriority
  BY DEF InTimeOrder, TimePriority, Orders
<1> QED BY <1>1, <1>2, <1>3, PTL DEF BookSpec

-----------------------------------------------------------------------------
(***************************************************************************)
(* Sums and widths.                                                        *)
(***************************************************************************)

\* Wrapping a summand to the width of a quantity does not change the wrapped
\* sum.
LEMMA WrapSummand ==
  ASSUME NEW x \in Int, NEW q \in Int
  PROVE  ((x % QuantityModulus) + q) % QuantityModulus = (x + q) % QuantityModulus
<1> DEFINE M == QuantityModulus
           y == (x % M) + q
<1>1. M \in Nat \ {0}
  BY ModulusAssumption
<1> HIDE DEF M
<1>2. \A z \in Int : z \div M \in Int
  BY <1>1
<1>3. \A z \in Int : z % M \in 0 .. M - 1
  BY <1>1
<1>4. \A z \in Int : z = M * (z \div M) + (z % M)
  BY <1>1
<1>5. \A k \in Int, r \in 0 .. M - 1 : (M * k + r) % M = r
  BY <1>1
<1>6. y \in Int
  BY <1>1, <1>3
<1>7. x + q = M * (x \div M) + y
  <2>1. x = M * (x \div M) + (x % M) /\ x \div M \in Int /\ x % M \in Int
    BY <1>1, <1>2, <1>3, <1>4
  <2> QED BY <2>1, <1>1
<1> HIDE DEF y
<1>8. x + q = M * ((x \div M) + (y \div M)) + (y % M)
  <2>1. \A a, c \in Int : M * (a + c) = M * a + M * c
    BY <1>1
  <2>2. y = M * (y \div M) + (y % M) /\ y \div M \in Int /\ y % M \in Int /\ x \div M \in Int
    BY <1>1, <1>2, <1>3, <1>4, <1>6, SMTT(20)
  <2>3. M * ((x \div M) + (y \div M)) = M * (x \div M) + M * (y \div M)
    BY <2>1, <2>2, Zenon
  <2> QED BY <2>2, <2>3, <1>1, <1>7
<1>9. (x + q) % M = y % M
  <2>1. (x \div M) + (y \div M) \in Int /\ y % M \in 0 .. M - 1
    BY <1>2, <1>3, <1>6
  <2> QED BY <2>1, <1>5, <1>8, Zenon
<1> QED BY <1>9 DEF y, M

\* f has the sums of the beginnings of s.
PartialSums(f, s) ==
  /\ f \in [0 .. Len(s) -> Int]
  /\ f[0] = 0
  /\ \A k \in 1 .. Len(s) : f[k] = f[k - 1] + s[k]

\* Beginnings of a sequence of numbers have sums.
LEMMA PartialSumsExist ==
  ASSUME NEW s \in Seq(Int)
  PROVE  \E f : PartialSums(f, s)
<1> DEFINE Chain(f, n) == /\ f \in [0 .. n -> Int] /\ f[0] = 0
                          /\ \A k \in 1 .. n : f[k] = f[k - 1] + s[k]
           Reached(n) == \E f : Chain(f, n)
           S == {n \in Nat : n <= Len(s) => Reached(n)}
<1>1. 0 \in S
  <2>1. Chain([k \in 0 .. 0 |-> 0], 0)
    OBVIOUS
  <2> QED BY <2>1, Zenon
<1>2. ASSUME NEW n \in Nat, n \in S PROVE n + 1 \in S
  <2> HIDE DEF Reached
  <2> SUFFICES ASSUME n + 1 <= Len(s) PROVE Reached(n + 1)
    OBVIOUS
  <2>0. Reached(n)
    BY <1>2
  <2>1. PICK f : Chain(f, n)
    BY <2>0, Zenon DEF Reached
  <2> DEFINE g == [k \in 0 .. n + 1 |-> IF k = n + 1 THEN f[n] + s[n + 1] ELSE f[k]]
  <2>2. s[n + 1] \in Int /\ f[n] \in Int
    BY <2>1
  <2>3. g \in [0 .. n + 1 -> Int] /\ g[0] = 0
    BY <2>1, <2>2
  <2>4. ASSUME NEW k \in 1 .. n + 1 PROVE g[k] = g[k - 1] + s[k]
    <3>1. CASE k = n + 1
      BY <3>1
    <3>2. CASE k \in 1 .. n
      BY <3>2, <2>1
    <3> QED BY <3>1, <3>2
  <2> HIDE DEF g
  <2>5. Chain(g, n + 1)
    BY <2>3, <2>4, Zenon
  <2> QED BY <2>5, Zenon DEF Reached
<1> HIDE DEF S
<1>3. Len(s) \in S
  BY <1>1, <1>2, SetInduction, SMTT(20)
<1> QED BY <1>3 DEF S, PartialSums

\* There is only one such function.
LEMMA PartialSumsUnique ==
  ASSUME NEW s \in Seq(Int), NEW f, PartialSums(f, s), NEW g, PartialSums(g, s)
  PROVE  f = g
<1> DEFINE S == {n \in Nat : n <= Len(s) => f[n] = g[n]}
<1>1. 0 \in S
  BY DEF PartialSums
<1>2. ASSUME NEW n \in Nat, n \in S PROVE n + 1 \in S
  <2> SUFFICES ASSUME n + 1 <= Len(s) PROVE f[n + 1] = g[n + 1]
    OBVIOUS
  <2>1. n + 1 \in 1 .. Len(s) /\ (n + 1) - 1 = n /\ f[n] = g[n]
    BY <1>2
  <2> QED BY <2>1 DEF PartialSums
<1> HIDE DEF S
<1>3. \A n \in Nat : n \in S
  BY <1>1, <1>2, SetInduction, Zenon
<1>4. \A n \in 0 .. Len(s) : f[n] = g[n]
  BY <1>3 DEF S
<1> QED BY <1>4 DEF PartialSums

\* Sum is what partial sums lead to.
LEMMA SumIs ==
  ASSUME NEW s \in Seq(Int), NEW f, PartialSums(f, s)
  PROVE  Sum(s) = f[Len(s)]
<1> DEFINE Eq(h) == h = [k \in 0 .. Len(s) |-> IF k = 0 THEN 0 ELSE h[k - 1] + s[k]]
           sum == CHOOSE h : Eq(h)
<1>1. Eq(f)
  BY DEF PartialSums
<1>2. Eq(sum)
  BY <1>1, Zenon
<1>3. Sum(s) = sum[Len(s)]
  BY DEF Sum
<1> HIDE DEF sum
<1>4. sum[0] = 0 /\ \A k \in 1 .. Len(s) : sum[k] = sum[k - 1] + s[k]
  <2>1. \A k \in 0 .. Len(s) : sum[k] = IF k = 0 THEN 0 ELSE sum[k - 1] + s[k]
    BY <1>2, Zenon
  <2> QED BY <2>1
<1>5. PartialSums(sum, s)
  <2> DEFINE S == {n \in Nat : n <= Len(s) => sum[n] \in Int}
  <2>1. 0 \in S
    BY <1>4
  <2>2. ASSUME NEW n \in Nat, n \in S PROVE n + 1 \in S
    <3> SUFFICES ASSUME n + 1 <= Len(s) PROVE sum[n + 1] \in Int
      OBVIOUS
    <3>1. n + 1 \in 1 .. Len(s) /\ (n + 1) - 1 = n /\ sum[n] \in Int
      BY <2>2
    <3>2. s[n + 1] \in Int
      BY <3>1
    <3> QED BY <3>1, <3>2, <1>4, SMTT(20)
  <2> HIDE DEF S
  <2>3. \A n \in Nat : n \in S
    BY <2>1, <2>2, SetInduction, Zenon
  <2>4. \A n \in 0 .. Len(s) : sum[n] \in Int
    BY <2>3 DEF S
  <2> QED BY <2>4, <1>2, <1>4, Zenon DEF PartialSums
<1> QED BY <1>3, <1>5, PartialSumsUnique, Zenon

\* The sum of a sequence of numbers is a number, 0 for the empty one.
LEMMA SumTyped == (\A s \in Seq(Int) : Sum(s) \in Int) /\ Sum(<<>>) = 0
<1>1. ASSUME NEW s \in Seq(Int) PROVE Sum(s) \in Int /\ (s = <<>> => Sum(s) = 0)
  <2>1. PICK f : PartialSums(f, s)
    BY PartialSumsExist
  <2>2. Sum(s) = f[Len(s)] /\ Len(s) \in 0 .. Len(s)
    BY <2>1, SumIs
  <2> QED BY <2>1, <2>2, Zenon DEF PartialSums
<1>2. <<>> \in Seq(Int)
  OBVIOUS
<1> QED BY <1>1, <1>2, Zenon

\* A number at the end adds to the sum.
LEMMA SumAppended ==
  ASSUME NEW s \in Seq(Int), NEW t \in Seq(Int), Len(t) = Len(s) + 1,
         \A i \in 1 .. Len(s) : t[i] = s[i]
  PROVE  Sum(t) = Sum(s) + t[Len(t)]
<1>1. PICK f : PartialSums(f, s)
  BY PartialSumsExist, Zenon
<1> DEFINE n == Len(s)
           g == [i \in 0 .. n + 1 |-> IF i = n + 1 THEN f[n] + t[n + 1] ELSE f[i]]
<1>2. n \in Nat /\ f[n] \in Int /\ t[n + 1] \in Int /\ f \in [0 .. n -> Int] /\ f[0] = 0
  BY <1>1 DEF PartialSums
<1>3. g \in [0 .. n + 1 -> Int] /\ g[0] = 0 /\ g[n + 1] = f[n] + t[n + 1]
  BY <1>2
<1>4. ASSUME NEW i \in 1 .. n + 1 PROVE g[i] = g[i - 1] + t[i]
  <2>1. CASE i = n + 1
    BY <2>1, <1>2
  <2>2. CASE i \in 1 .. n
    <3>1. f[i] = f[i - 1] + s[i] /\ t[i] = s[i]
      BY <2>2, <1>1, Zenon DEF PartialSums
    <3> QED BY <3>1, <2>2, <1>2, SMTT(20)
  <2> QED BY <2>1, <2>2, <1>2
<1> HIDE DEF g
<1>5. PartialSums(g, t)
  BY <1>3, <1>4, Zenon DEF PartialSums
<1>6. Sum(t) = g[n + 1] /\ Sum(s) = f[n]
  BY <1>1, <1>5, SumIs, Zenon
<1> QED BY <1>3, <1>6, Zenon

\* A number that is added and taken back makes no difference.
LEMMA AddAndTakeBack == \A x, y, z \in Int : ((x + y) + z) - y = x + z
OBVIOUS

\* The difference moves past another summand.
LEMMA TakeFirst == \A x, y, z \in Int : (x + y) - z = (x - z) + y
OBVIOUS

\* So does a change.
LEMMA ChangeFirst == \A x, y, z, t \in Int : (x + y) - z + t = (x - z + t) + y
OBVIOUS

\* The positions next to one.
LEMMA Neighbours ==
  \A n \in Nat : \A i \in 1 .. n - 1 :
    /\ i - 1 \in 0 .. n - 1 /\ i \in 0 .. n - 1 /\ i + 1 \in 1 .. n
    /\ i - 1 \in 0 .. n /\ i \in 0 .. n
OBVIOUS

\* A number that is erased leaves the sum.
LEMMA SumErased ==
  ASSUME NEW s \in Seq(Int), NEW k \in 1 .. Len(s), NEW u \in Seq(Int), Len(u) = Len(s) - 1,
         \A i \in 1 .. Len(s) - 1 : u[i] = IF i < k THEN s[i] ELSE s[i + 1]
  PROVE  Sum(u) = Sum(s) - s[k]
<1>1. PICK f : PartialSums(f, s)
  BY PartialSumsExist
<1> DEFINE n == Len(s)
           g == [i \in 0 .. n - 1 |-> IF i < k THEN f[i] ELSE f[i + 1] - s[k]]
<1>2. /\ n \in Nat /\ n > 0 /\ s[k] \in Int /\ f \in [0 .. n -> Int] /\ f[0] = 0
      /\ \A i \in 1 .. n : f[i] = f[i - 1] + s[i]
      /\ \A i \in 1 .. n : s[i] \in Int
  BY <1>1, SMTT(20) DEF PartialSums
<1>a. \A i \in 0 .. n : f[i] \in Int
  BY <1>2, Zenon
<1>b. \A i \in 0 .. n - 1 : g[i] = IF i < k THEN f[i] ELSE f[i + 1] - s[k]
  OBVIOUS
<1>3. g \in [0 .. n - 1 -> Int] /\ g[0] = 0
  <2>1. ASSUME NEW i \in 0 .. n - 1
        PROVE  (IF i < k THEN f[i] ELSE f[i + 1] - s[k]) \in Int
    <3>1. f[i] \in Int /\ f[i + 1] \in Int
      BY <1>2, <1>a
    <3> QED BY <3>1, <1>2
  <2>2. 0 \in 0 .. n - 1
    BY <1>2
  <2>3. g[0] = f[0]
    BY <2>2, <1>b
  <2> QED BY <2>1, <2>3, <1>2, Zenon
<1> HIDE DEF g
<1>c. s[k] \in Int
  BY <1>2, Zenon
<1>d. n \in Nat
  BY <1>2, Zenon
<1>4. ASSUME NEW i \in 1 .. n - 1 PROVE g[i] = g[i - 1] + u[i]
  <2>1. CASE i < k
    BY <2>1, <1>2, <1>b
  <2>2. CASE i = k
    <3>0. i - 1 \in 0 .. n - 1 /\ i \in 0 .. n - 1 /\ i + 1 \in 1 .. n /\ i - 1 \in 0 .. n
      BY <1>d, Neighbours, Zenon
    <3>1. g[i] = f[i + 1] - s[k] /\ g[i - 1] = f[i - 1] /\ u[i] = s[i + 1]
      BY <3>0, <2>2, <1>2, <1>b, SMTT(20)
    <3>2. f[i + 1] = f[i] + s[i + 1] /\ f[i] = f[i - 1] + s[k]
      BY <3>0, <2>2, <1>2
    <3>3. f[i - 1] \in Int /\ s[i + 1] \in Int
      BY <3>0, <1>2, <1>a, Zenon
    <3>4. g[i] = ((f[i - 1] + s[k]) + s[i + 1]) - s[k]
      BY <3>1, <3>2, Zenon
    <3>5. ((f[i - 1] + s[k]) + s[i + 1]) - s[k] = f[i - 1] + s[i + 1]
      BY <3>3, <1>c, AddAndTakeBack, Zenon
    <3> QED BY <3>1, <3>4, <3>5, Zenon
  <2>3. CASE i > k
    <3>0. i - 1 \in 0 .. n - 1 /\ i \in 0 .. n - 1 /\ i + 1 \in 1 .. n /\ i \in 0 .. n
      BY <1>d, Neighbours, Zenon
    <3>1. g[i] = f[i + 1] - s[k] /\ g[i - 1] = f[i] - s[k] /\ u[i] = s[i + 1]
      BY <3>0, <2>3, <1>2, <1>b, SMTT(20)
    <3>2. f[i + 1] = f[(i + 1) - 1] + s[i + 1] /\ (i + 1) - 1 = i
      BY <3>0, <1>2
    <3>3. f[i] \in Int /\ s[i + 1] \in Int
      BY <3>0, <1>2, <1>a, Zenon
    <3>4. (f[i] + s[i + 1]) - s[k] = (f[i] - s[k]) + s[i + 1]
      BY <3>3, <1>c, TakeFirst, Zenon
    <3>5. g[i] = (f[i] + s[i + 1]) - s[k]
      BY <3>1, <3>2
    <3> QED BY <3>1, <3>4, <3>5, Zenon
  <2> QED BY <2>1, <2>2, <2>3
<1>5. g[n - 1] = f[n] - s[k]
  <2>1. CASE k = n
    <3>1. g[n - 1] = f[n - 1] /\ f[n] = f[n - 1] + s[k] /\ f[n - 1] \in Int
      BY <2>1, <1>2, <1>a, <1>b
    <3> QED BY <3>1, <1>2
  <2>2. CASE k < n
    <3>1. n - 1 \in 0 .. n - 1 /\ ~(n - 1 < k) /\ (n - 1) + 1 = n
      BY <2>2, <1>2, SMTT(20)
    <3> QED BY <3>1, <1>b, Zenon
  <2> QED BY <2>1, <2>2
<1>6. PartialSums(g, u)
  BY <1>3, <1>4, Zenon DEF PartialSums
<1>7. Sum(u) = g[n - 1] /\ Sum(s) = f[n]
  BY <1>1, <1>6, SumIs, Zenon
<1> QED BY <1>5, <1>7, Zenon

\* A number that changes changes the sum as much.
LEMMA SumChanged ==
  ASSUME NEW s \in Seq(Int), NEW k \in 1 .. Len(s), NEW t \in Seq(Int), Len(t) = Len(s),
         \A i \in 1 .. Len(s) : i # k => t[i] = s[i]
  PROVE  Sum(t) = Sum(s) - s[k] + t[k]
<1>1. PICK f : PartialSums(f, s)
  BY PartialSumsExist
<1> DEFINE n == Len(s)
           g == [i \in 0 .. n |-> IF i < k THEN f[i] ELSE f[i] - s[k] + t[k]]
<1>2. /\ n \in Nat /\ s[k] \in Int /\ t[k] \in Int /\ f \in [0 .. n -> Int] /\ f[0] = 0
      /\ \A i \in 1 .. n : f[i] = f[i - 1] + s[i]
      /\ \A i \in 1 .. n : s[i] \in Int
  BY <1>1 DEF PartialSums
<1>a. \A i \in 0 .. n : f[i] \in Int
  BY <1>2, Zenon
<1>b. \A i \in 0 .. n : g[i] = IF i < k THEN f[i] ELSE f[i] - s[k] + t[k]
  OBVIOUS
<1>3. g \in [0 .. n -> Int] /\ g[0] = 0 /\ g[n] = f[n] - s[k] + t[k]
  BY <1>2, SMTT(20)
<1> HIDE DEF g
<1>4. ASSUME NEW i \in 1 .. n PROVE g[i] = g[i - 1] + t[i]
  <2>0. f[i] = f[i - 1] + s[i] /\ f[i - 1] \in Int /\ s[i] \in Int
    BY <1>2, <1>a
  <2>1. CASE i < k
    <3>1. g[i] = f[i] /\ g[i - 1] = f[i - 1] /\ t[i] = s[i]
      <4>1. i \in 0 .. n /\ i - 1 \in 0 .. n /\ i - 1 < k /\ i # k
        BY <2>1, <1>2
      <4> QED BY <4>1, <2>1, <1>b, Zenon
    <3> QED BY <3>1, <2>0, Zenon
  <2>2. CASE i = k
    <3>1. g[i] = f[i] - s[k] + t[k] /\ g[i - 1] = f[i - 1]
      BY <2>2, <1>2, <1>b
    <3> QED BY <3>1, <2>0, <2>2, <1>2, SMTT(20)
  <2>3. CASE i > k
    <3>1. g[i] = f[i] - s[k] + t[k] /\ g[i - 1] = f[i - 1] - s[k] + t[k] /\ t[i] = s[i]
      <4>1. /\ i \in 0 .. n /\ i - 1 \in 0 .. n /\ ~(i < k) /\ ~(i - 1 < k) /\ i # k
        BY <2>3, <1>2
      <4> QED BY <4>1, <1>b, Zenon
    <3>2. s[k] \in Int /\ t[k] \in Int
      BY <1>2, Zenon
    <3>3. (f[i - 1] + s[i]) - s[k] + t[k] = (f[i - 1] - s[k] + t[k]) + s[i]
      BY <3>2, <2>0, ChangeFirst, SMTT(20)
    <3> QED BY <3>1, <3>3, <2>0, Zenon
  <2> QED BY <2>1, <2>2, <2>3
<1>5. PartialSums(g, t)
  BY <1>3, <1>4 DEF PartialSums
<1>6. Sum(t) = g[n] /\ Sum(s) = f[n]
  BY <1>1, <1>5, SumIs, Zenon
<1> QED BY <1>3, <1>6, Zenon

-----------------------------------------------------------------------------
(***************************************************************************)
(* Level totals.                                                           *)
(***************************************************************************)

\* What rests of each order of a list.
Resting(b, orders) == [k \in 1 .. Len(orders) |-> b.index[orders[k]].qty]

\* Every level's total is the wrapped sum of what rests there.
TotalsOK(b) ==
  \A at \in DOMAIN b.levels :
    b.levels[at].total = Sum(Resting(b, b.levels[at].orders)) % QuantityModulus

\* The quantities of a book's orders are numbers.
LEMMA RestingSeq ==
  ASSUME NEW b, BookOK(b), NEW s \in Seq(DOMAIN b.index)
  PROVE  /\ Resting(b, s) \in Seq(Int) /\ Len(Resting(b, s)) = Len(s)
         /\ \A k \in 1 .. Len(s) : Resting(b, s)[k] = b.index[s[k]].qty
         /\ Sum(Resting(b, s)) \in Int
<1> DEFINE q == Resting(b, s)
<1>1. Len(s) \in Nat /\ \A k \in 1 .. Len(s) : s[k] \in DOMAIN b.index
  OBVIOUS
<1>2. \A x \in DOMAIN b.index : b.index[x].qty \in Int
  BY DEF BookOK, BookTyped
<1>3. q \in [1 .. Len(s) -> Int] /\ \A k \in 1 .. Len(s) : q[k] = b.index[s[k]].qty
  BY <1>1, <1>2, Zenon DEF Resting
<1> HIDE DEF q
<1>4. q \in Seq(Int) /\ Len(q) = Len(s)
  BY <1>1, <1>3, SeqDef
<1> QED BY <1>3, <1>4, SumTyped, Zenon DEF q

\* Two books with the same quantities of the listed orders.
LEMMA SameResting ==
  ASSUME NEW b, NEW a, NEW s \in Seq(DOMAIN b.index),
         \A k \in 1 .. Len(s) : a.index[s[k]].qty = b.index[s[k]].qty
  PROVE  Resting(a, s) = Resting(b, s)
BY Zenon DEF Resting

\* An order that joins adds its quantity.
LEMMA InsertedTotals ==
  ASSUME NEW b, BookOK(b), NEW id, NEW order \in [side : BookSides, price : Int, qty : Nat],
         NEW here, NEW old, LevelFound(b, here, old), old.orders = <<>> => old.total = 0,
         NEW a, BookOK(a), InsertedInto(a, b, id, order, here, old), TotalsOK(b)
  PROVE  TotalsOK(a)
<1> SUFFICES ASSUME NEW at \in DOMAIN a.levels
             PROVE  a.levels[at].total = Sum(Resting(a, a.levels[at].orders)) % QuantityModulus
  BY Zenon DEF TotalsOK
<1>1. \A x \in DOMAIN b.index : a.index[x] = b.index[x] /\ x \in DOMAIN a.index
  BY Zenon DEF InsertedInto
<1>2. CASE at # here
  <2>1. at \in DOMAIN b.levels /\ a.levels[at] = b.levels[at]
    BY <1>2, Zenon DEF InsertedInto
  <2>2. b.levels[at].orders \in Seq(DOMAIN b.index)
    BY <2>1, SMTT(20) DEF BookOK, BookTyped
  <2>3. \A k \in 1 .. Len(b.levels[at].orders) :
          a.index[b.levels[at].orders[k]].qty = b.index[b.levels[at].orders[k]].qty
    BY <1>1, <2>2, SMTT(20)
  <2>4. Resting(a, b.levels[at].orders) = Resting(b, b.levels[at].orders)
    BY <2>2, <2>3, SameResting, Zenon
  <2> QED BY <2>1, <2>4, Zenon DEF TotalsOK
<1>3. CASE at = here
  <2>1. old.orders \in Seq(DOMAIN b.index) /\ old.total \in 0 .. QuantityModulus - 1
    BY Zenon DEF LevelFound
  <2>2. a.levels[here] = [total  |-> (old.total + order.qty) % QuantityModulus,
                          orders |-> Append(old.orders, id)]
    BY Zenon DEF InsertedInto
  <2>3. a.levels[at].total = (old.total + order.qty) % QuantityModulus
    BY <2>2, <1>3
  <2>4. a.levels[at].orders = Append(old.orders, id)
    BY <2>2, <1>3
  <2>5. id \in DOMAIN a.index /\ a.index[id].qty = order.qty /\ order.qty \in Int
    BY DEF InsertedInto
  <2>6. old.orders \in Seq(DOMAIN a.index)
    BY <2>1, <1>1
  <2>a. /\ Append(old.orders, id) \in Seq(DOMAIN a.index) /\ Len(old.orders) \in Nat
        /\ Len(Append(old.orders, id)) = Len(old.orders) + 1
        /\ Append(old.orders, id)[Len(old.orders) + 1] = id
        /\ \A i \in 1 .. Len(old.orders) : Append(old.orders, id)[i] = old.orders[i]
    <3>1. old.orders \in Seq(DOMAIN a.index) /\ id \in DOMAIN a.index
      BY <2>5, <2>6, Zenon
    <3>2. Append(old.orders, id) \in Seq(DOMAIN a.index) /\ Len(old.orders) \in Nat
      <4>1. Append(old.orders, id) \in Seq(DOMAIN a.index)
        BY <3>1, AppendProperties, Zenon
      <4>2. Len(old.orders) \in Nat
        BY <3>1
      <4> QED BY <4>1, <4>2, Zenon
    <3>3. Len(Append(old.orders, id)) = Len(old.orders) + 1
      BY <3>1
    <3>4. Append(old.orders, id)[Len(old.orders) + 1] = id
      BY <3>1
    <3>5. \A i \in 1 .. Len(old.orders) : Append(old.orders, id)[i] = old.orders[i]
      BY <3>1
    <3> QED BY <3>2, <3>3, <3>4, <3>5, Zenon
  <2> DEFINE s == Resting(b, old.orders)
             u == Append(old.orders, id)
             t == Resting(a, u)
             n == Len(old.orders)
  <2>7. u \in Seq(DOMAIN a.index) /\ n \in Nat /\ Len(u) = n + 1 /\ u[n + 1] = id
        /\ \A i \in 1 .. n : u[i] = old.orders[i] /\ u[i] \in DOMAIN b.index
    <3>1. \A i \in 1 .. n : old.orders[i] \in DOMAIN b.index
      BY <2>1
    <3> QED BY <3>1, <2>a, Zenon
  <2>8. /\ s \in Seq(Int) /\ Len(s) = n /\ Sum(s) \in Int
        /\ \A i \in 1 .. n : s[i] = b.index[old.orders[i]].qty
    BY <2>1, RestingSeq, Zenon
  <2> HIDE DEF u
  <2>9. /\ t \in Seq(Int) /\ Len(t) = n + 1
        /\ \A i \in 1 .. n + 1 : t[i] = a.index[u[i]].qty
    BY <2>7, RestingSeq
  <2> HIDE DEF s, t, n
  <2>10. t[n + 1] = order.qty /\ \A i \in 1 .. Len(s) : t[i] = s[i]
    <3>1. t[n + 1] = order.qty
      BY <2>5, <2>7, <2>9, SMTT(20)
    <3>2. ASSUME NEW i \in 1 .. n PROVE t[i] = s[i]
      <4>1. t[i] = a.index[u[i]].qty /\ s[i] = b.index[u[i]].qty
        <5>1. i \in 1 .. n + 1
          BY <2>7
        <5>2. t[i] = a.index[u[i]].qty
          BY <5>1, <2>9, Zenon
        <5>3. s[i] = b.index[old.orders[i]].qty /\ u[i] = old.orders[i]
          BY <2>7, <2>8, Zenon
        <5> QED BY <5>2, <5>3, Zenon
      <4> QED BY <4>1, <2>7, <1>1, Zenon
    <3> QED BY <3>1, <3>2, <2>8, Zenon
  <2>11. Sum(t) = Sum(s) + order.qty
    <3>1. Len(t) = Len(s) + 1
      BY <2>8, <2>9, Zenon
    <3>2. Sum(t) = Sum(s) + t[Len(t)]
      BY <3>1, <2>8, <2>9, <2>10, SumAppended, Zenon
    <3> QED BY <3>2, <2>9, <2>10, Zenon
  <2>12. old.total = Sum(s) % QuantityModulus
    <3>1. CASE here \in DOMAIN b.levels
      BY <3>1, Zenon DEF LevelFound, TotalsOK, s
    <3>2. CASE here \notin DOMAIN b.levels
      <4>1. old.orders = <<>> /\ old.total = 0
        BY <3>2, Zenon DEF LevelFound
      <4>2. s = <<>>
        BY <4>1, <2>8 DEF n
      <4> QED BY <4>1, <4>2, SumTyped, ModulusAssumption, SMTT(20)
    <3> QED BY <3>1, <3>2, Zenon
  <2>13. (old.total + order.qty) % QuantityModulus = Sum(t) % QuantityModulus
    BY <2>5, <2>8, <2>11, <2>12, WrapSummand, ZenonT(30)
  <2> QED BY <2>3, <2>4, <2>13, Zenon DEF t, u
<1> QED BY <1>2, <1>3, Zenon

\* An order that leaves takes its quantity with it.
LEMMA RemovedTotals ==
  ASSUME NEW b, BookOK(b), NEW id, HasOrder(b, id), NEW here, NEW old, NEW left,
         RestsAt(b, id, here, old, left), NEW a, RemovedFrom(a, b, id, here, left), BookOK(a),
         TotalsOK(b)
  PROVE  TotalsOK(a)
<1> SUFFICES ASSUME NEW at \in DOMAIN a.levels
             PROVE  a.levels[at].total = Sum(Resting(a, a.levels[at].orders)) % QuantityModulus
  BY Zenon DEF TotalsOK
<1>1. \A x \in DOMAIN a.index : a.index[x] = b.index[x] /\ x \in DOMAIN b.index
  BY DEF RemovedFrom
<1>2. a.levels[at].orders \in Seq(DOMAIN a.index)
  BY Zenon DEF BookOK, BookTyped
<1>3. /\ a.levels[at].orders \in Seq(DOMAIN b.index)
      /\ \A k \in 1 .. Len(a.levels[at].orders) :
           a.index[a.levels[at].orders[k]].qty = b.index[a.levels[at].orders[k]].qty
  BY <1>1, <1>2, SMTT(20)
<1>4. Resting(a, a.levels[at].orders) = Resting(b, a.levels[at].orders)
  BY <1>3, SameResting, Zenon
<1>5. CASE at # here
  <2>1. at \in DOMAIN b.levels /\ a.levels[at] = b.levels[at]
    BY <1>5, Zenon DEF RemovedFrom
  <2> QED BY <2>1, <1>4, Zenon DEF TotalsOK
<1>6. CASE at = here
  <2>1. here \in DOMAIN b.levels /\ old = b.levels[here].orders /\ left = EraseListed(old, id)
    BY Zenon DEF RemovedFrom, RestsAt
  <2>2. a.levels[at] = [total  |-> (b.levels[here].total - b.index[id].qty) % QuantityModulus,
                        orders |-> left]
    BY <1>6, Zenon DEF RemovedFrom
  <2>3. /\ a.levels[at].total = (b.levels[here].total - b.index[id].qty) % QuantityModulus
        /\ a.levels[at].orders = left
    BY <2>2
  <2>4. old \in Seq(DOMAIN b.index) /\ \E k \in 1 .. Len(old) : old[k] = id
    <3>1. b.levels[here] \in [total : 0 .. QuantityModulus - 1, orders : Seq(DOMAIN b.index)]
      BY <2>1, Zenon DEF BookOK, BookTyped
    <3>2. \E k \in 1 .. Len(b.levels[here].orders) : b.levels[here].orders[k] = id
      BY Zenon DEF BookOK, BookLinked, RestsAt, HasOrder
    <3> QED BY <2>1, <3>1, <3>2, Zenon
  <2>5. PICK k \in 1 .. Len(old) :
          /\ old[k] = id
          /\ Len(left) = Len(old) - 1
          /\ \A i \in 1 .. Len(old) - 1 : left[i] = IF i < k THEN old[i] ELSE old[i + 1]
    <3>1. \E k \in 1 .. Len(old) :
            /\ old[k] = id
            /\ Len(EraseListed(old, id)) = Len(old) - 1
            /\ \A i \in 1 .. Len(old) - 1 :
                 EraseListed(old, id)[i] = IF i < k THEN old[i] ELSE old[i + 1]
      BY <2>4, EraseListedEntries
    <3> QED BY <2>1, <3>1, Zenon
  <2> DEFINE s == Resting(b, old)
             u == Resting(b, left)
             n == Len(old)
  <2>6. /\ s \in Seq(Int) /\ Len(s) = n /\ Sum(s) \in Int
        /\ \A i \in 1 .. n : s[i] = b.index[old[i]].qty
    BY <2>4, RestingSeq, Zenon
  <2>7. left \in Seq(DOMAIN b.index)
    BY <1>3, <2>3, Zenon
  <2>8. /\ u \in Seq(Int) /\ Len(u) = Len(left)
        /\ \A i \in 1 .. Len(left) : u[i] = b.index[left[i]].qty
    BY <2>7, RestingSeq, Zenon
  <2> HIDE DEF s, u
  <2>9. \A i \in 1 .. Len(s) - 1 : u[i] = IF i < k THEN s[i] ELSE s[i + 1]
    <3> TAKE i \in 1 .. Len(s) - 1
    <3>1. i \in 1 .. Len(left) /\ i \in 1 .. n /\ i + 1 \in 1 .. n
      BY <2>4, <2>5, <2>6, SMTT(20)
    <3>2. u[i] = b.index[left[i]].qty /\ s[i] = b.index[old[i]].qty /\ s[i + 1] = b.index[old[i + 1]].qty
      BY <3>1, <2>6, <2>8, Zenon
    <3>3. left[i] = IF i < k THEN old[i] ELSE old[i + 1]
      BY <2>5, <2>6, Zenon
    <3> QED BY <3>2, <3>3, Zenon
  <2>10. Sum(u) = Sum(s) - s[k] /\ s[k] = b.index[id].qty
    BY <2>5, <2>6, <2>8, <2>9, SumErased, SMTT(20)
  <2>11. b.index[id].qty \in Int
    <3>1. b.index[id].qty \in Nat
      BY PlaceTyped, Zenon
    <3> QED BY <3>1
  <2>12. b.levels[here].total = Sum(s) % QuantityModulus
    BY <2>1, Zenon DEF TotalsOK, s
  <2>13. ((Sum(s) % QuantityModulus) + (-b.index[id].qty)) % QuantityModulus
           = (Sum(s) + (-b.index[id].qty)) % QuantityModulus
    <3>1. -b.index[id].qty \in Int
      BY <2>11, SMTT(20)
    <3> QED BY <3>1, <2>6, WrapSummand, Zenon
  <2>14. (b.levels[here].total - b.index[id].qty) % QuantityModulus = Sum(u) % QuantityModulus
    <3>1. Sum(s) % QuantityModulus \in Int
      BY <2>6, ModRange, SMTT(20)
    <3> QED BY <3>1, <2>6, <2>10, <2>11, <2>12, <2>13, SMTT(20)
  <2> QED BY <2>3, <2>14, <1>4, Zenon DEF u
<1> QED BY <1>5, <1>6, Zenon

\* A fill takes as much from the level as from the order.
LEMMA FilledTotals ==
  ASSUME NEW b, BookOK(b), NEW id, HasOrder(b, id), NEW here, NEW old, NEW left,
         RestsAt(b, id, here, old, left), NEW qty \in Nat, NEW a, FilledAt(a, b, id, qty, here),
         BookOK(a), TotalsOK(b)
  PROVE  TotalsOK(a)
<1> SUFFICES ASSUME NEW at \in DOMAIN a.levels
             PROVE  a.levels[at].total = Sum(Resting(a, a.levels[at].orders)) % QuantityModulus
  BY DEF TotalsOK
<1>1. /\ DOMAIN a.index = DOMAIN b.index /\ at \in DOMAIN b.levels
      /\ \A x \in DOMAIN b.index : x # id => a.index[x] = b.index[x]
  BY Zenon DEF FilledAt
<1>2. b.levels[at] \in [total : 0 .. QuantityModulus - 1, orders : Seq(DOMAIN b.index)]
  BY <1>1, Zenon DEF BookOK, BookTyped
<1>3. \A k \in 1 .. Len(b.levels[at].orders) : b.levels[at].orders[k] \in DOMAIN b.index
  BY <1>2
<1>4. CASE at # here
  <2>1. a.levels[at] = b.levels[at]
    BY <1>1, <1>4, Zenon DEF FilledAt
  <2>2. \A k \in 1 .. Len(b.levels[at].orders) : b.levels[at].orders[k] # id
    <3>1. \A k \in 1 .. Len(b.levels[at].orders) :
            at = <<b.index[b.levels[at].orders[k]].side, b.index[b.levels[at].orders[k]].price>>
      BY <1>1, Zenon DEF BookOK, BookLinked
    <3> QED BY <3>1, <1>4, ZenonT(30) DEF RestsAt
  <2>3. \A k \in 1 .. Len(b.levels[at].orders) :
          a.index[b.levels[at].orders[k]].qty = b.index[b.levels[at].orders[k]].qty
    BY <2>2, <1>1, <1>3, ZenonT(30)
  <2>4. Resting(a, b.levels[at].orders) = Resting(b, b.levels[at].orders)
    BY <1>2, <2>3, SameResting, SMTT(20)
  <2> QED BY <2>1, <2>4, <1>1, Zenon DEF TotalsOK
<1>5. CASE at = here
  <2>1. a.levels[at] = [b.levels[at] EXCEPT !.total = (b.levels[at].total - qty) % QuantityModulus]
    BY <1>5, Zenon DEF FilledAt
  <2>2. old = b.levels[at].orders
    BY <1>5 DEF RestsAt
  <2>3. /\ a.levels[at].total = (b.levels[at].total - qty) % QuantityModulus
        /\ a.levels[at].orders = old
    BY <2>1, <2>2, <1>2, Zenon
  <2>4. old \in Seq(DOMAIN b.index)
    BY <2>2, <1>2, Zenon
  <2>5. PICK k \in 1 .. Len(old) : old[k] = id
    <3>1. \E k \in 1 .. Len(b.levels[here].orders) : b.levels[here].orders[k] = id
      BY ZenonT(30) DEF BookOK, BookLinked, RestsAt, HasOrder
    <3> QED BY <3>1, <2>2, <1>5, Zenon
  <2>6. \A i \in 1 .. Len(old) : i # k => old[i] # id
    BY <2>2, <2>5, <1>1, ZenonT(30) DEF BookOK, BookLinked
  <2>7. /\ b.index[id] \in [side : BookSides, price : Int, qty : Nat]
        /\ a.index[id] = [b.index[id] EXCEPT !.qty = b.index[id].qty - qty]
    BY DEF BookOK, BookTyped, HasOrder, FilledAt
  <2>8. a.index[id].qty = b.index[id].qty - qty /\ b.index[id].qty \in Int
    BY <2>7
  <2> DEFINE s == Resting(b, old)
             t == Resting(a, old)
             n == Len(old)
  <2>9. /\ s \in Seq(Int) /\ Len(s) = n /\ Sum(s) \in Int
        /\ \A i \in 1 .. n : s[i] = b.index[old[i]].qty
    BY <2>4, RestingSeq, Zenon
  <2>10. /\ t \in Seq(Int) /\ Len(t) = n
         /\ \A i \in 1 .. n : t[i] = a.index[old[i]].qty
    <3>1. old \in Seq(DOMAIN a.index)
      BY <2>4, <1>1, Zenon
    <3> QED BY <3>1, RestingSeq, Zenon
  <2> HIDE DEF s, t
  <2>11. \A i \in 1 .. Len(s) : i # k => t[i] = s[i]
    <3> SUFFICES ASSUME NEW i \in 1 .. n, i # k PROVE t[i] = s[i]
      BY <2>9, Zenon
    <3>1. old[i] \in DOMAIN b.index /\ old[i] # id
      BY <2>4, <2>6, SMTT(20)
    <3> QED BY <3>1, <2>9, <2>10, <1>1, Zenon
  <2>12. s[k] = b.index[id].qty /\ t[k] = b.index[id].qty - qty
    BY <2>5, <2>8, <2>9, <2>10, Zenon
  <2>13. Sum(t) = Sum(s) - s[k] + t[k]
    BY <2>9, <2>10, <2>11, SumChanged, SMTT(20)
  <2>14. Sum(t) = Sum(s) + (-qty) /\ -qty \in Int
    BY <2>8, <2>9, <2>12, <2>13, SMTT(20)
  <2>15. b.levels[at].total = Sum(s) % QuantityModulus
    BY <2>2, <1>1, Zenon DEF TotalsOK, s
  <2>16. ((Sum(s) % QuantityModulus) + (-qty)) % QuantityModulus = Sum(t) % QuantityModulus
    BY <2>9, <2>14, WrapSummand, Zenon
  <2>17. (b.levels[at].total - qty) % QuantityModulus = Sum(t) % QuantityModulus
    <3>1. Sum(s) % QuantityModulus \in Int
      BY <2>9, ModRange
    <3>2. b.levels[at].total - qty = (Sum(s) % QuantityModulus) + (-qty)
      BY <3>1, <2>15, Zenon
    <3> QED BY <3>2, <2>16, Zenon
  <2> QED BY <2>3, <2>17, Zenon DEF t
<1> QED BY <1>4, <1>5, Zenon

-----------------------------------------------------------------------------
\* insert_resting_order() and the totals.
LEMMA InsertTotals ==
  ASSUME NEW b, BookOK(b), NEW id, ~HasOrder(b, id),
         NEW side \in BookSides, NEW price \in Int, NEW qty \in Nat, TotalsOK(b)
  PROVE  TotalsOK(InsertRestingOrder(b, id, side, price, qty))
<1>1. LET old == LevelFor(b, <<side, price>>) IN old.orders = <<>> => old.total = 0
  <2>1. CASE <<side, price>> \in DOMAIN b.levels
    BY <2>1, Zenon DEF LevelFor, BookOK, BookLinked
  <2>2. CASE <<side, price>> \notin DOMAIN b.levels
    BY <2>2, Zenon DEF LevelFor
  <2> QED BY <2>1, <2>2, Zenon
<1>2. [side |-> side, price |-> price, qty |-> qty] \in [side : BookSides, price : Int, qty : Nat]
  OBVIOUS
<1> DEFINE a == InsertRestingOrder(b, id, side, price, qty)
           here == <<side, price>>
           old == LevelFor(b, here)
           order == [side |-> side, price |-> price, qty |-> qty]
<1>3. LevelFound(b, here, old) /\ BookOK(a) /\ InsertedInto(a, b, id, order, here, old)
  BY LevelForFound, InsertKeepsBook, InsertedBook, Zenon
<1> HIDE DEF a, here, old, order
<1>4. (old.orders = <<>> => old.total = 0) /\ order \in [side : BookSides, price : Int, qty : Nat]
  BY <1>1, <1>2, Zenon DEF here, old, order
<1>5. TotalsOK(a)
  BY <1>3, <1>4, InsertedTotals, Zenon
<1> QED BY <1>5, Zenon DEF a

\* remove_resting_order() and the totals.
LEMMA RemoveTotals ==
  ASSUME NEW b, BookOK(b), NEW id, HasOrder(b, id), TotalsOK(b)
  PROVE  TotalsOK(RemoveRestingOrder(b, id))
<1>1. \E here, old, left : RestsAt(b, id, here, old, left)
  BY Zenon DEF RestsAt
<1> QED BY <1>1, RemovedBook, RemoveKeepsBook, RemovedTotals

\* A fill and the totals.
LEMMA FillTotals ==
  ASSUME NEW b, BookOK(b), NEW id, HasOrder(b, id), NEW qty \in 0 .. b.index[id].qty, TotalsOK(b)
  PROVE  TotalsOK(Fill(b, id, qty))
<1>1. PICK here, old, left : RestsAt(b, id, here, old, left)
  BY Zenon DEF RestsAt
<1>2. FilledAt(Fill(b, id, qty), b, id, qty, here)
  <2>1. here = <<b.index[id].side, b.index[id].price>>
    BY <1>1, Zenon DEF RestsAt
  <2> QED BY <2>1, FilledBook, SMTT(20)
<1>3. qty \in Nat
  BY PlaceTyped
<1> QED BY <1>1, <1>2, <1>3, FillKeepsBook, FilledTotals, Zenon

\* apply() keeps every level's total, whatever the message.
LEMMA ApplyTotals ==
  ASSUME NEW b, BookOK(b), NEW m, BookMessage(m), TotalsOK(b)
  PROVE  TotalsOK(Apply(b, m).book)
<1>1. ASSUME NEW e PROVE Rejected(b, e).book = b
  BY Zenon DEF Rejected
<1>2. ASSUME NEW a, NEW d PROVE Applied(a, d).book = a
  BY DEF Applied
<1>3. CASE m.type = "Add" /\ m.side \in BookSides /\ m.price \in Int /\ m.qty \in Nat
  <2>1. CASE HasOrder(b, m.id)
    BY <1>1, <1>3, <2>1, Zenon DEF Apply, ApplyAdd
  <2>2. CASE ~HasOrder(b, m.id)
    <3>1. Apply(b, m).book = InsertRestingOrder(b, m.id, m.side, m.price, m.qty)
      BY <1>2, <1>3, <2>2, Zenon DEF Apply, ApplyAdd
    <3> QED BY <3>1, <1>3, <2>2, InsertTotals, Zenon
  <2> QED BY <2>1, <2>2, Zenon
<1>4. CASE m.type = "Cancel"
  <2>1. CASE ~HasOrder(b, m.id)
    BY <1>1, <1>4, <2>1, Zenon DEF Apply, ApplyCancel
  <2>2. CASE HasOrder(b, m.id)
    <3>1. Apply(b, m).book = RemoveRestingOrder(b, m.id)
      BY <1>2, <1>4, <2>2, Zenon DEF Apply, ApplyCancel
    <3> QED BY <3>1, <2>2, RemoveTotals, Zenon
  <2> QED BY <2>1, <2>2, Zenon
<1>5. CASE m.type = "Execute" /\ m.qty \in Nat
  <2>1. CASE ~HasOrder(b, m.id)
    BY <1>1, <1>5, <2>1, Zenon DEF Apply, ApplyExecute
  <2>2. CASE HasOrder(b, m.id) /\ m.qty > b.index[m.id].qty
    BY <1>1, <1>5, <2>2, SMTT(20) DEF Apply, ApplyExecute
  <2>3. CASE HasOrder(b, m.id) /\ ~(m.qty > b.index[m.id].qty)
    <3> SUFFICES ASSUME NEW f, f = Fill(b, m.id, m.qty), NEW a,
                        a = IF f.index[m.id].qty = 0 THEN RemoveRestingOrder(f, m.id) ELSE f
                 PROVE  TotalsOK(a)
      BY <1>2, <1>5, <2>3, SMTT(20) DEF Apply, ApplyExecute
    <3>1. m.qty \in 0 .. b.index[m.id].qty
      <4>1. b.index[m.id].qty \in Nat
        BY <2>3, PlaceTyped, Zenon
      <4> QED BY <1>5, <2>3, <4>1
    <3>2. BookOK(f) /\ TotalsOK(f) /\ HasOrder(f, m.id)
      BY <2>3, <3>1, FillKeepsBook, FillTotals, FillKeepsPlace, SMTT(20)
    <3> QED BY <3>2, RemoveTotals, Zenon
  <2> QED BY <2>1, <2>2, <2>3, Zenon
<1>6. CASE m.type = "Replace" /\ m.price \in Int /\ m.qty \in Nat
  <2>1. CASE ~HasOrder(b, m.id)
    BY <1>1, <1>6, <2>1, Zenon DEF Apply, ApplyReplace
  <2>2. CASE HasOrder(b, m.id) /\ HasOrder(b, m.new)
    BY <1>1, <1>6, <2>2, SMTT(20) DEF Apply, ApplyReplace
  <2>3. CASE HasOrder(b, m.id) /\ ~HasOrder(b, m.new)
    <3> SUFFICES ASSUME NEW side, side = b.index[m.id].side,
                        NEW v, v = RemoveRestingOrder(b, m.id),
                        NEW a, a = InsertRestingOrder(v, m.new, side, m.price, m.qty)
                 PROVE  TotalsOK(a)
      BY <1>2, <1>6, <2>3, SMTT(20) DEF Apply, ApplyReplace
    <3>1. BookOK(v) /\ TotalsOK(v) /\ side \in BookSides
      BY <2>3, RemoveKeepsBook, RemoveTotals, PlaceTyped, Zenon
    <3>2. ~HasOrder(v, m.new)
      BY <2>3, RemovedIndex DEF HasOrder
    <3> QED BY <1>6, <3>1, <3>2, InsertTotals, Zenon
  <2> QED BY <2>1, <2>2, <2>3, Zenon
<1> QED BY <1>3, <1>4, <1>5, <1>6, Zenon DEF BookMessage

\* Every level's total_quantity, kept by increments, is the sum of what rests
\* there, modulo the width of a quantity.
THEOREM TotalsKept == BookSpec => []TotalsMatchOrders
<1> DEFINE I == BookInv /\ TotalsOK(book)
<1>1. BookInit => I
  <2> SUFFICES ASSUME BookInit PROVE TotalsOK(book)
    BY BookInvInductive, Zenon
  <2>1. DOMAIN book.levels = {}
    BY DEF BookInit, EmptyBook
  <2> QED BY <2>1 DEF TotalsOK
<1>2. I /\ [BookNext]_bookVars => I'
  <2> SUFFICES ASSUME BookInv, TotalsOK(book), [BookNext]_bookVars
               PROVE  TotalsOK(book')
    BY BookInvInductive, Zenon
  <2>1. CASE UNCHANGED bookVars
    BY <2>1, Zenon DEF bookVars
  <2>2. CASE BookNext
    <3>1. PICK m : BookMessage(m) /\ Handle(m)
      BY <2>2, StepHandles, Zenon
    <3>2. book' = Apply(book, m).book
      BY <3>1, Zenon DEF Handle
    <3> QED BY <3>1, <3>2, ApplyTotals, Zenon DEF BookInv
  <2> QED BY <2>1, <2>2, Zenon
<1>3. I => TotalsMatchOrders
  BY Zenon DEF TotalsOK, TotalsMatchOrders, Orders, Resting
<1> QED BY <1>1, <1>2, <1>3, PTL DEF BookSpec

-----------------------------------------------------------------------------
(***************************************************************************)
(* The queries: a map's prices, counted from begin().                      *)
(***************************************************************************)

\* The price levels are finitely many.
LevelsFinite(b) == IsFiniteSet(DOMAIN b.levels)

\* Every apply() adds one at most.
LEMMA ApplyFinite ==
  ASSUME NEW b, NEW m, BookMessage(m), LevelsFinite(b)
  PROVE  LevelsFinite(Apply(b, m).book)
<1>1. ASSUME NEW a, LevelsFinite(a), NEW id, NEW side, NEW price, NEW qty
      PROVE  LevelsFinite(InsertRestingOrder(a, id, side, price, qty))
  <2>1. DOMAIN InsertRestingOrder(a, id, side, price, qty).levels = DOMAIN a.levels \cup {<<side, price>>}
    BY DEF InsertRestingOrder, Put
  <2> QED BY <1>1, <2>1, FS_AddElement, Zenon DEF LevelsFinite
<1>2. ASSUME NEW a, LevelsFinite(a), NEW id PROVE LevelsFinite(RemoveRestingOrder(a, id))
  <2>1. DOMAIN RemoveRestingOrder(a, id).levels \subseteq DOMAIN a.levels
    BY Zenon DEF RemoveRestingOrder, Erase, Restrict
  <2> QED BY <1>2, <2>1, FS_Subset, SMTT(20) DEF LevelsFinite
<1>3. ASSUME NEW a, LevelsFinite(a), NEW id, NEW qty PROVE LevelsFinite(Fill(a, id, qty))
  <2>1. DOMAIN Fill(a, id, qty).levels = DOMAIN a.levels
    BY DEF Fill
  <2> QED BY <1>3, <2>1, Zenon DEF LevelsFinite
<1>4. (\A e : Rejected(b, e).book = b) /\ \A a, d : Applied(a, d).book = a
  BY DEF Rejected, Applied
<1>5. CASE m.type = "Add"
  BY <1>1, <1>4, <1>5 DEF Apply, ApplyAdd
<1>6. CASE m.type = "Cancel"
  BY <1>2, <1>4, <1>6, SMTT(20) DEF Apply, ApplyCancel
<1>7. CASE m.type = "Execute"
  BY <1>2, <1>3, <1>4, <1>7, SMTT(20) DEF Apply, ApplyExecute
<1>8. CASE m.type = "Replace"
  BY <1>1, <1>2, <1>4, <1>8, SMTT(20) DEF Apply, ApplyReplace
<1> QED BY <1>5, <1>6, <1>7, <1>8, Zenon DEF BookMessage

\* Of two prices of a side one is better.
LEMMA BetterIsTotal ==
  ASSUME NEW side \in Sides, NEW p \in Int, NEW q \in Int
  PROVE  /\ ~BetterPrice(side, p, p)
         /\ p # q => BetterPrice(side, p, q) \/ BetterPrice(side, q, p)
         /\ \A r \in Int : BetterPrice(side, p, q) /\ BetterPrice(side, q, r) => BetterPrice(side, p, r)
BY DEF BetterPrice, Sides

\* How many prices of the side are better.
Rank(b, side, p) == Cardinality(BetterPrices(b, side, p))

\* The better of two prices has the lower rank.
LEMMA RankOrders ==
  ASSUME NEW b, NEW side \in Sides, Prices(b, side) \subseteq Int, IsFiniteSet(Prices(b, side)),
         NEW p \in Prices(b, side)
  PROVE  /\ Rank(b, side, p) \in 0 .. Cardinality(Prices(b, side)) - 1
         /\ \A q \in Prices(b, side) :
              BetterPrice(side, q, p) => Rank(b, side, q) < Rank(b, side, p)
<1> DEFINE S == Prices(b, side)
<1>1. ASSUME NEW x \in S PROVE /\ BetterPrices(b, side, x) \subseteq S /\ x \notin BetterPrices(b, side, x)
                               /\ x \in Int
  BY BetterIsTotal, Zenon DEF BetterPrices
<1>2. ASSUME NEW T, NEW U, IsFiniteSet(U), T \subseteq U, T # U
      PROVE  Cardinality(T) \in Nat /\ Cardinality(U) \in Nat /\ Cardinality(T) < Cardinality(U)
  <2>1. IsFiniteSet(T) /\ Cardinality(T) <= Cardinality(U) /\ Cardinality(T) # Cardinality(U)
    BY <1>2, FS_Subset, Zenon
  <2>2. Cardinality(T) \in Nat /\ Cardinality(U) \in Nat
    BY <1>2, <2>1, FS_CardinalityType, Zenon
  <2> QED BY <2>1, <2>2
<1>3. Rank(b, side, p) \in Nat /\ Cardinality(S) \in Nat /\ Rank(b, side, p) < Cardinality(S)
  <2>1. BetterPrices(b, side, p) \subseteq S /\ BetterPrices(b, side, p) # S
    BY <1>1, Zenon
  <2> HIDE DEF S
  <2> QED BY <1>2, <2>1, Zenon DEF Rank, S
<1>4. ASSUME NEW q \in S, BetterPrice(side, q, p) PROVE Rank(b, side, q) < Rank(b, side, p)
  <2>1. q \in BetterPrices(b, side, p) /\ q \notin BetterPrices(b, side, q)
    BY <1>1, <1>4, Zenon DEF BetterPrices
  <2>2. BetterPrices(b, side, q) \subseteq BetterPrices(b, side, p)
    <3>1. ASSUME NEW r \in S, BetterPrice(side, r, q) PROVE BetterPrice(side, r, p)
      BY <1>1, <1>4, <3>1, BetterIsTotal, Zenon
    <3> QED BY <3>1, Zenon DEF BetterPrices
  <2>3. IsFiniteSet(BetterPrices(b, side, p))
    BY <1>1, FS_Subset, Zenon
  <2> QED BY <1>2, <2>1, <2>2, <2>3, Zenon DEF Rank
<1> QED BY <1>3, <1>4

\* Every rank below the number of prices is taken, by one price.
LEMMA PriceAtRank ==
  ASSUME NEW b, NEW side \in Sides, Prices(b, side) \subseteq Int, IsFiniteSet(Prices(b, side)),
         NEW k \in 1 .. Cardinality(Prices(b, side))
  PROVE  /\ PriceAt(b, side, k) \in Prices(b, side) /\ Rank(b, side, PriceAt(b, side, k)) = k - 1
         /\ \A p \in Prices(b, side) : Rank(b, side, p) = k - 1 => p = PriceAt(b, side, k)
<1> DEFINE S == Prices(b, side)
           n == Cardinality(S)
           f == [p \in S |-> Rank(b, side, p)]
<1>1. n \in Nat /\ k - 1 \in 0 .. n - 1 /\ 0 \in Int /\ n - 1 \in Int
  BY FS_CardinalityType
<1>2. ASSUME NEW p \in S, NEW q \in S, Rank(b, side, p) = Rank(b, side, q) PROVE p = q
  <2>1. p \in Int /\ q \in Int /\ Rank(b, side, p) \in Int
    BY RankOrders
  <2>2. ~BetterPrice(side, p, q) /\ ~BetterPrice(side, q, p)
    BY <1>2, <2>1, RankOrders
  <2> QED BY <2>1, <2>2, BetterIsTotal, Zenon
<1>3. f \in Injection(S, 0 .. n - 1)
  <2>1. f \in [S -> 0 .. n - 1]
    BY RankOrders, Zenon
  <2> QED BY <1>2, <2>1, Zenon DEF Injection, IsInjective
<1>4. IsFiniteSet(0 .. n - 1) /\ Cardinality(0 .. n - 1) = n
  <2> HIDE DEF n
  <2>1. IsFiniteSet(0 .. n - 1) /\ Cardinality(0 .. n - 1) = IF 0 > n - 1 THEN 0 ELSE (n - 1) - 0 + 1
    BY <1>1, FS_Interval, Zenon
  <2> QED BY <1>1, <2>1
<1>5. f \in Surjection(S, 0 .. n - 1)
  <2> HIDE DEF f
  <2> QED BY <1>3, <1>4, FS_Injection, Zenon
<1>6. \E p \in S : Rank(b, side, p) = k - 1
  BY <1>1, <1>5, Zenon DEF Surjection
<1>7. PriceAt(b, side, k) \in S /\ Rank(b, side, PriceAt(b, side, k)) = k - 1
  BY <1>6, Zenon DEF PriceAt, Rank
<1> QED BY <1>2, <1>7, Zenon

\* A book with finitely many levels has finitely many prices, all integers.
LEMMA PricesFinite ==
  ASSUME NEW b, BookOK(b), LevelsFinite(b), NEW side \in Sides
  PROVE  Prices(b, side) \subseteq Int /\ IsFiniteSet(Prices(b, side))
<1> DEFINE D == {x \in DOMAIN b.levels : x[1] = side}
           f == [x \in D |-> x[2]]
<1>1. D \subseteq BookSides \X Int
  BY DEF BookOK, BookTyped
<1>2. IsFiniteSet(D)
  BY FS_Subset, Zenon DEF LevelsFinite
<1>3. f \in Surjection(D, Prices(b, side))
  BY DEF Surjection, Prices
<1>4. IsFiniteSet(Prices(b, side))
  <2> HIDE DEF D, f
  <2> QED BY <1>2, <1>3, FS_Surjection, Zenon
<1> QED BY <1>1, <1>4, Zenon DEF Prices

\* What depth_snapshot(levels) shows of such a book.
LEMMA DepthBestFirst ==
  ASSUME BookOK(book), LevelsFinite(book), NEW side \in Sides, NEW levels \in Nat
  PROVE  BestFirst(side, levels)
<1> DEFINE S == Prices(book, side)
           n == Cardinality(S)
           count == IF levels < n THEN levels ELSE n
           At(k) == PriceAt(book, side, k)
           R(p) == Rank(book, side, p)
           view == DepthOf(book, side, levels)
           Worse(p, q) == IF side = "Buy" THEN p < q ELSE p > q
<1>1. S \subseteq Int /\ IsFiniteSet(S)
  BY PricesFinite, Zenon
<1>2. n \in Nat /\ count \in Nat /\ count <= n
  BY <1>1, FS_CardinalityType
<1>3. ASSUME NEW p \in Int, NEW q \in Int PROVE Worse(p, q) <=> BetterPrice(side, q, p)
  BY <1>3, Zenon DEF BetterPrice, Sides
<1>4. /\ view = [k \in 1 .. count |-> PriceLevelView(book, side, At(k))]
      /\ \A k \in 1 .. count : view[k] = PriceLevelView(book, side, At(k)) /\ view[k].price = At(k)
  BY Zenon DEF DepthOf, PriceLevelView
<1>5. Len(view) = count /\ (view = <<>> <=> count = 0)
  <2> HIDE DEF view, count
  <2> QED BY <1>2, <1>4
<1>6. ASSUME NEW k \in 1 .. count
      PROVE  /\ At(k) \in S /\ At(k) \in Int /\ R(At(k)) = k - 1
             /\ \A p \in S : R(p) = k - 1 => p = At(k)
  <2>1. k \in 1 .. n
    BY <1>2
  <2> HIDE DEF n
  <2> QED BY <1>1, <2>1, PriceAtRank, Zenon DEF n
<1>7. ASSUME NEW p \in S
      PROVE  /\ p \in Int /\ R(p) \in 0 .. n - 1
             /\ \A q \in S : BetterPrice(side, q, p) => R(q) < R(p)
  BY <1>1, RankOrders, Zenon
<1> HIDE DEF S, n, count, At, R, view
<1>8. ASSUME NEW j \in 1 .. count, NEW k \in 1 .. count, j < k
      PROVE  BetterPrice(side, At(j), At(k))
  <2>1. At(j) \in S /\ At(k) \in S /\ R(At(j)) = j - 1 /\ R(At(k)) = k - 1 /\ At(j) \in Int /\ At(k) \in Int
    BY <1>6, Zenon
  <2>2. ~BetterPrice(side, At(k), At(j)) /\ At(j) # At(k)
    BY <1>2, <1>7, <1>8, <2>1, SMTT(20)
  <2> QED BY <2>1, <2>2, BetterIsTotal, Zenon
<1>9. ASSUME NEW k \in 1 .. count, NEW p \in S, BetterPrice(side, p, At(k))
      PROVE  \E j \in 1 .. k - 1 : At(j) = p
  <2>1. R(p) \in Nat /\ R(p) < k - 1
    BY <1>6, <1>7, <1>9, SMTT(20)
  <2>2. R(p) + 1 \in 1 .. k - 1 /\ R(p) + 1 \in 1 .. count /\ (R(p) + 1) - 1 = R(p)
    BY <1>2, <2>1
  <2> QED BY <1>6, <2>2, Zenon
<1>10. \A x \in S : (\A q \in S \ {x} : BetterPrice(side, x, q)) <=> R(x) = 0
  <2> TAKE x \in S
  <2>1. ASSUME \A q \in S \ {x} : BetterPrice(side, x, q) PROVE R(x) = 0
    <3>1. \A q \in S : ~BetterPrice(side, q, x)
      <4> TAKE q \in S
      <4>1. CASE q = x
        BY <4>1, <1>7, BetterIsTotal, Zenon
      <4>2. CASE q # x
        BY <4>2, <2>1, <1>7, BetterIsTotal, SMTT(20)
      <4> QED BY <4>1, <4>2, Zenon
    <3>2. BetterPrices(book, side, x) = {}
      BY <3>1, Zenon DEF BetterPrices, S
    <3> QED BY <3>2, FS_EmptySet, Zenon DEF R, Rank
  <2>2. ASSUME R(x) = 0 PROVE \A q \in S \ {x} : BetterPrice(side, x, q)
    <3> TAKE q \in S \ {x}
    <3>1. ~BetterPrice(side, q, x)
      BY <1>7, <2>2
    <3> QED BY <1>7, <3>1, BetterIsTotal, SMTT(20)
  <2> QED BY <2>1, <2>2, Zenon
<1>11. BestOf(book, side) = {PriceLevelView(book, side, p) : p \in {x \in S : R(x) = 0}}
  BY <1>10, Zenon DEF BestOf, S
<1>12. \A j, k \in 1 .. Len(view) : j < k => Worse(view[k].price, view[j].price)
  <2> TAKE j, k \in 1 .. Len(view)
  <2> HAVE j < k
  <2>1. j \in 1 .. count /\ k \in 1 .. count
    BY <1>5, Zenon
  <2>2. view[j].price = At(j) /\ view[k].price = At(k) /\ At(j) \in Int /\ At(k) \in Int
    BY <1>4, <1>6, <2>1, Zenon
  <2>3. BetterPrice(side, At(j), At(k))
    BY <1>8, <2>1, Zenon
  <2> QED BY <1>3, <2>2, <2>3, Zenon
<1>13. \A k \in 1 .. Len(view), p \in S :
         Worse(view[k].price, p) => \E j \in 1 .. k - 1 : view[j].price = p
  <2> TAKE k \in 1 .. Len(view), p \in S
  <2> HAVE Worse(view[k].price, p)
  <2>1. k \in 1 .. count /\ view[k].price = At(k) /\ At(k) \in Int /\ p \in Int
    BY <1>4, <1>5, <1>6, <1>7, Zenon
  <2>2. PICK j \in 1 .. k - 1 : At(j) = p
    BY <1>3, <1>9, <2>1, Zenon
  <2>3. j \in 1 .. count
    BY <1>2, <2>1
  <2> QED BY <1>4, <2>2, <2>3, Zenon
<1>14. view # <<>> => BestOf(book, side) = {view[1]}
  <2> HAVE view # <<>>
  <2>1. 1 \in 1 .. count
    BY <1>2, <1>5
  <2>2. At(1) \in S /\ R(At(1)) = 0 /\ \A p \in S : R(p) = 0 => p = At(1)
    BY <1>6, <2>1
  <2>3. {x \in S : R(x) = 0} = {At(1)}
    BY <2>2, Zenon
  <2> QED BY <1>4, <1>11, <2>1, <2>3, SMTT(20)
<1>15. view = <<>> /\ levels > 0 => BestOf(book, side) = {}
  <2> HAVE view = <<>> /\ levels > 0
  <2>1. n = 0
    BY <1>2, <1>5 DEF count
  <2>2. S = {}
    BY <1>1, <2>1, FS_EmptySet, Zenon DEF n
  <2> QED BY <1>11, <2>2, Zenon
<1> QED BY <1>12, <1>13, <1>14, <1>15, Zenon DEF BestFirst, S, view

\* Whatever the book went through, depth_snapshot() shows the best levels of a
\* side in order, for any number of levels asked for, and best_bid_ask() the
\* first of them.
THEOREM SnapshotsBestFirst ==
  BookSpec => [](SnapshotBestFirst /\ \A side \in Sides, levels \in Nat : BestFirst(side, levels))
<1> DEFINE I == BookInv /\ LevelsFinite(book)
           Shown == \A side \in Sides, levels \in Nat : BestFirst(side, levels)
<1>1. BookInit => I
  <2> SUFFICES ASSUME BookInit PROVE LevelsFinite(book)
    BY BookInvInductive
  <2>1. DOMAIN book.levels = {}
    BY DEF BookInit, EmptyBook
  <2> QED BY <2>1, FS_EmptySet, Zenon DEF LevelsFinite
<1>2. I /\ [BookNext]_bookVars => I'
  <2> SUFFICES ASSUME BookInv, LevelsFinite(book), [BookNext]_bookVars
               PROVE  LevelsFinite(book)'
    BY BookInvInductive, Zenon
  <2>1. CASE UNCHANGED bookVars
    BY <2>1, Zenon DEF bookVars, LevelsFinite
  <2>2. CASE BookNext
    <3>1. PICK m : BookMessage(m) /\ Handle(m)
      BY <2>2, StepHandles
    <3>2. book' = Apply(book, m).book
      BY <3>1 DEF Handle
    <3>3. LevelsFinite(Apply(book, m).book)
      BY <3>1, ApplyFinite, Zenon
    <3> QED BY <3>2, <3>3, SMTT(20) DEF LevelsFinite
  <2> QED BY <2>1, <2>2, Zenon
<1>3. I => SnapshotBestFirst /\ Shown
  <2>1. I => Shown
    BY DepthBestFirst, Zenon DEF BookInv
  <2>2. Shown => SnapshotBestFirst
    BY DEF SnapshotBestFirst
  <2> QED BY <2>1, <2>2, Zenon
<1> QED BY <1>1, <1>2, <1>3, PTL DEF BookSpec

=============================================================================
