------------------------- MODULE PipelineFlowProofs -------------------------
(***************************************************************************)
(* Two properties of ShardedPipeline, for any symbols, shards, routing     *)
(* hash, queue capacities and number of messages, lost or not: a resting   *)
(* order can be reached, and subscribers can rebuild the books from the    *)
(* published deltas.                                                       *)
(***************************************************************************)
EXTENDS ShardedPipelineProofs, BookRulesProofs

-----------------------------------------------------------------------------
(***************************************************************************)
(* Orders on their way to a book.                                          *)
(***************************************************************************)
Mentions(m, id) == m.type # "Add" /\ m.id = id

\* A message that ends the order is lost, or on the way behind the k-th.
EndsAfter(id, lost, way, k) ==
  \/ \E m \in lost : Ends(m, id)
  \/ \E j \in k + 1 .. Len(way) : Ends(way[j].msg, id)

\* An order on the way to its book is made once, before it is mentioned; it is
\* not in the book yet, and is routed unless it is ended later.
MakersOK(way, lost, routed, absent) ==
  \A k \in 1 .. Len(way) : \A id :
    Makes(way[k].msg, id) =>
      /\ id \in absent
      /\ id \in routed \/ EndsAfter(id, lost, way, k)
      /\ \A j \in 1 .. Len(way) : /\ Mentions(way[j].msg, id) => j > k
                                  /\ Makes(way[j].msg, id) => j = k

\* Entries of a way after its first message is gone.
LEMMA TailEntries ==
  ASSUME NEW way \in Seq(Items), way # <<>>
  PROVE  /\ Len(way) \in Nat \ {0} /\ Tail(way) \in Seq(Items) /\ Len(Tail(way)) = Len(way) - 1
         /\ Head(way) = way[1] /\ 1 \in 1 .. Len(way)
         /\ \A k \in 1 .. Len(Tail(way)) : k + 1 \in 1 .. Len(way) /\ Tail(way)[k] = way[k + 1]
         /\ \A k \in 1 .. Len(way) :
              k # 1 => k - 1 \in 1 .. Len(Tail(way)) /\ Tail(way)[k - 1] = way[k]
<1>1. /\ Len(way) \in Nat \ {0} /\ Tail(way) \in Seq(Items) /\ Len(Tail(way)) = Len(way) - 1
      /\ Head(way) = way[1]
      /\ \A k \in 1 .. Len(Tail(way)) : Tail(way)[k] = way[k + 1]
  BY HeadTailProperties
<1>2. \A k \in 1 .. Len(way) : k # 1 => k - 1 \in 1 .. Len(Tail(way)) /\ (k - 1) + 1 = k
  BY <1>1
<1> QED BY <1>1, <1>2

\* A later end stays one when the first message goes.
LEMMA EndsAfterTail ==
  ASSUME NEW way \in Seq(Items), way # <<>>, NEW lost, NEW more, lost \subseteq more,
         NEW id, NEW k \in Nat, EndsAfter(id, lost, way, k + 1)
  PROVE  EndsAfter(id, more, Tail(way), k)
<1>1. CASE \E m \in lost : Ends(m, id)
  BY <1>1 DEF EndsAfter
<1>2. ASSUME NEW j \in (k + 1) + 1 .. Len(way), Ends(way[j].msg, id)
      PROVE  EndsAfter(id, more, Tail(way), k)
  <2>1. Len(way) \in Nat /\ j \in 1 .. Len(way) /\ j # 1
    BY <1>2
  <2>2. j - 1 \in k + 1 .. Len(Tail(way)) /\ Tail(way)[j - 1] = way[j]
    BY <2>1, <1>2, TailEntries
  <2> QED BY <2>2, <1>2, Zenon DEF EndsAfter
<1> QED BY <1>1, <1>2 DEF EndsAfter

\* So does one on a way that is appended to,
LEMMA EndsAfterAppend ==
  ASSUME NEW way \in Seq(Items), NEW qm \in Items, NEW lost, NEW id, NEW k \in Nat,
         EndsAfter(id, lost, way, k) \/ (k <= Len(way) /\ Ends(qm.msg, id))
  PROVE  EndsAfter(id, lost, Append(way, qm), k)
<1>1. /\ Len(Append(way, qm)) = Len(way) + 1 /\ Len(way) \in Nat
      /\ \A j \in 1 .. Len(way) : Append(way, qm)[j] = way[j]
      /\ Append(way, qm)[Len(way) + 1] = qm
  BY AppendProperties
<1>2. CASE \E m \in lost : Ends(m, id)
  BY <1>2 DEF EndsAfter
<1>3. ASSUME NEW j \in k + 1 .. Len(way), Ends(way[j].msg, id)
      PROVE  EndsAfter(id, lost, Append(way, qm), k)
  <2>1. j \in k + 1 .. Len(Append(way, qm)) /\ j \in 1 .. Len(way)
    BY <1>1, <1>3
  <2> QED BY <2>1, <1>1, <1>3 DEF EndsAfter
<1>4. CASE k <= Len(way) /\ Ends(qm.msg, id)
  <2>1. Len(way) + 1 \in k + 1 .. Len(Append(way, qm))
    BY <1>1, <1>4
  <2> QED BY <2>1, <1>1, <1>4, Zenon DEF EndsAfter
<1> QED BY <1>2, <1>3, <1>4, Zenon DEF EndsAfter

\* and one beside further losses.
LEMMA EndsAfterMore ==
  ASSUME NEW way, NEW lost, NEW more, lost \subseteq more, NEW id, NEW k,
         EndsAfter(id, lost, way, k)
  PROVE  EndsAfter(id, more, way, k)
BY DEF EndsAfter

\* The makers on a way that stays as it is,
LEMMA MakersKept ==
  ASSUME NEW way, NEW lost, NEW routed, NEW absent, MakersOK(way, lost, routed, absent),
         NEW more, lost \subseteq more, NEW routed2, NEW absent2,
         \A k \in 1 .. Len(way) : \A id :
           Makes(way[k].msg, id) => (id \in absent => id \in absent2) /\ (id \in routed => id \in routed2)
  PROVE  MakersOK(way, more, routed2, absent2)
<1> SUFFICES ASSUME NEW k \in 1 .. Len(way), NEW id, Makes(way[k].msg, id)
             PROVE  /\ id \in absent2
                    /\ id \in routed2 \/ EndsAfter(id, more, way, k)
                    /\ \A j \in 1 .. Len(way) : /\ Mentions(way[j].msg, id) => j > k
                                                /\ Makes(way[j].msg, id) => j = k
  BY DEF MakersOK
<1>1. id \in absent /\ (id \in routed \/ EndsAfter(id, lost, way, k))
  BY DEF MakersOK
<1>2. EndsAfter(id, lost, way, k) => EndsAfter(id, more, way, k)
  BY EndsAfterMore
<1> QED BY <1>1, <1>2 DEF MakersOK

\* that loses its first message,
LEMMA MakersTail ==
  ASSUME NEW way \in Seq(Items), way # <<>>,
         NEW lost, NEW routed, NEW absent, MakersOK(way, lost, routed, absent),
         NEW more, lost \subseteq more, NEW absent2,
         \A id : id \in absent /\ ~Makes(Head(way).msg, id) => id \in absent2
  PROVE  MakersOK(Tail(way), more, routed, absent2)
<1> SUFFICES ASSUME NEW k \in 1 .. Len(Tail(way)), NEW id, Makes(Tail(way)[k].msg, id)
             PROVE  /\ id \in absent2
                    /\ id \in routed \/ EndsAfter(id, more, Tail(way), k)
                    /\ \A j \in 1 .. Len(Tail(way)) :
                         /\ Mentions(Tail(way)[j].msg, id) => j > k
                         /\ Makes(Tail(way)[j].msg, id) => j = k
  BY DEF MakersOK
<1>1. /\ k + 1 \in 1 .. Len(way) /\ Makes(way[k + 1].msg, id) /\ k \in Nat /\ k + 1 # 1
      /\ 1 \in 1 .. Len(way) /\ Head(way) = way[1]
  BY TailEntries
<1>2. /\ id \in absent /\ (id \in routed \/ EndsAfter(id, lost, way, k + 1))
      /\ \A j \in 1 .. Len(way) : /\ Mentions(way[j].msg, id) => j > k + 1
                                  /\ Makes(way[j].msg, id) => j = k + 1
  BY <1>1 DEF MakersOK
<1>3. ~Makes(Head(way).msg, id)
  BY <1>1, <1>2
<1>4. EndsAfter(id, lost, way, k + 1) => EndsAfter(id, more, Tail(way), k)
  BY <1>1, EndsAfterTail, Zenon
<1>5. ASSUME NEW j \in 1 .. Len(Tail(way))
      PROVE  /\ Mentions(Tail(way)[j].msg, id) => j > k
             /\ Makes(Tail(way)[j].msg, id) => j = k
  <2>1. j + 1 \in 1 .. Len(way) /\ Tail(way)[j] = way[j + 1] /\ j \in Nat
    BY TailEntries
  <2>2. /\ Mentions(way[j + 1].msg, id) => j + 1 > k + 1
        /\ Makes(way[j + 1].msg, id) => j + 1 = k + 1
    BY <2>1, <1>2, Zenon
  <2> QED BY <2>1, <2>2, <1>1
<1> QED BY <1>2, <1>3, <1>4, <1>5, Zenon

\* and that is appended to.
LEMMA MakersAppend ==
  ASSUME NEW way \in Seq(Items), NEW qm \in Items,
         NEW lost, NEW routed, NEW absent, MakersOK(way, lost, routed, absent),
         NEW routed2, NEW absent2, absent \subseteq absent2,
         \A id \in routed : id \in routed2 \/ Ends(qm.msg, id),
         \A id : Makes(qm.msg, id) =>
           /\ id \in absent2 /\ id \in routed2 /\ ~Mentions(qm.msg, id)
           /\ \A k \in 1 .. Len(way) : ~Makes(way[k].msg, id) /\ ~Mentions(way[k].msg, id)
  PROVE  MakersOK(Append(way, qm), lost, routed2, absent2)
<1> DEFINE w == Append(way, qm)
           n == Len(way)
<1>1. /\ Len(w) = n + 1 /\ n \in Nat /\ w[n + 1] = qm
      /\ \A j \in 1 .. n : w[j] = way[j]
  BY AppendProperties
<1>2. \A j \in 1 .. n + 1 : j = n + 1 \/ j \in 1 .. n
  BY <1>1
<1>3. ASSUME NEW k \in 1 .. n, NEW id, Makes(way[k].msg, id)
      PROVE  id \in routed2 \/ EndsAfter(id, lost, w, k)
  <2>1. k \in Nat /\ k <= Len(way)
    BY <1>1
  <2>2. id \in routed \/ EndsAfter(id, lost, way, k)
    BY <1>3 DEF MakersOK
  <2>3. CASE id \in routed2
    BY <2>3
  <2>4. CASE EndsAfter(id, lost, way, k) \/ Ends(qm.msg, id)
    BY <2>1, <2>4, EndsAfterAppend, Zenon
  <2> QED BY <2>2, <2>3, <2>4, Zenon
<1> HIDE DEF w, n
<1>4. n = Len(way)
  BY DEF n
<1> SUFFICES ASSUME NEW k \in 1 .. n + 1, NEW id, Makes(w[k].msg, id)
             PROVE  /\ id \in absent2
                    /\ id \in routed2 \/ EndsAfter(id, lost, w, k)
                    /\ \A j \in 1 .. n + 1 : /\ Mentions(w[j].msg, id) => j > k
                                             /\ Makes(w[j].msg, id) => j = k
  BY <1>1, Zenon DEF MakersOK, w
<1>5. CASE k = n + 1
  <2>1. /\ id \in absent2 /\ id \in routed2 /\ ~Mentions(qm.msg, id)
        /\ \A j \in 1 .. n : ~Makes(way[j].msg, id) /\ ~Mentions(way[j].msg, id)
    BY <1>1, <1>4, <1>5, Zenon
  <2> QED BY <2>1, <1>1, <1>2, <1>5, Zenon
<1>6. CASE k \in 1 .. n
  <2>1. w[k] = way[k] /\ k \in 1 .. Len(way) /\ Makes(way[k].msg, id)
    BY <1>1, <1>4, <1>6, Zenon
  <2>2. /\ id \in absent2
        /\ \A j \in 1 .. n : /\ Mentions(way[j].msg, id) => j > k
                             /\ Makes(way[j].msg, id) => j = k
    BY <2>1, <1>4, Zenon DEF MakersOK
  <2>3. id \in routed2 \/ EndsAfter(id, lost, w, k)
    BY <2>1, <1>3, <1>6, Zenon
  <2>4. ~Makes(qm.msg, id) /\ n + 1 > k
    BY <2>1, <1>1, <1>6
  <2> QED BY <2>2, <2>3, <2>4, <1>1, <1>2, Zenon
<1> QED BY <1>2, <1>5, <1>6, Zenon

\* The first message on a way ends the order, or what ends it comes later.
LEMMA EndsAfterFirst ==
  ASSUME NEW way \in Seq(Items), way # <<>>, NEW lost, NEW id, EndsAfter(id, lost, way, 0)
  PROVE  Ends(Head(way).msg, id) \/ EndsAfter(id, lost, Tail(way), 0)
<1>1. CASE \E m \in lost : Ends(m, id)
  BY <1>1 DEF EndsAfter
<1>2. ASSUME NEW j \in 0 + 1 .. Len(way), Ends(way[j].msg, id)
      PROVE  Ends(Head(way).msg, id) \/ EndsAfter(id, lost, Tail(way), 0)
  <2>1. Len(way) \in Nat /\ j \in 1 .. Len(way) /\ Head(way) = way[1]
    BY <1>2, TailEntries
  <2>2. CASE j = 1
    BY <2>1, <2>2, <1>2, Zenon
  <2>3. CASE j # 1
    <3>1. j - 1 \in 0 + 1 .. Len(Tail(way)) /\ Tail(way)[j - 1] = way[j]
      BY <2>1, <2>3, TailEntries
    <3> QED BY <3>1, <1>2, Zenon DEF EndsAfter
  <2> QED BY <2>2, <2>3, Zenon
<1> QED BY <1>1, <1>2, Zenon DEF EndsAfter

-----------------------------------------------------------------------------
(***************************************************************************)
(* Routes.                                                                 *)
(***************************************************************************)
\* The orders that rest nowhere.
Absent == {id \in 1 .. nextId - 1 : id \notin DOMAIN books[home[id]].index}

\* An order whose route a decoder is about to erase is gone for good.
ErasedOK(id, s, symbolOf, way, absent) ==
  /\ id \in absent /\ ShardOf[symbolOf[id]] = s
  /\ \A k \in 1 .. Len(way) : ~Makes(way[k].msg, id)

RouteInv ==
  /\ \A s \in Shards :
       /\ MakersOK(OnTheWay(s), missed[s], DOMAIN route, Absent)
       /\ decoder[s].erase # Nothing => ErasedOK(decoder[s].erase.id, s, home, OnTheWay(s), Absent)
  /\ \A y \in Symbols : \A id \in DOMAIN books[y].index :
       id \in DOMAIN route \/ EndsAfter(id, missed[ShardOf[y]], OnTheWay(ShardOf[y]), 0)

\* RouteInv of the next state.
NextRouteOK ==
  /\ \A s \in Shards :
       /\ MakersOK(OnTheWay(s)', missed'[s], DOMAIN route', Absent')
       /\ decoder'[s].erase # Nothing =>
            ErasedOK(decoder'[s].erase.id, s, home', OnTheWay(s)', Absent')
  /\ \A y \in Symbols : \A id \in DOMAIN books'[y].index :
       id \in DOMAIN route' \/ EndsAfter(id, missed'[ShardOf[y]], OnTheWay(ShardOf[y])', 0)

\* It is that.
LEMMA RouteInvNext ==
  ASSUME NextRouteOK
  PROVE  RouteInv'
<1>2. \A s \in Shards : MakersOK(OnTheWay(s), missed[s], DOMAIN route, Absent)'
  <2>1. \A s \in Shards : MakersOK(OnTheWay(s)', missed'[s], DOMAIN route', Absent')
    BY DEF NextRouteOK
  <2> QED BY <2>1, Zenon DEF MakersOK, EndsAfter, Makes, Mentions, Ends
<1>3. \A s \in Shards : (decoder[s].erase # Nothing =>
                           ErasedOK(decoder[s].erase.id, s, home, OnTheWay(s), Absent))'
  <2>1. \A s \in Shards : decoder'[s].erase # Nothing =>
            ErasedOK(decoder'[s].erase.id, s, home', OnTheWay(s)', Absent')
    BY DEF NextRouteOK
  <2> QED BY <2>1, Zenon DEF ErasedOK, Makes, Nothing
<1>4. \A y \in Symbols : \A id \in DOMAIN books'[y].index :
        id \in DOMAIN route' \/ EndsAfter(id, missed[ShardOf[y]], OnTheWay(ShardOf[y]), 0)'
  <2>1. \A y \in Symbols : \A id \in DOMAIN books'[y].index :
          id \in DOMAIN route' \/ EndsAfter(id, missed'[ShardOf[y]], OnTheWay(ShardOf[y])', 0)
    BY Zenon DEF NextRouteOK
  <2> QED BY <2>1, Zenon DEF EndsAfter, Ends
<1> QED BY <1>2, <1>3, <1>4, Zenon DEF RouteInv

\* A message on the way makes or mentions an order of a symbol of the shard.
LEMMA WayIds ==
  ASSUME FeedInv, NEW s \in Shards, NEW k \in 1 .. Len(OnTheWay(s)), NEW id,
         Makes(OnTheWay(s)[k].msg, id) \/ Mentions(OnTheWay(s)[k].msg, id)
  PROVE  id \in 1 .. nextId - 1 /\ ShardOf[home[id]] = s /\ home[id] = OnTheWay(s)[k].symbol
BY WayTyped DEF ItemOK, Makes, Mentions

\* A message that is sent leaves absent orders absent; the one it makes is, too.
LEMMA SentAbsent ==
  ASSUME FeedInv, HomeInv, NEW y \in Symbols, NEW m, Sent(y, m)
  PROVE  Absent \subseteq Absent' /\ \A id : Makes(m, id) => id \in Absent'
<1>1. /\ \A id \in 1 .. nextId - 1 : id \in 1 .. nextId' - 1 /\ home'[id] = home[id]
      /\ \A id : Makes(m, id) => id = nextId /\ id \in 1 .. nextId' - 1 /\ home'[id] = y
  BY SentGrows, Zenon
<1>2. books' = books
  BY DEF Sent
<1>3. nextId \notin DOMAIN books[y].index
  BY DEF HomeInv, FeedInv
<1>4. Absent \subseteq Absent'
  BY <1>1, <1>2, Zenon DEF Absent
<1>5. ASSUME NEW id, Makes(m, id) PROVE id \in Absent'
  BY <1>1, <1>2, <1>3, <1>5, Zenon DEF Absent
<1> QED BY <1>4, <1>5, Zenon

\* A message lost or unroutable keeps RouteInv,
LEMMA LoseRouteInv ==
  ASSUME FeedInv, HomeInv, RouteInv, LoseStep
  PROVE  NextRouteOK
<1>1. PICK y \in Symbols, m \in Messages : Sent(y, m) /\ NotTaken(y, m) /\ WaysKept
  BY Zenon DEF LoseStep, Sent
<1>2. /\ books' = books /\ decoder' = decoder /\ route' = route
      /\ missed' = [missed EXCEPT ![ShardOf[y]] = @ \cup {m}]
  BY <1>1, Zenon DEF Sent, NotTaken
<1>3. \A s \in Shards : missed[s] \subseteq missed'[s] /\ OnTheWay(s)' = OnTheWay(s)
  BY <1>1, <1>2, Zenon DEF FeedInv, WaysKept
<1>4. Absent \subseteq Absent' /\ \A id \in Absent : home'[id] = home[id]
  BY <1>1, SentAbsent, SentGrows, Zenon DEF Absent
<1>5. ASSUME NEW s \in Shards
      PROVE  /\ MakersOK(OnTheWay(s)', missed'[s], DOMAIN route', Absent')
             /\ decoder'[s].erase # Nothing =>
                  ErasedOK(decoder'[s].erase.id, s, home', OnTheWay(s)', Absent')
  <2>1. MakersOK(OnTheWay(s), missed[s], DOMAIN route, Absent)
    BY Zenon DEF RouteInv
  <2>2. MakersOK(OnTheWay(s), missed'[s], DOMAIN route, Absent')
    BY <2>1, <1>3, <1>4, MakersKept, Zenon
  <2>3. decoder[s].erase # Nothing => ErasedOK(decoder[s].erase.id, s, home, OnTheWay(s), Absent)
    BY Zenon DEF RouteInv
  <2>4. decoder[s].erase # Nothing => ErasedOK(decoder[s].erase.id, s, home', OnTheWay(s), Absent')
    BY <2>3, <1>4, Zenon DEF ErasedOK
  <2> QED BY <2>2, <2>4, <1>2, <1>3, Zenon
<1>6. ASSUME NEW z \in Symbols, NEW id \in DOMAIN books'[z].index
      PROVE  id \in DOMAIN route' \/ EndsAfter(id, missed'[ShardOf[z]], OnTheWay(ShardOf[z])', 0)
  <2>1. id \in DOMAIN route \/ EndsAfter(id, missed[ShardOf[z]], OnTheWay(ShardOf[z]), 0)
    BY <1>2 DEF RouteInv
  <2>2. ShardOf[z] \in Shards
    BY RoutingAssumption, Zenon
  <2> QED BY <2>1, <2>2, <1>2, <1>3, EndsAfterMore, SMTT(20)
<1> QED BY <1>5, <1>6, Zenon DEF NextRouteOK

\* and so does one that is taken: the route of the order it ends goes when the
\* message is on the way.
LEMMA TakeRouteInv ==
  ASSUME FeedInv, HomeInv, RouteInv, TakeStep
  PROVE  NextRouteOK
<1>1. PICK y \in Symbols, m \in Messages : /\ Sent(y, m) /\ Taken(y, m)
                              /\ Pushed(ShardOf[y], ItemOf(y, m)) /\ ItemOf(y, m) \in Items
  BY ZenonT(30) DEF TakeStep, Sent
<1>2. PICK t \in Shards : t = ShardOf[y]
  BY RoutingAssumption
<1>3. /\ books' = books /\ decoder' = decoder /\ missed' = missed
      /\ \A id : id \in DOMAIN route' <=> Makes(m, id) \/ (id \in DOMAIN route /\ ~Ends(m, id))
  BY <1>1, Zenon DEF Sent, Taken
<1>4. PICK qm \in Items : qm = ItemOf(y, m) /\ qm.msg = m
  BY <1>1, Zenon DEF ItemOf
<1>5. /\ OnTheWay(t)' = Append(OnTheWay(t), qm)
      /\ \A s \in Shards \ {t} : OnTheWay(s)' = OnTheWay(s)
  BY <1>1, <1>2, <1>4, Zenon DEF Pushed
<1>6. /\ Absent \subseteq Absent' /\ \A id \in Absent : home'[id] = home[id]
      /\ \A id : Makes(m, id) => id \in Absent' /\ id = nextId
      /\ nextId \notin 1 .. nextId - 1
  <2>1. Absent \subseteq Absent' /\ \A id : Makes(m, id) => id \in Absent'
    BY <1>1, SentAbsent, Zenon
  <2>2. \A id \in Absent : home'[id] = home[id]
    BY <1>1, SentGrows, Zenon DEF Absent
  <2>3. \A id : Makes(m, id) => id = nextId
    BY <1>1, SentGrows, Zenon
  <2>4. nextId \notin 1 .. nextId - 1
    BY DEF FeedInv
  <2> QED BY <2>1, <2>2, <2>3, <2>4, Zenon
<1>7. \A id : Ends(m, id) => id \in 1 .. nextId - 1 /\ home[id] = y
  <2>1. \A id : Ends(m, id) => id \in resting[y]
    BY <1>1, SentGrows, Zenon
  <2> QED BY <2>1, Zenon DEF FeedInv
<1>8. \A id : Makes(m, id) => ~Mentions(m, id)
  <2>1. m.type # "Add" => m.id \in 1 .. nextId - 1
    BY <1>1 DEF Sent, FeedInv
  <2> QED BY <2>1, <1>6, Zenon DEF Makes, Mentions
<1>9. ASSUME NEW s \in Shards
      PROVE  MakersOK(OnTheWay(s)', missed'[s], DOMAIN route', Absent')
  <2>1. MakersOK(OnTheWay(s), missed[s], DOMAIN route, Absent) /\ OnTheWay(s) \in Seq(Items)
    BY WayTyped, Zenon DEF RouteInv
  <2>2. CASE s = t
    <3>1. \A id : Makes(qm.msg, id) =>
            /\ id \in Absent' /\ id \in DOMAIN route' /\ ~Mentions(qm.msg, id)
            /\ \A k \in 1 .. Len(OnTheWay(s)) :
                 ~Makes(OnTheWay(s)[k].msg, id) /\ ~Mentions(OnTheWay(s)[k].msg, id)
      BY <1>3, <1>4, <1>6, <1>8, WayIds, SMTT(20)
    <3>2. \A id \in DOMAIN route : id \in DOMAIN route' \/ Ends(qm.msg, id)
      BY <1>3, <1>4, Zenon
    <3>3. MakersOK(Append(OnTheWay(s), qm), missed[s], DOMAIN route', Absent')
      BY <2>1, <3>1, <3>2, <1>6, MakersAppend, Zenon
    <3> QED BY <3>3, <2>2, <1>3, <1>5, Zenon
  <2>3. CASE s # t
    <3>1. \A k \in 1 .. Len(OnTheWay(s)) : \A id :
            Makes(OnTheWay(s)[k].msg, id) =>
              (id \in Absent => id \in Absent') /\ (id \in DOMAIN route => id \in DOMAIN route')
      BY <1>2, <1>3, <1>6, <1>7, <2>3, WayIds, SMTT(20)
    <3>2. MakersOK(OnTheWay(s), missed[s], DOMAIN route', Absent')
      BY <2>1, <3>1, MakersKept, Zenon
    <3> QED BY <3>2, <2>3, <1>3, <1>5, Zenon
  <2> QED BY <2>2, <2>3, Zenon
<1>10. ASSUME NEW s \in Shards, decoder'[s].erase # Nothing
       PROVE  ErasedOK(decoder'[s].erase.id, s, home', OnTheWay(s)', Absent')
  <2>1. ErasedOK(decoder[s].erase.id, s, home, OnTheWay(s), Absent)
    BY <1>3, <1>10, Zenon DEF RouteInv
  <2>2. PICK id : id = decoder[s].erase.id
    BY Zenon
  <2>3. /\ id \in Absent /\ id \in Absent' /\ ShardOf[home'[id]] = s /\ ~Makes(m, id)
        /\ \A k \in 1 .. Len(OnTheWay(s)) : ~Makes(OnTheWay(s)[k].msg, id)
    BY <2>1, <2>2, <1>6 DEF ErasedOK, Absent
  <2>4. \A k \in 1 .. Len(OnTheWay(s)') : ~Makes(OnTheWay(s)'[k].msg, id)
    <3>1. CASE s = t
      <4>1. OnTheWay(s) \in Seq(Items)
        BY WayTyped, Zenon
      <4>2. \A k \in 1 .. Len(Append(OnTheWay(s), qm)) : ~Makes(Append(OnTheWay(s), qm)[k].msg, id)
        BY <4>1, <2>3, <1>4, AppendProperties
      <4> QED BY <4>2, <3>1, <1>5, Zenon
    <3>2. CASE s # t
      BY <3>2, <2>3, <1>5, Zenon
    <3> QED BY <3>1, <3>2, Zenon
  <2> QED BY <2>2, <2>3, <2>4, <1>3, Zenon DEF ErasedOK
<1>11. ASSUME NEW z \in Symbols, NEW id \in DOMAIN books'[z].index
       PROVE  id \in DOMAIN route' \/ EndsAfter(id, missed'[ShardOf[z]], OnTheWay(ShardOf[z])', 0)
  <2>1. PICK s \in Shards : s = ShardOf[z]
    BY RoutingAssumption
  <2>2. id \in DOMAIN route \/ EndsAfter(id, missed[s], OnTheWay(s), 0)
    BY <1>3, <1>11, <2>1, Zenon DEF RouteInv
  <2>3. home[id] = z
    BY <1>3, <1>11, Zenon DEF HomeInv
  <2>4. CASE s = t
    <3>1. OnTheWay(s) \in Seq(Items) /\ 0 \in Nat /\ 0 <= Len(OnTheWay(s))
      BY WayTyped
    <3>2. EndsAfter(id, missed[s], OnTheWay(s), 0) \/ Ends(qm.msg, id) =>
            EndsAfter(id, missed[s], Append(OnTheWay(s), qm), 0)
      BY <3>1, EndsAfterAppend, Zenon
    <3> QED BY <3>2, <2>1, <2>2, <2>4, <1>3, <1>4, <1>5, Zenon
  <2>5. CASE s # t
    <3>1. ~Ends(m, id)
      BY <1>2, <1>7, <2>1, <2>3, <2>5, Zenon
    <3> QED BY <3>1, <2>1, <2>2, <2>5, <1>3, <1>5, Zenon
  <2> QED BY <2>4, <2>5, Zenon
<1> QED BY <1>9, <1>10, <1>11, Zenon DEF NextRouteOK

\* An eviction keeps RouteInv: the message that ends an order is then missed;
LEMMA EvictRouteInv ==
  ASSUME FeedInv, HomeInv, RouteInv, EvictStep
  PROVE  NextRouteOK
<1>1. PICK t \in Shards : Evicted(t)
  BY DEF EvictStep
<1>2. UNCHANGED <<books, decoder, route, home, nextId>>
  BY Zenon DEF EvictStep, SameFeed, shardVars
<1>3. /\ OnTheWay(t) # <<>> /\ OnTheWay(t)' = Tail(OnTheWay(t))
      /\ OnTheWay(t) \in Seq(Items)
      /\ \A s \in Shards \ {t} : OnTheWay(s)' = OnTheWay(s)
      /\ missed'[t] = missed[t] \cup {Head(OnTheWay(t)).msg}
      /\ \A s \in Shards : missed[s] \subseteq missed'[s]
      /\ \A s \in Shards \ {t} : missed'[s] = missed[s]
  BY <1>1, WayTyped, Zenon DEF Evicted, Popped, FeedInv
<1>4. Absent' = Absent
  BY <1>2 DEF Absent
<1>5. ASSUME NEW s \in Shards
      PROVE  MakersOK(OnTheWay(s)', missed'[s], DOMAIN route', Absent')
  <2>1. MakersOK(OnTheWay(s), missed[s], DOMAIN route, Absent)
    BY Zenon DEF RouteInv
  <2>2. CASE s = t
    <3>1. MakersOK(Tail(OnTheWay(t)), missed'[t], DOMAIN route, Absent)
      BY <2>1, <2>2, <1>3, MakersTail, Zenon
    <3> QED BY <3>1, <2>2, <1>2, <1>3, <1>4, Zenon
  <2>3. CASE s # t
    BY <2>1, <2>3, <1>2, <1>3, <1>4, Zenon
  <2> QED BY <2>2, <2>3
<1>6. ASSUME NEW s \in Shards, decoder'[s].erase # Nothing
      PROVE  ErasedOK(decoder'[s].erase.id, s, home', OnTheWay(s)', Absent')
  <2>1. ErasedOK(decoder[s].erase.id, s, home, OnTheWay(s), Absent)
    BY <1>2, <1>6, Zenon DEF RouteInv
  <2>2. ErasedOK(decoder[s].erase.id, s, home, OnTheWay(s)', Absent)
    <3>1. CASE s = t
      <4>1. \A k \in 1 .. Len(Tail(OnTheWay(t))) :
              ~Makes(Tail(OnTheWay(t))[k].msg, decoder[s].erase.id)
        BY <3>1, <2>1, <1>3, TailEntries DEF ErasedOK
      <4> QED BY <4>1, <3>1, <2>1, <1>3, Zenon DEF ErasedOK
    <3>2. CASE s # t
      BY <3>2, <2>1, <1>3, Zenon
    <3> QED BY <3>1, <3>2, Zenon
  <2> QED BY <2>2, <1>2, <1>4, Zenon
<1>7. ASSUME NEW z \in Symbols, NEW id \in DOMAIN books'[z].index
      PROVE  id \in DOMAIN route' \/ EndsAfter(id, missed'[ShardOf[z]], OnTheWay(ShardOf[z])', 0)
  <2>1. PICK s \in Shards : s = ShardOf[z]
    BY RoutingAssumption, Zenon
  <2>2. id \in DOMAIN route \/ EndsAfter(id, missed[s], OnTheWay(s), 0)
    BY <1>2, <1>7, <2>1, Zenon DEF RouteInv
  <2>3. CASE s = t /\ EndsAfter(id, missed[s], OnTheWay(s), 0)
    <3>1. CASE Ends(Head(OnTheWay(t)).msg, id)
      <4>1. EndsAfter(id, missed'[t], OnTheWay(t)', 0)
        BY <3>1, <1>3, Zenon DEF EndsAfter
      <4> QED BY <4>1, <2>1, <2>3, Zenon
    <3>2. CASE EndsAfter(id, missed[t], Tail(OnTheWay(t)), 0)
      <4>1. EndsAfter(id, missed'[t], Tail(OnTheWay(t)), 0)
        BY <3>2, <1>3, EndsAfterMore, Zenon
      <4> QED BY <4>1, <2>1, <2>3, <1>3, Zenon
    <3> QED BY <3>1, <3>2, <2>3, <1>3, EndsAfterFirst, Zenon
  <2>4. CASE s # t
    BY <2>1, <2>2, <2>4, <1>2, <1>3, Zenon
  <2> QED BY <2>2, <2>3, <2>4, <1>2, Zenon
<1> QED BY <1>5, <1>6, <1>7, Zenon DEF NextRouteOK

\* so does the erasure of a route: its order is gone;
LEMMA EraseRouteInv ==
  ASSUME FeedInv, HomeInv, DecoderInv, RouteInv, EraseStep
  PROVE  NextRouteOK
<1>1. PICK t \in Shards : EraseRoute(t) /\ WaysKept
  BY DEF EraseStep
<1>2. PICK gone : gone = decoder[t].erase.id
  OBVIOUS
<1>3. /\ decoder[t].erase # Nothing /\ DOMAIN route' = DOMAIN route \ {gone}
      /\ decoder' = [decoder EXCEPT ![t].erase = Nothing]
      /\ UNCHANGED <<books, missed, home, nextId>>
  BY <1>1, <1>2, Zenon DEF EraseRoute, Erase, Restrict, shardVars, feedVars
<1>4. \A s \in Shards : decoder'[s].erase # Nothing => decoder'[s].erase = decoder[s].erase
  <2>1. decoder'[t].erase = Nothing
    BY <1>3 DEF DecoderInv
  <2> QED BY <2>1, <1>3, Zenon DEF DecoderInv
<1>5. Absent' = Absent /\ \A s \in Shards : OnTheWay(s)' = OnTheWay(s)
  BY <1>1, <1>3, Zenon DEF Absent, WaysKept
<1>6. /\ gone \in Absent /\ ShardOf[home[gone]] = t
      /\ \A k \in 1 .. Len(OnTheWay(t)) : ~Makes(OnTheWay(t)[k].msg, gone)
  BY <1>2, <1>3, Zenon DEF RouteInv, ErasedOK
<1>7. ASSUME NEW s \in Shards
      PROVE  MakersOK(OnTheWay(s)', missed'[s], DOMAIN route', Absent')
  <2>1. MakersOK(OnTheWay(s), missed[s], DOMAIN route, Absent)
    BY Zenon DEF RouteInv
  <2>2. \A k \in 1 .. Len(OnTheWay(s)) : \A id : Makes(OnTheWay(s)[k].msg, id) => id # gone
    BY <1>6, WayIds
  <2>3. MakersOK(OnTheWay(s), missed[s], DOMAIN route', Absent)
    BY <2>1, <2>2, <1>3, MakersKept, Zenon
  <2> QED BY <2>3, <1>3, <1>5, Zenon
<1>8. ASSUME NEW s \in Shards, decoder'[s].erase # Nothing
      PROVE  ErasedOK(decoder'[s].erase.id, s, home', OnTheWay(s)', Absent')
  <2>1. decoder'[s].erase = decoder[s].erase
    BY <1>4, <1>8, Zenon
  <2>2. ErasedOK(decoder[s].erase.id, s, home, OnTheWay(s), Absent)
    BY <2>1, <1>8, Zenon DEF RouteInv
  <2> QED BY <2>1, <2>2, <1>3, <1>5, Zenon
<1>9. ASSUME NEW z \in Symbols, NEW id \in DOMAIN books'[z].index
      PROVE  id \in DOMAIN route' \/ EndsAfter(id, missed'[ShardOf[z]], OnTheWay(ShardOf[z])', 0)
  <2>1. id \in DOMAIN route \/ EndsAfter(id, missed[ShardOf[z]], OnTheWay(ShardOf[z]), 0)
    BY <1>3, <1>9, Zenon DEF RouteInv
  <2>2. home[id] = z /\ id \in DOMAIN books[z].index
    BY <1>3, <1>9, Zenon DEF HomeInv
  <2>3. id # gone
    BY <1>6, <2>2, Zenon DEF Absent
  <2>4. ShardOf[z] \in Shards
    BY RoutingAssumption
  <2> QED BY <2>1, <2>3, <2>4, <1>3, <1>5, Zenon
<1> QED BY <1>7, <1>8, <1>9, Zenon DEF NextRouteOK

\* so do the steps of the deltas and a push that evicts nothing;
LEMMA QuietRouteInv ==
  ASSUME DecoderInv, RouteInv, QuietStep, DeltaStep
  PROVE  NextRouteOK
<1>1. /\ \A s \in Shards : OnTheWay(s)' = OnTheWay(s)
      /\ UNCHANGED <<books, missed, home, nextId, route>>
  BY DEF QuietStep, WaysKept, SameFeed, shardVars
<1>2. Absent' = Absent
  BY <1>1 DEF Absent
<1>3. \A s \in Shards : decoder'[s].erase = decoder[s].erase
  <2>1. DOMAIN decoder = Shards
    BY DEF DecoderInv
  <2>2. ASSUME NEW t \in Shards, PushDelta(t)
        PROVE  \A s \in Shards : decoder'[s].erase = decoder[s].erase
    <3>1. decoder' = [decoder EXCEPT ![t].deltas = Tail(@)]
      BY <2>2 DEF PushDelta
    <3>2. decoder'[t].erase = decoder[t].erase
      BY <3>1 DEF DecoderInv
    <3> QED BY <2>1, <3>1, <3>2, Zenon
  <2>3. ASSUME NEW t \in Shards, PublisherThread(t) PROVE decoder' = decoder
    BY <2>3, Zenon DEF PublisherThread
  <2> QED BY <2>1, <2>2, <2>3, Zenon DEF DeltaStep
<1>4. \A s \in Shards :
        /\ MakersOK(OnTheWay(s), missed[s], DOMAIN route, Absent)
        /\ decoder[s].erase # Nothing => ErasedOK(decoder[s].erase.id, s, home, OnTheWay(s), Absent)
  BY Zenon DEF RouteInv
<1>5. \A y \in Symbols : \A id \in DOMAIN books[y].index :
        id \in DOMAIN route \/ EndsAfter(id, missed[ShardOf[y]], OnTheWay(ShardOf[y]), 0)
  BY DEF RouteInv
<1>6. \A y \in Symbols : ShardOf[y] \in Shards
  BY RoutingAssumption, Zenon
<1> QED BY <1>1, <1>2, <1>3, <1>4, <1>5, <1>6, Zenon DEF NextRouteOK

\* and so does a processed message: the order it makes is routed or ended later.
LEMMA ProcessRouteInv ==
  ASSUME FeedInv, HomeInv, DecoderInv, RouteInv, ProcessStep
  PROVE  NextRouteOK
<1>1. PICK t \in Shards : ProcessMessage(t) /\ Popped(t) /\ Head(queue[t]) = Head(OnTheWay(t))
  BY Zenon DEF ProcessStep
<1>2. PICK qm \in Items :
        /\ qm = OnTheWay(t)[1] /\ 1 \in 1 .. Len(OnTheWay(t))
        /\ ItemOK(qm, t) /\ qm = Head(queue[t])
        /\ qm.symbol \in Symbols /\ qm.msg \in Messages
        /\ books' = [books EXCEPT ![qm.symbol] = Apply(books[qm.symbol], qm.msg).book]
  BY <1>1, ProcessedItem, Zenon
<1>3. PICK y \in Symbols, m \in Messages : y = qm.symbol /\ m = qm.msg
  BY <1>2, Zenon
<1>4. PICK w \in Seq(Items) : w = OnTheWay(t) /\ w # <<>> /\ Head(w).msg = m /\ w[1].msg = m
  BY <1>1, <1>2, <1>3, WayTyped, Zenon DEF Popped
<1>5. /\ OnTheWay(t)' = Tail(w) /\ \A s \in Shards \ {t} : OnTheWay(s)' = OnTheWay(s)
  BY <1>1, <1>4, Zenon DEF Popped
<1>6. UNCHANGED <<route, missed, home, nextId>>
  BY <1>1, Zenon DEF ProcessMessage, feedVars
<1>7. PICK b : b = Apply(books[y], m).book
  BY Zenon
<1>8. books'[y] = b /\ \A z \in Symbols \ {y} : books'[z] = books[z]
  BY <1>2, <1>3, <1>7, Zenon DEF HomeInv
<1>9. MakersOK(w, missed[t], DOMAIN route, Absent)
  BY <1>4, Zenon DEF RouteInv
<1>10. /\ \A id : Makes(m, id) \/ Mentions(m, id) => id \in 1 .. nextId - 1 /\ home[id] = y
       /\ ShardOf[y] = t
  BY <1>2, <1>3, Zenon DEF ItemOK, Makes, Mentions
<1>11. \A id : Makes(m, id) => id \in Absent /\ id \notin DOMAIN books[y].index
  <2>1. \A id : Makes(w[1].msg, id) => id \in Absent
    BY <1>2, <1>4, <1>9, Zenon DEF MakersOK
  <2> QED BY <2>1, <1>4, <1>10, Zenon DEF Absent
<1>12. /\ \A id \in DOMAIN b.index : id \in DOMAIN books[y].index \/ Makes(m, id)
       /\ \A id : Ends(m, id) /\ ~Makes(m, id) => id \notin DOMAIN b.index
  BY <1>7, <1>11, MessageTypes, ApplyIndex
<1>13. \A id : id \in Absent /\ ~Makes(m, id) => id \in Absent'
  <2> SUFFICES ASSUME NEW id, id \in Absent, ~Makes(m, id)
               PROVE  id \notin DOMAIN books'[home[id]].index
    BY <1>6, Zenon DEF Absent
  <2>1. home[id] \in Symbols /\ id \notin DOMAIN books[home[id]].index
    BY DEF Absent, FeedInv
  <2> QED BY <2>1, <1>8, <1>12, Zenon
<1>14. ASSUME NEW s \in Shards
       PROVE  MakersOK(OnTheWay(s)', missed'[s], DOMAIN route', Absent')
  <2>1. CASE s = t
    <3>1. MakersOK(Tail(w), missed[t], DOMAIN route, Absent')
      BY <1>4, <1>9, <1>13, MakersTail, Zenon
    <3> QED BY <3>1, <2>1, <1>5, <1>6, Zenon
  <2>2. CASE s # t
    <3>1. MakersOK(OnTheWay(s), missed[s], DOMAIN route, Absent)
      BY Zenon DEF RouteInv
    <3>2. \A k \in 1 .. Len(OnTheWay(s)) : \A id : Makes(OnTheWay(s)[k].msg, id) => ~Makes(m, id)
      BY <2>2, <1>10, WayIds, SMTT(20)
    <3>3. MakersOK(OnTheWay(s), missed[s], DOMAIN route, Absent')
      BY <3>1, <3>2, <1>13, MakersKept, Zenon
    <3> QED BY <3>3, <2>2, <1>5, <1>6, Zenon
  <2> QED BY <2>1, <2>2, Zenon
<1>15. ASSUME NEW s \in Shards, decoder'[s].erase # Nothing
       PROVE  ErasedOK(decoder'[s].erase.id, s, home', OnTheWay(s)', Absent')
  <2>1. CASE s = t
    <3>1. /\ m.type = "Execute" /\ m.id \notin DOMAIN b.index
          /\ decoder'[t].erase.id = m.id
      <4>1. decoder'[t].erase = IF m.type = "Execute" /\ ~HasOrder(b, m.id)
                                  THEN [type |-> "erase", id |-> m.id] ELSE Nothing
        BY <1>1, <1>2, <1>3, <1>7, Zenon DEF ProcessMessage, DecoderInv
      <4> QED BY <4>1, <2>1, <1>15 DEF HasOrder
    <3>2. Mentions(m, m.id) /\ m.id \in 1 .. nextId - 1 /\ home[m.id] = y
      BY <3>1, <1>10, Zenon DEF Mentions
    <3>3. m.id \in Absent'
      BY <3>1, <3>2, <1>6, <1>8, Zenon DEF Absent
    <3>4. ASSUME NEW k \in 1 .. Len(Tail(w)), Makes(Tail(w)[k].msg, m.id) PROVE FALSE
      <4>1. k + 1 \in 1 .. Len(w) /\ Makes(w[k + 1].msg, m.id) /\ k \in Nat /\ k >= 1
        BY <3>4, <1>4, TailEntries
      <4>2. \A j \in 1 .. Len(w) : Mentions(w[j].msg, m.id) => j > k + 1
        BY <4>1, <1>9, Zenon DEF MakersOK
      <4>3. Mentions(w[1].msg, m.id) /\ 1 \in 1 .. Len(w)
        BY <3>2, <1>2, <1>4, Zenon
      <4>4. 1 > k + 1
        BY <4>2, <4>3, Zenon
      <4> QED BY <4>1, <4>4
    <3> QED BY <3>1, <3>2, <3>3, <3>4, <2>1, <1>5, <1>6, <1>10, Zenon DEF ErasedOK
  <2>2. CASE s # t
    <3>1. decoder'[s] = decoder[s]
      BY <2>2, <1>1, ZenonT(30) DEF ProcessMessage, DecoderInv
    <3>2. ErasedOK(decoder[s].erase.id, s, home, OnTheWay(s), Absent)
      BY <3>1, <1>15, ZenonT(30) DEF RouteInv
    <3>3. decoder[s].erase.id \in Absent'
      BY <3>2, <2>2, <1>10, <1>13, ZenonT(30) DEF ErasedOK
    <3> QED BY <3>1, <3>2, <3>3, <2>2, <1>5, <1>6, Zenon DEF ErasedOK
  <2> QED BY <2>1, <2>2, Zenon
<1>16. ASSUME NEW z \in Symbols, NEW id \in DOMAIN books'[z].index
       PROVE  id \in DOMAIN route' \/ EndsAfter(id, missed'[ShardOf[z]], OnTheWay(ShardOf[z])', 0)
  <2>1. PICK s \in Shards : s = ShardOf[z]
    BY RoutingAssumption
  <2>2. ASSUME id \in DOMAIN books[z].index, ~Ends(m, id)
        PROVE  id \in DOMAIN route \/ EndsAfter(id, missed[s], OnTheWay(s)', 0)
    <3>1. id \in DOMAIN route \/ EndsAfter(id, missed[s], OnTheWay(s), 0)
      BY <2>1, <2>2, Zenon DEF RouteInv
    <3>2. CASE s = t /\ EndsAfter(id, missed[s], OnTheWay(s), 0)
      <4>1. EndsAfter(id, missed[t], Tail(w), 0)
        BY <3>2, <2>2, <1>4, EndsAfterFirst, Zenon
      <4> QED BY <4>1, <3>2, <1>5, Zenon
    <3>3. CASE s # t
      BY <3>1, <3>3, <1>5, Zenon
    <3> QED BY <3>1, <3>2, <3>3, Zenon
  <2>3. CASE z # y
    <3>1. id \in DOMAIN books[z].index /\ home[id] = z
      BY <2>3, <1>8, <1>16, Zenon DEF HomeInv
    <3>2. ~Ends(m, id)
      BY <3>1, <2>3, <1>10, Zenon DEF Ends, Mentions
    <3> QED BY <3>1, <3>2, <2>1, <2>2, <1>6, Zenon
  <2>4. CASE z = y /\ Makes(m, id)
    <3>1. id \in DOMAIN route \/ EndsAfter(id, missed[t], w, 1)
      BY <2>4, <1>2, <1>4, <1>9, Zenon DEF MakersOK
    <3>2. EndsAfter(id, missed[t], w, 0 + 1) => EndsAfter(id, missed[t], Tail(w), 0)
      BY <1>4, EndsAfterTail, Zenon
    <3>3. id \in DOMAIN route \/ EndsAfter(id, missed[t], Tail(w), 0)
      BY <3>1, <3>2, SMTT(20)
    <3> QED BY <3>3, <2>4, <1>5, <1>6, <1>10, Zenon
  <2>5. CASE z = y /\ ~Makes(m, id)
    <3>1. id \in DOMAIN books[z].index /\ ~Ends(m, id)
      BY <2>5, <1>8, <1>12, <1>16, Zenon
    <3> QED BY <3>1, <2>1, <2>2, <1>6, Zenon
  <2> QED BY <2>3, <2>4, <2>5, Zenon
<1> QED BY <1>14, <1>15, <1>16, Zenon DEF NextRouteOK

\* RouteInv is inductive,
LEMMA RouteInvInductive ==
  FeedInv /\ HomeInv /\ DecoderInv /\ RouteInv /\ [PipeNext]_pipeVars => RouteInv'
<1> SUFFICES ASSUME FeedInv, HomeInv, DecoderInv, RouteInv, [PipeNext]_pipeVars PROVE NextRouteOK
  BY RouteInvNext
<1> QED BY PipeStep, LoseRouteInv, TakeRouteInv, EvictRouteInv, ProcessRouteInv, EraseRouteInv,
           QuietRouteInv, SMTT(20)

\* and holds at first.
LEMMA RouteInvInit == PipeInit => RouteInv
<1> SUFFICES ASSUME PipeInit PROVE RouteInv
  BY Zenon
<1>1. ASSUME NEW s \in Shards PROVE Len(OnTheWay(s)) = 0 /\ decoder[s].erase = Nothing
  <2>1. OnTheWay(s) = <<>> \o <<>>
    BY Zenon DEF OnTheWay, PipeInit
  <2> QED BY <2>1 DEF PipeInit, Idle
<1>2. \A y \in Symbols : DOMAIN books[y].index = {}
  BY DEF PipeInit, EmptyBook
<1>3. \A way, lost, routed, absent : Len(way) = 0 => MakersOK(way, lost, routed, absent)
  BY DEF MakersOK
<1> QED BY <1>1, <1>2, <1>3, Zenon DEF RouteInv

\* A resting order can be reached by later messages: it keeps its entry in
\* order_route_ until a Cancel or Replace of it is under way, whatever is lost,
\* evicted or erased by process_shard() in between.
THEOREM RestingReachable == PipeSpec => []RestingOrdersRouted
<1>1. PipeInit => FeedInv /\ HomeInv /\ DecoderInv /\ RouteInv
  BY FeedInvInit, HomeInvInit, DecoderInvInit, RouteInvInit, Zenon
<1>2. FeedInv /\ HomeInv /\ DecoderInv /\ RouteInv /\ [PipeNext]_pipeVars
        => FeedInv' /\ HomeInv' /\ DecoderInv' /\ RouteInv'
  BY FeedInvInductive, HomeInvInductive, DecoderInvInductive, RouteInvInductive, Zenon
<1>3. FeedInv /\ HomeInv /\ RouteInv => RestingOrdersRouted
  <2> SUFFICES ASSUME FeedInv, HomeInv, RouteInv, NEW y \in Symbols, NEW id \in DOMAIN books[y].index
               PROVE  \/ id \in DOMAIN route /\ route[id].symbol = y
                      \/ \E m \in missed[ShardOf[y]] : m.type \in {"Cancel", "Replace"} /\ m.id = id
                      \/ \E k \in 1 .. Len(OnTheWay(ShardOf[y])) :
                           LET m == OnTheWay(ShardOf[y])[k].msg
                           IN  m.type \in {"Cancel", "Replace"} /\ m.id = id
    BY DEF RestingOrdersRouted
  <2>1. id \in DOMAIN route \/ EndsAfter(id, missed[ShardOf[y]], OnTheWay(ShardOf[y]), 0)
    BY Zenon DEF RouteInv
  <2>2. id \in DOMAIN route => route[id].symbol = y
    BY DEF FeedInv, HomeInv
  <2>3. \A m : Ends(m, id) => m.type \in {"Cancel", "Replace"} /\ m.id = id
    BY DEF Ends
  <2>4. 0 + 1 = 1
    OBVIOUS
  <2> QED BY <2>1, <2>2, <2>3, <2>4, Zenon DEF EndsAfter
<1> QED BY <1>1, <1>2, <1>3, PTL DEF PipeSpec

-----------------------------------------------------------------------------
(***************************************************************************)
(* The books are well-formed.                                              *)
(***************************************************************************)
BooksInv == \A y \in Symbols : BookOK(books[y])

\* What apply() makes of a book and a message of the pipeline.
LEMMA GoodBook ==
  ASSUME BooksInv, NEW y \in Symbols, NEW m \in Messages
  PROVE  GoodOutcome(Apply(books[y], m), books[y])
<1>1. BookMessage(m)
  BY DEF Messages, BookMessage, BookSides
<1> QED BY <1>1, ApplyOutcome, Zenon DEF BooksInv

\* BooksInv is inductive,
LEMMA BooksInvInductive ==
  FeedInv /\ HomeInv /\ BooksInv /\ [PipeNext]_pipeVars => BooksInv'
<1> SUFFICES ASSUME FeedInv, HomeInv, BooksInv, [PipeNext]_pipeVars,
                    NEW y \in Symbols
             PROVE  BookOK(books'[y])
  BY Zenon DEF BooksInv
<1>1. CASE ProcessStep
  <2>1. PICK s \in Shards : ProcessMessage(s) /\ Popped(s) /\ Head(queue[s]) = Head(OnTheWay(s))
    BY <1>1 DEF ProcessStep
  <2>2. PICK qm \in Items :
           /\ qm.symbol \in Symbols /\ qm.msg \in Messages
           /\ books' = [books EXCEPT ![qm.symbol] = Apply(books[qm.symbol], qm.msg).book]
    BY <2>1, ProcessedItem, Zenon
  <2>3. BookOK(Apply(books[qm.symbol], qm.msg).book)
    BY <2>2, GoodBook, Zenon DEF GoodOutcome
  <2>4. books'[y] = IF y = qm.symbol THEN Apply(books[qm.symbol], qm.msg).book ELSE books[y]
    BY <2>2, Zenon DEF HomeInv
  <2> QED BY <2>3, <2>4, Zenon DEF BooksInv
<1>2. CASE books' = books
  BY <1>2, Zenon DEF BooksInv
<1>3. LoseStep \/ TakeStep \/ EvictStep \/ EraseStep \/ QuietStep => books' = books
  BY DEF LoseStep, TakeStep, Sent, EvictStep, EraseStep, EraseRoute, QuietStep, shardVars
<1> QED BY <1>1, <1>2, <1>3, PipeStep, Zenon

\* and holds at first.
LEMMA BooksInvInit == PipeInit => BooksInv
BY EmptyBookOK, Zenon DEF PipeInit, BooksInv

-----------------------------------------------------------------------------
(***************************************************************************)
(* What subscribers know.                                                  *)
(***************************************************************************)
\* The deltas of a shard's symbols.
DeltasOf(s) ==
  [symbol : {y \in Symbols : ShardOf[y] = s}, at : BookSides \X Int, total : Nat]

\* The deltas on their way to a shard's subscriber.
Ahead(s) == out[s] \o decoder[s].deltas

\* Labelled deltas that tell a step of a symbol's book from b to a.
LabelledTell(more, s, y, b, a) ==
  /\ more \in Seq(DeltasOf(s))
  /\ \A k \in 1 .. Len(more) : more[k].symbol = y
  /\ \A at : ~Named(more, y, at) => LevelFor(a, at).total = LevelFor(b, at).total
  /\ \A k \in 1 .. Len(more) : LastNamed(more, k) => more[k].total = LevelFor(a, more[k].at).total

\* The deltas of a step are so once they are labelled.
LEMMA LabelledDeltas ==
  ASSUME NEW s, NEW y \in Symbols, ShardOf[y] = s, NEW b, NEW a, NEW deltas, DeltasTell(deltas, b, a),
         NEW more, more = Labelled(y, deltas)
  PROVE  LabelledTell(more, s, y, b, a) /\ Len(more) = Len(deltas)
<1>1. /\ deltas \in Seq([at : BookSides \X Int, total : 0 .. QuantityModulus - 1])
      /\ Len(deltas) \in Nat
  BY DEF DeltasTell
<1>2. \A k \in 1 .. Len(deltas) : /\ deltas[k].at \in BookSides \X Int /\ deltas[k].total \in Nat
                                  /\ more[k] = [symbol |-> y, at |-> deltas[k].at, total |-> deltas[k].total]
  <2>1. \A k \in 1 .. Len(deltas) : deltas[k] \in [at : BookSides \X Int, total : 0 .. QuantityModulus - 1]
    BY <1>1, ElementOfSeq, Zenon
  <2>2. \A x \in 0 .. QuantityModulus - 1 : x \in Nat
    BY ModulusAssumption
  <2> QED BY <2>1, <2>2, Zenon DEF Labelled
<1>3. /\ more \in Seq(DeltasOf(s)) /\ Len(more) = Len(deltas)
  <2>1. \A k \in 1 .. Len(deltas) : [symbol |-> y, at |-> deltas[k].at, total |-> deltas[k].total] \in DeltasOf(s)
    BY <1>2, Zenon DEF DeltasOf
  <2>2. PICK n \in Nat : n = Len(deltas)
    BY <1>1, Zenon
  <2>3. more \in [1 .. n -> DeltasOf(s)]
    BY <2>1, <2>2, Zenon DEF Labelled
  <2>4. more \in Seq(DeltasOf(s)) /\ Len(more) = n
    BY <2>3, SMTT(20)
  <2> QED BY <2>2, <2>4, Zenon
<1>4. ASSUME NEW k \in 1 .. Len(deltas)
      PROVE  more[k].symbol = y /\ more[k].at = deltas[k].at /\ more[k].total = deltas[k].total
  <2>1. more[k] = [symbol |-> y, at |-> deltas[k].at, total |-> deltas[k].total]
    BY <1>2, Zenon
  <2> QED BY <2>1
<1>5. \A at : ~Named(more, y, at) => LevelFor(a, at).total = LevelFor(b, at).total
  BY <1>3, <1>4, Zenon DEF Named, DeltasTell
<1>6. ASSUME NEW k \in 1 .. Len(more), LastNamed(more, k)
      PROVE  more[k].total = LevelFor(a, more[k].at).total
  <2>1. \A j \in 1 .. Len(deltas) : j > k => deltas[j].at # deltas[k].at
    BY <1>3, <1>4, <1>6, Zenon DEF LastNamed
  <2> QED BY <2>1, <1>3, <1>4, Zenon DEF DeltasTell
<1> QED BY <1>3, <1>4, <1>5, <1>6, Zenon DEF LabelledTell

\* What is ahead of a subscriber are deltas of its shard's symbols, and they
\* tell the books, unless one was evicted.
PubInv ==
  /\ DOMAIN sink = Symbols /\ DOMAIN out = Shards /\ outDropped \in [Shards -> BOOLEAN]
  /\ \A s \in Shards : out[s] \in Seq(DeltasOf(s)) /\ decoder[s].deltas \in Seq(DeltasOf(s))
  /\ \A y \in Symbols : outDropped[ShardOf[y]] \/ Tells(y, Ahead(ShardOf[y]), sink[y], books[y])

\* PubInv of the next state.
NextDeltas(s) == out'[s] \in Seq(DeltasOf(s)) /\ decoder'[s].deltas \in Seq(DeltasOf(s))
NextTells(y) == outDropped'[ShardOf[y]] \/ Tells(y, Ahead(ShardOf[y])', sink'[y], books'[y])
NextPubOK ==
  /\ DOMAIN sink' = Symbols /\ DOMAIN out' = Shards /\ outDropped' \in [Shards -> BOOLEAN]
  /\ \A s \in Shards : NextDeltas(s)
  /\ \A y \in Symbols : NextTells(y)

\* It is that.
LEMMA PubInvNext ==
  ASSUME NextPubOK
  PROVE  PubInv'
<1>1. \A y \in Symbols : outDropped'[ShardOf[y]] \/ Tells(y, Ahead(ShardOf[y]), sink[y], books[y])'
  BY Zenon DEF NextPubOK, NextTells
<1>2. \A s \in Shards : out'[s] \in Seq(DeltasOf(s))' /\ decoder'[s].deltas \in Seq(DeltasOf(s))'
  BY Zenon DEF NextPubOK, NextDeltas
<1> QED BY <1>1, <1>2, Zenon DEF NextPubOK, PubInv

\* A symbol that a step does not concern keeps what is told of it.
LEMMA SameTells ==
  ASSUME PubInv, NEW y \in Symbols, NEW s, s = ShardOf[y], out'[s] = out[s],
         decoder'[s].deltas = decoder[s].deltas, outDropped'[s] = outDropped[s],
         sink'[y] = sink[y], books'[y] = books[y]
  PROVE  NextTells(y)
<1>1. Ahead(s)' = Ahead(s)
  BY Zenon DEF Ahead
<1> QED BY <1>1, Zenon DEF PubInv, NextTells

\* A decoder that applies a message has the deltas that tell of it ahead,
LEMMA ProcessPub ==
  ASSUME FeedInv, HomeInv, BooksInv, DecoderInv, PubInv, ProcessStep
  PROVE  NextPubOK
<1>1. PICK s \in Shards : ProcessMessage(s) /\ Popped(s) /\ Head(queue[s]) = Head(OnTheWay(s))
  BY Zenon DEF ProcessStep
<1>2. PICK qm \in Items :
        /\ ItemOK(qm, s) /\ qm = Head(queue[s]) /\ qm.symbol \in Symbols /\ qm.msg \in Messages
        /\ books' = [books EXCEPT ![qm.symbol] = Apply(books[qm.symbol], qm.msg).book]
  BY <1>1, ProcessedItem, Zenon
<1>3. PICK y \in Symbols, m \in Messages : y = qm.symbol /\ m = qm.msg
  BY <1>2, Zenon
<1>4. PICK r, more : r = Apply(books[y], m) /\ more = Labelled(y, r.deltas)
  BY Zenon
<1>5. /\ books' = [books EXCEPT ![y] = r.book] /\ ShardOf[y] = s
      /\ out' = out /\ sink' = sink /\ outDropped' = outDropped
  BY <1>1, <1>2, <1>3, <1>4, Zenon DEF ItemOK, ProcessMessage
<1>6. decoder[s].deltas = <<>>
  <2>1. decoder[s] = Idle
    BY <1>1, Zenon DEF ProcessMessage
  <2> QED BY <2>1, SMTT(20) DEF Idle
<1>7. /\ decoder'[s].deltas = more
      /\ \A t \in Shards : t # s => decoder'[t] = decoder[t]
  <2>1. \E e : decoder' = [decoder EXCEPT ![s] = [erase |-> e, deltas |-> more]]
    BY <1>1, <1>2, <1>3, <1>4, Zenon DEF ProcessMessage
  <2> QED BY <2>1 DEF DecoderInv
<1>8. BookOK(books[y]) /\ DeltasTell(r.deltas, books[y], r.book)
  BY <1>4, GoodBook, Zenon DEF BooksInv, GoodOutcome
<1>9. /\ more \in Seq(DeltasOf(s)) /\ Len(more) = Len(r.deltas)
      /\ \A k \in 1 .. Len(more) : more[k].symbol = y
      /\ \A at : ~Named(more, y, at) => LevelFor(r.book, at).total = LevelFor(books[y], at).total
      /\ \A k \in 1 .. Len(more) : LastNamed(more, k) =>
           more[k].total = LevelFor(r.book, more[k].at).total
  <2>1. LabelledTell(more, s, y, books[y], r.book) /\ Len(more) = Len(r.deltas)
    <3>1. ShardOf[y] = s /\ more = Labelled(y, r.deltas) /\ DeltasTell(r.deltas, books[y], r.book)
      BY <1>4, <1>5, <1>8, Zenon
    <3> QED BY <3>1, LabelledDeltas, SMTT(20)
  <2> QED BY <2>1, Zenon DEF LabelledTell
<1>11. Ahead(s) = out[s] /\ Ahead(s)' = out[s] \o more /\ out[s] \in Seq(DeltasOf(s))
  BY <1>5, <1>6, <1>7, ConcatEmptySeq, Zenon DEF Ahead, PubInv
<1>12. ASSUME NEW z \in Symbols PROVE NextTells(z)
  <2>1. CASE z = y
    <3>1. outDropped[s] \/ Tells(y, out[s], sink[y], books[y])
      BY <1>5, <1>11, Zenon DEF PubInv
    <3>2. outDropped[s] \/ Tells(y, out[s] \o more, sink[y], r.book)
      BY <3>1, <1>9, <1>11, TellsMore, Zenon
    <3>3. books'[y] = r.book
      BY <1>5, Zenon DEF HomeInv
    <3> QED BY <2>1, <3>2, <3>3, <1>5, <1>11, Zenon DEF NextTells
  <2>2. CASE z # y /\ ShardOf[z] = s
    <3>1. outDropped[s] \/ Tells(z, out[s], sink[z], books[z])
      BY <2>2, <1>11, Zenon DEF PubInv
    <3>2. \A k \in 1 .. Len(more) : more[k].symbol # z
      BY <2>2, <1>9, Zenon
    <3>3. outDropped[s] \/ Tells(z, out[s] \o more, sink[z], books[z])
      BY <3>1, <3>2, <1>9, <1>11, TellsMore, Zenon
    <3>4. books'[z] = books[z]
      BY <2>2, <1>5, Zenon DEF HomeInv
    <3> QED BY <2>2, <3>3, <3>4, <1>5, <1>11, Zenon DEF NextTells
  <2>3. CASE ShardOf[z] # s
    <3>1. books'[z] = books[z] /\ decoder'[ShardOf[z]] = decoder[ShardOf[z]]
      BY <2>3, <1>5, <1>7, RoutingAssumption, Zenon DEF HomeInv
    <3> QED BY <3>1, <1>5, SameTells, Zenon
  <2> QED BY <2>1, <2>2, <2>3, Zenon
<1>13. ASSUME NEW t \in Shards PROVE NextDeltas(t)
  BY <1>5, <1>7, <1>9, Zenon DEF PubInv, NextDeltas
<1> QED BY <1>5, <1>12, <1>13, Zenon DEF NextPubOK, PubInv

\* one that pushes a delta moves it, or evicts one,
LEMMA PushPub ==
  ASSUME FeedInv, DecoderInv, PubInv, QuietStep, NEW s \in Shards, PushDelta(s)
  PROVE  NextPubOK
<1>1. PICK q, d : q = out[s] /\ d = decoder[s].deltas
  OBVIOUS
<1>2. /\ q \in Seq(DeltasOf(s)) /\ d \in Seq(DeltasOf(s)) /\ d # <<>>
      /\ Len(q) \in Nat /\ Head(d) \in DeltasOf(s) /\ Tail(d) \in Seq(DeltasOf(s))
  BY <1>1 DEF PushDelta, PubInv
<1>3. /\ decoder'[s].deltas = Tail(d)
      /\ \A t \in Shards : t # s => decoder'[t].deltas = decoder[t].deltas
  <2>1. decoder' = [decoder EXCEPT ![s].deltas = Tail(d)]
    BY <1>1 DEF PushDelta
  <2> QED BY <2>1, Zenon DEF DecoderInv
<1>4. /\ sink' = sink /\ books' = books /\ DOMAIN out' = Shards
      /\ outDropped' = [outDropped EXCEPT ![s] = outDropped[s] \/ Len(q) = OutCapacity]
      /\ out'[s] = Append(IF Len(q) = OutCapacity THEN Tail(q) ELSE q, Head(d))
      /\ \A t \in Shards : t # s => out'[t] = out[t]
  BY <1>1, Zenon DEF PushDelta, PubInv, shardVars
<1>5. /\ outDropped' \in [Shards -> BOOLEAN]
      /\ outDropped'[s] = (outDropped[s] \/ Len(q) = OutCapacity)
      /\ \A t \in Shards : t # s => outDropped'[t] = outDropped[t]
  BY <1>4, Zenon DEF PubInv
<1>6. ASSUME NEW t \in Shards PROVE NextDeltas(t)
  <2>1. CASE t = s
    <3>1. CASE Len(q) = OutCapacity
      <4>1. Tail(q) \in Seq(DeltasOf(s))
        BY <1>2, <3>1, QueueAssumption, SMTT(20)
      <4> QED BY <4>1, <3>1, <2>1, <1>2, <1>3, <1>4, SMTT(20) DEF NextDeltas
    <3>2. CASE Len(q) # OutCapacity
      BY <3>2, <2>1, <1>2, <1>3, <1>4, SMTT(20) DEF NextDeltas
    <3> QED BY <3>1, <3>2, SMTT(20)
  <2>2. CASE t # s
    BY <2>2, <1>3, <1>4, Zenon DEF NextDeltas, PubInv
  <2> QED BY <2>1, <2>2, Zenon
<1>7. ASSUME NEW y \in Symbols PROVE NextTells(y)
  <2>1. CASE ShardOf[y] # s
    BY <2>1, <1>3, <1>4, <1>5, SameTells, RoutingAssumption, Zenon
  <2>2. CASE ShardOf[y] = s /\ Len(q) = OutCapacity
    BY <2>2, <1>5, Zenon DEF NextTells
  <2>3. CASE ShardOf[y] = s /\ Len(q) # OutCapacity
    <3>1. Ahead(s)' = Append(q, Head(d)) \o Tail(d) /\ Ahead(s) = q \o d
      BY <2>3, <1>1, <1>3, <1>4, Zenon DEF Ahead
    <3>2. Ahead(s)' = Ahead(s)
      BY <3>1, <1>2, DeltaMoves, Zenon
    <3>3. outDropped[s] \/ Tells(y, Ahead(s), sink[y], books[y])
      BY <2>3, Zenon DEF PubInv
    <3> QED BY <2>3, <3>2, <3>3, <1>4, <1>5, Zenon DEF NextTells
  <2> QED BY <2>1, <2>2, <2>3, Zenon
<1> QED BY <1>4, <1>5, <1>6, <1>7, Zenon DEF NextPubOK, PubInv

\* and a publisher hands the first one over.
LEMMA PublisherPub ==
  ASSUME FeedInv, DecoderInv, PubInv, NEW s \in Shards, PublisherThread(s)
  PROVE  NextPubOK
<1>1. PICK q, d : q = out[s] /\ d = decoder[s].deltas
  BY Zenon
<1>2. /\ q \in Seq(DeltasOf(s)) /\ d \in Seq(DeltasOf(s)) /\ q # <<>>
      /\ Head(q) \in DeltasOf(s) /\ Tail(q) \in Seq(DeltasOf(s))
  <2>1. q \in Seq(DeltasOf(s)) /\ d \in Seq(DeltasOf(s))
    BY <1>1, Zenon DEF PubInv
  <2>2. q # <<>>
    BY <1>1, Zenon DEF PublisherThread
  <2> QED BY <2>1, <2>2, HeadTailProperties, Zenon
<1>3. PICK z \in Symbols : z = Head(q).symbol /\ ShardOf[z] = s
  BY <1>2, Zenon DEF DeltasOf
<1>4. /\ sink' = [sink EXCEPT ![z] = ApplyDelta(sink[z], Head(q))]
      /\ DOMAIN out' = Shards /\ out'[s] = Tail(q)
      /\ \A t \in Shards : t # s => out'[t] = out[t]
      /\ decoder' = decoder /\ books' = books /\ outDropped' = outDropped
  BY <1>1, <1>3, Zenon DEF PublisherThread, PubInv, shardVars
<1>5. ASSUME NEW t \in Shards PROVE NextDeltas(t)
  BY <1>1, <1>2, <1>4, Zenon DEF NextDeltas, PubInv
<1>6. /\ Ahead(s) = q \o d /\ Ahead(s)' = Tail(q) \o d
      /\ q \o d \in Seq(DeltasOf(s)) /\ q \o d # <<>>
      /\ Head(q \o d) = Head(q) /\ Tail(q \o d) = Tail(q) \o d
  <2>1. Ahead(s) = q \o d /\ Ahead(s)' = Tail(q) \o d
    BY <1>1, <1>4, Zenon DEF Ahead
  <2>2. q \o d \in Seq(DeltasOf(s)) /\ q \o d # <<>> /\ Head(q \o d) = Head(q) /\ Tail(q \o d) = Tail(q) \o d
    BY <1>2, FirstAhead, Zenon
  <2> QED BY <2>1, <2>2, Zenon
<1>7. ASSUME NEW y \in Symbols PROVE NextTells(y)
  <2>1. CASE ShardOf[y] # s
    <3>1. sink'[y] = sink[y]
      BY <2>1, <1>3, <1>4, Zenon DEF PubInv
    <3> QED BY <3>1, <2>1, <1>4, SameTells, RoutingAssumption, Zenon
  <2>2. CASE ShardOf[y] = s
    <3>1. sink'[y] = IF Head(q \o d).symbol = y
                     THEN ApplyDelta(sink[y], Head(q \o d)) ELSE sink[y]
      BY <1>3, <1>4, <1>6, Zenon DEF PubInv
    <3>2. outDropped[s] \/ Tells(y, q \o d, sink[y], books[y])
      BY <2>2, <1>6, Zenon DEF PubInv
    <3>3. outDropped[s] \/ Tells(y, Tail(q \o d), sink'[y], books[y])
      BY <3>1, <3>2, <1>6, TellsPublished, Zenon
    <3> QED BY <2>2, <3>3, <1>4, <1>6, Zenon DEF NextTells
  <2> QED BY <2>1, <2>2, Zenon
<1> QED BY <1>4, <1>5, <1>7, Zenon DEF NextPubOK, PubInv

\* PubInv is inductive,
LEMMA PubInvInductive ==
  FeedInv /\ HomeInv /\ BooksInv /\ DecoderInv /\ PubInv /\ [PipeNext]_pipeVars => PubInv'
<1> SUFFICES ASSUME FeedInv, HomeInv, BooksInv, DecoderInv, PubInv, [PipeNext]_pipeVars PROVE NextPubOK
  BY PubInvNext, Zenon
<1>1. CASE /\ out' = out /\ sink' = sink /\ books' = books /\ outDropped' = outDropped
           /\ \A t \in Shards : decoder'[t].deltas = decoder[t].deltas
  <2>1. \A y \in Symbols : NextTells(y)
    BY <1>1, SameTells, RoutingAssumption, Zenon
  <2>2. \A t \in Shards : NextDeltas(t)
    BY <1>1, Zenon DEF NextDeltas, PubInv
  <2> QED BY <1>1, <2>1, <2>2, Zenon DEF NextPubOK, PubInv
<1>2. CASE LoseStep \/ TakeStep \/ EvictStep
  BY <1>1, <1>2, Zenon DEF LoseStep, TakeStep, Sent, EvictStep, shardVars
<1>3. CASE EraseStep
  <2>1. PICK s \in Shards : EraseRoute(s)
    BY <1>3, Zenon DEF EraseStep
  <2>2. \A t \in Shards : decoder'[t].deltas = decoder[t].deltas
    BY <2>1, Zenon DEF EraseRoute, DecoderInv
  <2> QED BY <1>1, <2>1, <2>2 DEF EraseRoute, shardVars
<1>4. CASE QuietStep /\ DeltaStep
  <2>1. CASE UNCHANGED <<decoder, out, sink, outDropped>>
    BY <1>1, <1>4, <2>1, Zenon DEF QuietStep, shardVars
  <2> QED BY <1>4, <2>1, PushPub, PublisherPub, Zenon DEF DeltaStep
<1> QED BY <1>2, <1>3, <1>4, PipeStep, ProcessPub, Zenon

\* and holds at first.
LEMMA PubInvInit == PipeInit => PubInv
<1> SUFFICES ASSUME PipeInit PROVE PubInv
  OBVIOUS
<1>1. \A s \in Shards : out[s] = <<>> /\ decoder[s].deltas = <<>>
  BY DEF PipeInit, Idle
<1>2. \A s \in Shards : out[s] \in Seq(DeltasOf(s)) /\ decoder[s].deltas \in Seq(DeltasOf(s))
  <2>1. \A s : <<>> \in Seq(DeltasOf(s))
    BY SMTT(20)
  <2> QED BY <1>1, <2>1, Zenon
<1>3. ASSUME NEW y \in Symbols PROVE Tells(y, Ahead(ShardOf[y]), sink[y], books[y])
  <2>1. Ahead(ShardOf[y]) = <<>> \o <<>>
    BY <1>1, RoutingAssumption, Zenon DEF Ahead
  <2>2. Len(Ahead(ShardOf[y])) = 0
    BY <2>1
  <2>3. DOMAIN sink[y] = {} /\ DOMAIN books[y].levels = {}
    BY DEF PipeInit, EmptyBook
  <2>4. \A at : RightAbout(sink[y], books[y], at)
    BY <2>3 DEF RightAbout, LevelFor
  <2> QED BY <2>2, <2>4 DEF Tells
<1>4. DOMAIN sink = Symbols /\ DOMAIN out = Shards /\ outDropped \in [Shards -> BOOLEAN]
  BY DEF PipeInit
<1> QED BY <1>2, <1>3, <1>4, Zenon DEF PubInv

\* Unless an output queue evicted a delta, a subscriber that is handed what is
\* in it and in process_shard()'s hands knows every level of every book.
THEOREM PublishedIsEnough == PipeSpec => []PublishedRebuildsBooks
<1>1. PipeInit => FeedInv /\ HomeInv /\ BooksInv /\ DecoderInv /\ PubInv
  BY FeedInvInit, HomeInvInit, BooksInvInit, DecoderInvInit, PubInvInit, Zenon
<1>2. FeedInv /\ HomeInv /\ BooksInv /\ DecoderInv /\ PubInv /\ [PipeNext]_pipeVars
        => FeedInv' /\ HomeInv' /\ BooksInv' /\ DecoderInv' /\ PubInv'
  BY FeedInvInductive, HomeInvInductive, BooksInvInductive, DecoderInvInductive, PubInvInductive, Zenon
<1>3. PubInv => PublishedRebuildsBooks
  <2> SUFFICES ASSUME PubInv, NEW y \in Symbols
               PROVE  LET s     == ShardOf[y]
                          ahead == out[s] \o decoder[s].deltas
                          About(k, at) == ahead[k].symbol = y /\ ahead[k].at = at
                      IN  outDropped[s] \/
                          /\ \A k \in 1 .. Len(ahead) :
                               /\ ahead[k].symbol = y
                               /\ \A j \in k + 1 .. Len(ahead) : ~About(j, ahead[k].at)
                               => ahead[k].total = LevelFor(books[y], ahead[k].at).total
                          /\ \A at \in DOMAIN sink[y] \cup DOMAIN books[y].levels :
                               (\A k \in 1 .. Len(ahead) : ~About(k, at)) => RightAbout(sink[y], books[y], at)
    BY ZenonT(30) DEF PublishedRebuildsBooks
  <2> DEFINE s == ShardOf[y]
             ahead == out[s] \o decoder[s].deltas
             About(k, at) == ahead[k].symbol = y /\ ahead[k].at = at
  <2> SUFFICES ASSUME ~outDropped[s]
               PROVE  /\ \A k \in 1 .. Len(ahead) :
                           /\ ahead[k].symbol = y
                           /\ \A j \in k + 1 .. Len(ahead) : ~About(j, ahead[k].at)
                           => ahead[k].total = LevelFor(books[y], ahead[k].at).total
                      /\ \A at \in DOMAIN sink[y] \cup DOMAIN books[y].levels :
                           (\A k \in 1 .. Len(ahead) : ~About(k, at)) => RightAbout(sink[y], books[y], at)
    BY Zenon
  <2>1. Tells(y, ahead, sink[y], books[y])
    BY DEF PubInv, Ahead
  <2>2. Len(ahead) \in Nat
    <3>1. out[s] \in Seq(DeltasOf(s)) /\ decoder[s].deltas \in Seq(DeltasOf(s))
      BY RoutingAssumption, Zenon DEF PubInv
    <3>2. PICK q \in Seq(DeltasOf(s)), d \in Seq(DeltasOf(s)) : q = out[s] /\ d = decoder[s].deltas
      BY <3>1, Zenon
    <3>3. Len(q \o d) \in Nat
      BY ConcatProperties, SMTT(20)
    <3> QED BY <3>2, <3>3, Zenon
  <2> HIDE DEF ahead
  <2>3. ASSUME NEW k \in 1 .. Len(ahead), ahead[k].symbol = y,
               \A j \in k + 1 .. Len(ahead) : ~About(j, ahead[k].at)
        PROVE  ahead[k].total = LevelFor(books[y], ahead[k].at).total
    <3>1. \A j \in 1 .. Len(ahead) : j > k => j \in k + 1 .. Len(ahead)
      BY <2>2, SMTT(20)
    <3>2. LastNamed(ahead, k)
      BY <2>3, <3>1, Zenon DEF LastNamed
    <3> QED BY <2>1, <2>3, <3>2, Zenon DEF Tells
  <2>4. ASSUME NEW at \in DOMAIN sink[y] \cup DOMAIN books[y].levels,
               \A k \in 1 .. Len(ahead) : ~About(k, at)
        PROVE  RightAbout(sink[y], books[y], at)
    BY <2>1, <2>4, Zenon DEF Tells, Named
  <2> QED BY <2>3, <2>4, Zenon
<1> QED BY <1>1, <1>2, <1>3, PTL DEF PipeSpec
=============================================================================
