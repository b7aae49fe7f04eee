------------------------ MODULE ShardedPipelineProofs ------------------------
(***************************************************************************)
(* ShardedPipeline's safety properties for any symbols, shards, routing    *)
(* hash, queue capacities and number of messages, lost or not: orders stay *)
(* with their symbol, the books follow the exchange's, every sequence      *)
(* number is accounted for and a LIVE shard is complete.                   *)
(***************************************************************************)
EXTENDS ShardedPipeline, TLAPS, SequenceTheorems

-----------------------------------------------------------------------------
(***************************************************************************)
(* What the variables hold.                                                *)
(***************************************************************************)
Messages ==
  [type : {"Add"}, seq : Nat, id : Nat, symbol : Symbols, side : {"Buy", "Sell"}, price : Int, qty : Nat]
  \cup [type : {"Cancel"}, seq : Nat, id : Nat]
  \cup [type : {"Execute"}, seq : Nat, id : Nat, qty : Nat]
  \cup [type : {"Replace"}, seq : Nat, id : Nat, new : Nat, price : Int, qty : Nat]

Items == [type : {"push"}, shard : Shards, symbol : Symbols, msg : Messages]

\* The order a message makes, if any, and the one it ends.
Makes(m, id) == (m.type = "Add" /\ m.id = id) \/ (m.type = "Replace" /\ m.new = id)
Ends(m, id) == m.type \in {"Cancel", "Replace"} /\ m.id = id

\* An item is on the way to the book of the symbol its orders were added for.
ItemOK(qm, s) ==
  /\ qm.shard = s /\ ShardOf[qm.symbol] = s
  /\ qm.msg.id \in 1 .. nextId - 1 /\ home[qm.msg.id] = qm.symbol
  /\ qm.msg.type = "Replace" => qm.msg.new \in 1 .. nextId - 1 /\ home[qm.msg.new] = qm.symbol

\* The feed's ids, the routing table and the messages on the way agree on the
\* symbol of every order.
FeedInv ==
  /\ nextId \in Nat \ {0}
  /\ nextSeq \in [Shards -> Nat]
  /\ home \in [1 .. nextId - 1 -> Symbols]
  /\ \A y \in Symbols : \A id \in resting[y] : id \in 1 .. nextId - 1 /\ home[id] = y
  /\ \A id \in DOMAIN route :
       id \in 1 .. nextId - 1 /\ route[id] = [shard |-> ShardOf[home[id]], symbol |-> home[id]]
  /\ resting \in [Symbols -> SUBSET Nat]
  /\ missed \in [Shards -> SUBSET Messages]
  /\ queue \in [Shards -> Seq(Items)]
  /\ hand \in Items \cup {Nothing}
  /\ hand # Nothing => ItemOK(hand, hand.shard)
  /\ \A s \in Shards : \A k \in 1 .. Len(queue[s]) : ItemOK(queue[s][k], s)

-----------------------------------------------------------------------------
(***************************************************************************)
(* The feed's four actions as one: it sends a message, which is missed or  *)
(* taken in hand.                                                          *)
(***************************************************************************)

\* The message's order is new, or one that rests.
Sent(y, m) ==
  /\ m \in Messages /\ m.seq = NextSeq(y)
  /\ IF m.type = "Add"
       THEN m.id = nextId /\ m.symbol = y
       ELSE m.id \in resting[y]
  /\ m.type = "Replace" => m.new = nextId
  /\ IF m.type \in {"Add", "Replace"}
       THEN nextId' = nextId + 1 /\ home' = Put(home, nextId, y)
       ELSE nextId' = nextId /\ home' = home
  /\ \E r \in SUBSET (resting[y] \cup {nextId}) :
       /\ nextId \in r => nextId' = nextId + 1
       /\ resting' = [resting EXCEPT ![y] = r]
  /\ hand = Nothing
  /\ nextSeq' = [nextSeq EXCEPT ![ShardOf[y]] = @ + 1]
  /\ exchange' = [exchange EXCEPT ![y] = Apply(@, m).book]
  /\ UNCHANGED <<queue, out, detector, books, seen, decoder, sink, outDropped>>

\* Lost in transit or unroutable.
NotTaken(y, m) ==
  /\ missed' = [missed EXCEPT ![ShardOf[y]] = @ \cup {m}]
  /\ route' = route /\ hand' = hand

\* Routed: the entry of an ended order goes, a new order's is made.
Taken(y, m) ==
  /\ hand' = [type |-> "push", shard |-> ShardOf[y], symbol |-> y, msg |-> m]
  /\ missed' = missed
  /\ \A id \in DOMAIN route' :
       route'[id] = IF Makes(m, id) THEN [shard |-> ShardOf[y], symbol |-> y] ELSE route[id]
  /\ \A id : id \in DOMAIN route' <=> Makes(m, id) \/ (id \in DOMAIN route /\ ~Ends(m, id))

\* A message has one of the four types.
LEMMA MessageTypes ==
  ASSUME NEW m \in Messages
  PROVE  /\ m.type \in {"Add", "Cancel", "Execute", "Replace"} /\ m.seq \in Nat /\ m.id \in Nat
         /\ m.type = "Replace" => m.new \in Nat
BY DEF Messages

\* next() either loses the message or has demux() route it; demux() finds an
\* existing order's route as that of the symbol it was added for.
LEMMA EmitOutcome ==
  ASSUME FeedInv, NEW y \in Symbols, NEW m \in Messages, Emit(y, m),
         IF m.type = "Add" THEN m.symbol = y ELSE m.id \in resting[y]
  PROVE  NotTaken(y, m) \/ Taken(y, m)
<1>1. CASE LoseInTransit(m, ShardOf[y])
  BY <1>1 DEF LoseInTransit, NotTaken
<1>2. CASE Demux(m, ShardOf[y])
  <2>1. CASE m.type = "Add"
    <3>1. /\ route' = Put(route, m.id, [shard |-> ShardOf[y], symbol |-> y])
          /\ hand' = [type |-> "push", shard |-> ShardOf[y], symbol |-> y, msg |-> m]
          /\ missed' = missed
      BY <1>2, <2>1 DEF Demux, RouteAdd, InHand
    <3>2. \A id : (Makes(m, id) <=> id = m.id) /\ ~Ends(m, id)
      BY <2>1 DEF Makes, Ends
    <3>3. /\ DOMAIN route' = DOMAIN route \cup {m.id}
          /\ route'[m.id] = [shard |-> ShardOf[y], symbol |-> y]
          /\ \A id \in DOMAIN route : id # m.id => route'[id] = route[id]
      BY <3>1 DEF Put
    <3> QED BY <3>1, <3>2, <3>3 DEF Taken
  <2>2. CASE m.type # "Add" /\ m.id \notin DOMAIN route
    BY <1>2, <2>2 DEF Demux, RouteExisting, Unroutable, NotTaken
  <2>3. CASE m.type # "Add" /\ m.id \in DOMAIN route
    <3>0. route[m.id] = [shard |-> ShardOf[y], symbol |-> y]
      <4>1. home[m.id] = y
        BY <2>3 DEF FeedInv
      <4> QED BY <4>1, <2>3 DEF FeedInv
    <3>1. /\ route' = RouteAfter(m)
          /\ hand' = [type |-> "push", shard |-> ShardOf[y], symbol |-> y, msg |-> m]
          /\ missed' = missed
      BY <1>2, <2>3, <3>0 DEF Demux, RouteExisting, InHand
    <3>2. CASE m.type = "Cancel"
      <4>1. \A id : ~Makes(m, id) /\ (Ends(m, id) <=> id = m.id)
        BY <3>2 DEF Makes, Ends
      <4>2. /\ DOMAIN route' = DOMAIN route \ {m.id}
            /\ \A id \in DOMAIN route' : route'[id] = route[id]
        BY <3>1, <3>2 DEF RouteAfter, Erase, Restrict
      <4> QED BY <3>1, <4>1, <4>2 DEF Taken
    <3>3. CASE m.type = "Execute"
      <4>1. \A id : ~Makes(m, id) /\ ~Ends(m, id)
        BY <3>3 DEF Makes, Ends
      <4>2. route' = route
        BY <3>1, <3>3 DEF RouteAfter
      <4> QED BY <3>1, <4>1, <4>2 DEF Taken
    <3>4. CASE m.type = "Replace"
      <4>1. \A id : (Makes(m, id) <=> id = m.new) /\ (Ends(m, id) <=> id = m.id)
        BY <3>4 DEF Makes, Ends
      <4>2. route' = Put(Erase(route, m.id), m.new, [shard |-> ShardOf[y], symbol |-> y])
        BY <3>0, <3>1, <3>4 DEF RouteAfter
      <4>3. /\ DOMAIN Erase(route, m.id) = DOMAIN route \ {m.id}
            /\ \A id \in DOMAIN route \ {m.id} : Erase(route, m.id)[id] = route[id]
        BY DEF Erase, Restrict
      <4>4. /\ DOMAIN route' = (DOMAIN route \ {m.id}) \cup {m.new}
            /\ route'[m.new] = [shard |-> ShardOf[y], symbol |-> y]
            /\ \A id \in DOMAIN route \ {m.id} : id # m.new => route'[id] = route[id]
        BY <4>2, <4>3 DEF Put
      <4> QED BY <3>1, <4>1, <4>4 DEF Taken
    <3> QED BY <2>3, <3>2, <3>3, <3>4, MessageTypes
  <2> QED BY <2>1, <2>2, <2>3
<1> QED BY <1>1, <1>2 DEF Emit

\* What the feed computes from an order id is well-formed.
LEMMA FeedValues ==
  ASSUME NEW id \in Nat
  PROVE  /\ SideOf(id) \in {"Buy", "Sell"} /\ PriceOf(id) \in Int
         /\ QuantityOf(id) \in Nat /\ ExecutedOf(id) \in Nat
BY DEF SideOf, PriceOf, QuantityOf, ExecutedOf

\* Every step of the network thread sends a message or pushes the one in hand.
LEMMA NetworkStep ==
  ASSUME FeedInv, NetworkThread
  PROVE  Enqueue \/ \E y \in Symbols : \E m : Sent(y, m) /\ (NotTaken(y, m) \/ Taken(y, m))
<1>0. ASSUME NEW y \in Symbols PROVE NextSeq(y) \in Nat
  BY RoutingAssumption DEF FeedInv, NextSeq
<1>1. ASSUME NEW y \in Symbols, FeedAdd(y)
      PROVE  \E m : Sent(y, m) /\ (NotTaken(y, m) \/ Taken(y, m))
  <2> DEFINE m == [type |-> "Add", seq |-> NextSeq(y), id |-> nextId, symbol |-> y,
                   side |-> SideOf(nextId), price |-> PriceOf(nextId), qty |-> QuantityOf(nextId)]
  <2>1. m \in Messages
    BY <1>0, FeedValues DEF Messages, FeedInv
  <2>2. m.type = "Add" /\ m.seq = NextSeq(y) /\ m.id = nextId /\ m.symbol = y
    OBVIOUS
  <2>3. Emit(y, m)
    BY <1>1 DEF FeedAdd
  <2>4. /\ nextId' = nextId + 1 /\ home' = Put(home, nextId, y)
        /\ resting' = [resting EXCEPT ![y] = @ \cup {nextId}]
    BY <1>1 DEF FeedAdd
  <2> HIDE DEF m
  <2>5. Sent(y, m)
    <3>1. resting[y] \cup {nextId} \in SUBSET (resting[y] \cup {nextId})
      OBVIOUS
    <3> QED BY <2>1, <2>2, <2>3, <2>4, <3>1, Zenon DEF Sent, Emit, shardVars
  <2> QED BY <2>1, <2>2, <2>3, <2>5, EmitOutcome
<1>2. ASSUME NEW y \in Symbols, NEW id \in resting[y], FeedCancel(y, id)
      PROVE  \E m : Sent(y, m) /\ (NotTaken(y, m) \/ Taken(y, m))
  <2> DEFINE m == [type |-> "Cancel", seq |-> NextSeq(y), id |-> id]
  <2>1. m \in Messages
    BY <1>0 DEF Messages, FeedInv
  <2>2. m.type = "Cancel" /\ m.seq = NextSeq(y) /\ m.id = id
    OBVIOUS
  <2>3. Emit(y, m)
    BY <1>2 DEF FeedCancel
  <2>4. nextId' = nextId /\ home' = home /\ resting' = [resting EXCEPT ![y] = @ \ {id}]
    BY <1>2 DEF FeedCancel
  <2> HIDE DEF m
  <2>5. Sent(y, m)
    <3>1. resting[y] \ {id} \in SUBSET (resting[y] \cup {nextId})
      OBVIOUS
    <3>2. nextId \notin resting[y] \ {id}
      BY DEF FeedInv
    <3> QED BY <2>1, <2>2, <2>3, <2>4, <3>1, <3>2, Zenon DEF Sent, Emit, shardVars
  <2> QED BY <2>1, <2>2, <2>3, <2>5, EmitOutcome
<1>3. ASSUME NEW y \in Symbols, NEW id \in resting[y], FeedExecute(y, id)
      PROVE  \E m : Sent(y, m) /\ (NotTaken(y, m) \/ Taken(y, m))
  <2> DEFINE m == [type |-> "Execute", seq |-> NextSeq(y), id |-> id, qty |-> ExecutedOf(id)]
  <2>0. id \in Nat
    BY DEF FeedInv
  <2>1. m \in Messages
    BY <1>0, <2>0, FeedValues DEF Messages
  <2>2. m.type = "Execute" /\ m.seq = NextSeq(y) /\ m.id = id
    OBVIOUS
  <2>3. Emit(y, m)
    BY <1>3 DEF FeedExecute
  <2>4. nextId' = nextId /\ home' = home /\ resting' = resting
    BY <1>3 DEF FeedExecute
  <2> HIDE DEF m
  <2>5. Sent(y, m)
    <3>1. resting[y] \in SUBSET (resting[y] \cup {nextId}) /\ nextId \notin resting[y]
      BY DEF FeedInv
    <3>2. resting' = [resting EXCEPT ![y] = resting[y]]
      BY <2>4 DEF FeedInv
    <3> QED BY <2>1, <2>2, <2>3, <2>4, <3>1, <3>2, Zenon DEF Sent, Emit, shardVars
  <2> QED BY <2>1, <2>2, <2>3, <2>5, EmitOutcome
<1>4. ASSUME NEW y \in Symbols, NEW id \in resting[y], FeedReplace(y, id)
      PROVE  \E m : Sent(y, m) /\ (NotTaken(y, m) \/ Taken(y, m))
  <2> DEFINE m == [type |-> "Replace", seq |-> NextSeq(y), id |-> id, new |-> nextId,
                   price |-> PriceOf(nextId), qty |-> QuantityOf(nextId)]
  <2>0. id \in Nat
    BY DEF FeedInv
  <2>1. m \in Messages
    BY <1>0, <2>0, FeedValues, Zenon DEF Messages, FeedInv
  <2>2. m.type = "Replace" /\ m.seq = NextSeq(y) /\ m.id = id /\ m.new = nextId
    OBVIOUS
  <2>3. Emit(y, m)
    BY <1>4 DEF FeedReplace
  <2>4. /\ nextId' = nextId + 1 /\ home' = Put(home, nextId, y)
        /\ resting' = [resting EXCEPT ![y] = (@ \ {id}) \cup {nextId}]
    BY <1>4 DEF FeedReplace
  <2> HIDE DEF m
  <2>5. Sent(y, m)
    <3>1. (resting[y] \ {id}) \cup {nextId} \in SUBSET (resting[y] \cup {nextId})
      OBVIOUS
    <3> QED BY <2>1, <2>2, <2>3, <2>4, <3>1, Zenon DEF Sent, Emit, shardVars
  <2> QED BY <2>1, <2>2, <2>3, <2>5, EmitOutcome
<1> QED BY <1>1, <1>2, <1>3, <1>4 DEF NetworkThread

-----------------------------------------------------------------------------
(***************************************************************************)
(* The messages on the way to a shard, step by step.                       *)
(***************************************************************************)
WaysKept == \A s \in Shards : OnTheWay(s)' = OnTheWay(s)

Popped(t) ==
  /\ OnTheWay(t) # <<>> /\ OnTheWay(t)' = Tail(OnTheWay(t))
  /\ \A s \in Shards \ {t} : OnTheWay(s)' = OnTheWay(s)

Pushed(t, qm) ==
  /\ OnTheWay(t)' = Append(OnTheWay(t), qm)
  /\ \A s \in Shards \ {t} : OnTheWay(s)' = OnTheWay(s)

ItemOf(y, m) == [type |-> "push", shard |-> ShardOf[y], symbol |-> y, msg |-> m]

\* What is on the way are well-formed items.
LEMMA WayTyped ==
  ASSUME FeedInv, NEW s \in Shards
  PROVE  /\ OnTheWay(s) \in Seq(Items)
         /\ \A k \in 1 .. Len(OnTheWay(s)) : ItemOK(OnTheWay(s)[k], s)
<1>1. queue[s] \in Seq(Items) /\ \A k \in 1 .. Len(queue[s]) : ItemOK(queue[s][k], s)
  BY DEF FeedInv
<1>2. CASE hand # Nothing /\ hand.shard = s
  <2>1. hand \in Items /\ ItemOK(hand, s)
    BY <1>2 DEF FeedInv
  <2>2. OnTheWay(s) = queue[s] \o <<hand>>
    BY <1>2 DEF OnTheWay
  <2> QED BY <1>1, <2>1, <2>2
<1>3. CASE ~(hand # Nothing /\ hand.shard = s)
  <2>1. OnTheWay(s) = queue[s]
    BY <1>1, <1>3, ConcatEmptySeq, Zenon DEF OnTheWay
  <2> QED BY <1>1, <2>1
<1> QED BY <1>2, <1>3

\* With nothing in hand the way is the queue.
LEMMA WayIsQueue ==
  ASSUME FeedInv, hand = Nothing, NEW s \in Shards
  PROVE  OnTheWay(s) = queue[s]
<1>1. queue[s] \in Seq(Items)
  BY DEF FeedInv
<1> QED BY <1>1, ConcatEmptySeq DEF OnTheWay

\* A message that is not taken leaves the ways alone,
LEMMA NotTakenWay ==
  ASSUME FeedInv, NEW y \in Symbols, NEW m, Sent(y, m), NotTaken(y, m)
  PROVE  WaysKept
BY DEF Sent, NotTaken, WaysKept, OnTheWay

\* one that is taken is the last on the way to its symbol's shard,
LEMMA TakenWay ==
  ASSUME FeedInv, NEW y \in Symbols, NEW m, Sent(y, m), Taken(y, m)
  PROVE  Pushed(ShardOf[y], ItemOf(y, m)) /\ ItemOf(y, m) \in Items
<1>1. /\ hand = Nothing /\ queue' = queue /\ hand' = ItemOf(y, m)
      /\ hand'.shard = ShardOf[y] /\ hand'.type = "push" /\ Nothing.type = "none"
  BY DEF Sent, Taken, ItemOf, Nothing
<1>2. hand' # Nothing
  BY <1>1
<1>3. ItemOf(y, m) \in Items /\ ShardOf[y] \in Shards
  BY RoutingAssumption DEF Sent, ItemOf, Items
<1>4. ASSUME NEW s \in Shards, s # ShardOf[y]
      PROVE  OnTheWay(s)' = OnTheWay(s)
  <2>1. OnTheWay(s)' = queue[s] \o <<>>
    BY <1>1, <1>4, Zenon DEF OnTheWay
  <2> QED BY <2>1, <1>1, Zenon DEF OnTheWay
<1>5. OnTheWay(ShardOf[y])' = Append(OnTheWay(ShardOf[y]), ItemOf(y, m))
  <2>1. OnTheWay(ShardOf[y])' = queue[ShardOf[y]] \o <<ItemOf(y, m)>>
    BY <1>1, <1>2, Zenon DEF OnTheWay
  <2>2. queue[ShardOf[y]] \in Seq(Items)
    BY <1>3 DEF FeedInv
  <2> QED BY <1>1, <1>3, <2>1, <2>2, WayIsQueue, AppendIsConcat, Zenon
<1> QED BY <1>3, <1>4, <1>5, Zenon DEF Pushed

\* Pushing what is in hand evicts the first message on a full way.
Evicted(t) ==
  /\ Popped(t)
  /\ missed' = [missed EXCEPT ![t] = @ \cup {Head(OnTheWay(t)).msg}]

\* demux()'s push either evicts or changes nothing of the ways.
LEMMA EnqueueWay ==
  ASSUME FeedInv, Enqueue
  PROVE  (missed' = missed /\ WaysKept) \/ \E t \in Shards : Evicted(t)
<1>0. PICK t \in Shards : t = hand.shard
  BY Zenon DEF FeedInv, Enqueue, Items
<1> DEFINE q == queue[t]
<1>1. /\ hand # Nothing /\ hand' = Nothing /\ hand \in Items /\ hand.shard = t
      /\ q \in Seq(Items) /\ queue \in [Shards -> Seq(Items)]
  BY <1>0 DEF FeedInv, Enqueue
<1>2. OnTheWay(t) = Append(q, hand)
  BY <1>1, AppendIsConcat DEF OnTheWay
<1>3. ASSUME NEW s \in Shards, s # t
      PROVE  OnTheWay(s)' = OnTheWay(s)
  <2>1. queue'[s] = queue[s]
    BY <1>1, <1>3 DEF Enqueue
  <2> QED BY <2>1, <1>1, <1>3 DEF OnTheWay
<1>4. CASE Len(q) # QueueCapacity
  <2>1. queue'[t] = Append(q, hand) /\ missed' = missed
    BY <1>1, <1>4 DEF Enqueue
  <2>2. OnTheWay(t)' = Append(q, hand)
    <3>1. Append(q, hand) \in Seq(Items)
      BY <1>1
    <3>2. OnTheWay(t)' = Append(q, hand) \o <<>>
      BY <1>1, <2>1 DEF OnTheWay
    <3> QED BY <3>1, <3>2, ConcatEmptySeq
  <2> QED BY <1>2, <1>3, <2>1, <2>2 DEF WaysKept
<1>5. CASE Len(q) = QueueCapacity
  <2>0. q # <<>> /\ Tail(q) \in Seq(Items)
    BY <1>1, <1>5, QueueAssumption
  <2>1. /\ queue'[t] = Append(Tail(q), hand)
        /\ missed' = [missed EXCEPT ![t] = @ \cup {Head(q).msg}]
    BY <1>1, <1>5 DEF Enqueue
  <2>2. OnTheWay(t)' = Append(Tail(q), hand)
    <3>1. Append(Tail(q), hand) \in Seq(Items)
      BY <1>1, <2>0
    <3>2. OnTheWay(t)' = Append(Tail(q), hand) \o <<>>
      BY <1>1, <2>1 DEF OnTheWay
    <3> QED BY <3>1, <3>2, ConcatEmptySeq
  <2>3. Head(Append(q, hand)) = Head(q) /\ Tail(Append(q, hand)) = Append(Tail(q), hand)
    BY <1>1, <2>0, HeadTailAppend
  <2>4. Append(q, hand) # <<>>
    BY <1>1, AppendProperties
  <2> HIDE DEF q
  <2>5. Evicted(t)
    BY <1>2, <1>3, <2>1, <2>2, <2>3, <2>4, Zenon DEF Evicted, Popped
  <2> QED BY <2>5, <1>1
<1> QED BY <1>4, <1>5, Zenon

\* The first message on a decoder's way is the one it pops.
LEMMA ProcessWay ==
  ASSUME FeedInv, NEW s \in Shards, ProcessMessage(s)
  PROVE  Popped(s) /\ Head(queue[s]) = Head(OnTheWay(s))
<1>1. /\ queue \in [Shards -> Seq(Items)] /\ queue[s] # <<>> /\ hand' = hand
      /\ queue'[s] = Tail(queue[s]) /\ \A t \in Shards \ {s} : queue'[t] = queue[t]
  BY DEF FeedInv, ProcessMessage
<1>2. \A t \in Shards \ {s} : OnTheWay(t)' = OnTheWay(t)
  BY <1>1, Zenon DEF OnTheWay
<1>3. CASE hand # Nothing /\ hand.shard = s
  <2>1. hand \in Items
    BY <1>3 DEF FeedInv
  <2>2. OnTheWay(s) = Append(queue[s], hand) /\ OnTheWay(s)' = Append(Tail(queue[s]), hand)
    <3>1. OnTheWay(s) = queue[s] \o <<hand>> /\ OnTheWay(s)' = Tail(queue[s]) \o <<hand>>
      BY <1>1, <1>3 DEF OnTheWay
    <3>2. queue[s] \in Seq(Items) /\ Tail(queue[s]) \in Seq(Items)
      BY <1>1
    <3> QED BY <2>1, <3>1, <3>2, AppendIsConcat
  <2>3. /\ Head(Append(queue[s], hand)) = Head(queue[s])
        /\ Tail(Append(queue[s], hand)) = Append(Tail(queue[s]), hand)
        /\ Append(queue[s], hand) # <<>>
    BY <1>1, <2>1, HeadTailAppend, AppendProperties
  <2> QED BY <1>2, <2>2, <2>3, Zenon DEF Popped
<1>4. CASE ~(hand # Nothing /\ hand.shard = s)
  <2>1. queue[s] \in Seq(Items) /\ Tail(queue[s]) \in Seq(Items)
    BY <1>1
  <2>2. OnTheWay(s) = queue[s] /\ OnTheWay(s)' = Tail(queue[s])
    BY <1>1, <1>4, <2>1, ConcatEmptySeq DEF OnTheWay
  <2> QED BY <1>1, <1>2, <2>2 DEF Popped
<1> QED BY <1>3, <1>4, Zenon

-----------------------------------------------------------------------------
(***************************************************************************)
(* The steps of the pipeline, as the properties see them.                  *)
(***************************************************************************)
LoseStep == \E y \in Symbols : \E m : Sent(y, m) /\ NotTaken(y, m) /\ WaysKept

TakeStep ==
  \E y \in Symbols : \E m :
    /\ Sent(y, m) /\ Taken(y, m)
    /\ Pushed(ShardOf[y], ItemOf(y, m)) /\ ItemOf(y, m) \in Items

\* What only the feed changes.
SameFeed == UNCHANGED <<nextId, nextSeq, resting, exchange, home>>

EvictStep ==
  /\ \E t \in Shards : Evicted(t)
  /\ SameFeed /\ UNCHANGED <<route, shardVars, decoder, out, sink, outDropped>>

ProcessStep ==
  \E s \in Shards : ProcessMessage(s) /\ Popped(s) /\ Head(queue[s]) = Head(OnTheWay(s))

EraseStep == \E s \in Shards : EraseRoute(s) /\ WaysKept

\* A push that evicts nothing, or a step of the deltas.
QuietStep == WaysKept /\ SameFeed /\ UNCHANGED <<route, shardVars, missed>>

DeltaStep ==
  \/ UNCHANGED <<decoder, out, sink, outDropped>>
  \/ \E s \in Shards : PushDelta(s) \/ PublisherThread(s)

\* These are all the steps.
LEMMA PipeStep ==
  ASSUME FeedInv, [PipeNext]_pipeVars
  PROVE  \/ LoseStep \/ TakeStep \/ EvictStep \/ ProcessStep \/ EraseStep
         \/ QuietStep /\ DeltaStep
<1>1. CASE NetworkThread
  <2>1. CASE Enqueue
    <3>1. SameFeed /\ UNCHANGED <<route, shardVars, decoder, out, sink, outDropped>>
      BY <2>1 DEF Enqueue, SameFeed, feedVars
    <3> QED BY <2>1, <3>1, EnqueueWay, Zenon DEF EvictStep, QuietStep, DeltaStep
  <2>2. ASSUME NEW y \in Symbols, NEW m, Sent(y, m), NotTaken(y, m) PROVE LoseStep
    BY <2>2, NotTakenWay, Zenon DEF LoseStep, Sent
  <2>3. ASSUME NEW y \in Symbols, NEW m, Sent(y, m), Taken(y, m) PROVE TakeStep
    BY <2>3, TakenWay DEF TakeStep
  <2> QED BY <1>1, <2>1, <2>2, <2>3, NetworkStep
<1>2. ASSUME NEW s \in Shards, ProcessMessage(s) PROVE ProcessStep
  BY <1>2, ProcessWay DEF ProcessStep
<1>3. ASSUME NEW s \in Shards, EraseRoute(s) PROVE EraseStep
  <2>1. WaysKept
    BY <1>3 DEF EraseRoute, WaysKept, OnTheWay
  <2> QED BY <1>3, <2>1 DEF EraseStep
<1>4. ASSUME NEW s \in Shards, PushDelta(s) \/ PublisherThread(s) PROVE QuietStep /\ DeltaStep
  <2>1. WaysKept
    BY <1>4, Zenon DEF PushDelta, PublisherThread, WaysKept, OnTheWay
  <2>2. SameFeed /\ UNCHANGED <<route, shardVars, missed>>
    BY <1>4 DEF PushDelta, PublisherThread, SameFeed, feedVars
  <2> QED BY <1>4, <2>1, <2>2 DEF QuietStep, DeltaStep
<1>5. CASE UNCHANGED pipeVars
  <2>1. WaysKept
    BY <1>5 DEF pipeVars, WaysKept, OnTheWay
  <2>2. SameFeed /\ UNCHANGED <<route, shardVars, missed>> /\ DeltaStep
    BY <1>5, Zenon DEF pipeVars, SameFeed, feedVars, DeltaStep
  <2> QED BY <2>1, <2>2 DEF QuietStep
<1> QED BY <1>1, <1>2, <1>3, <1>4, <1>5 DEF PipeNext, DecoderThread

-----------------------------------------------------------------------------
(***************************************************************************)
(* FeedInv is inductive.                                                   *)
(***************************************************************************)

\* The feed's ids and their symbols only grow.
LEMMA SentGrows ==
  ASSUME FeedInv, NEW y \in Symbols, NEW m, Sent(y, m)
  PROVE  /\ nextId' \in Nat \ {0} /\ nextId' >= nextId
         /\ home' \in [1 .. nextId' - 1 -> Symbols]
         /\ \A id \in 1 .. nextId - 1 : id \in 1 .. nextId' - 1 /\ home'[id] = home[id]
         /\ \A id : Makes(m, id) => id = nextId /\ id \in 1 .. nextId' - 1 /\ home'[id] = y
         /\ \A id : Ends(m, id) => id \in resting[y]
<1>0. m.type \in {"Add", "Cancel", "Execute", "Replace"}
  BY MessageTypes DEF Sent
<1>1. nextId \in Nat \ {0} /\ home \in [1 .. nextId - 1 -> Symbols] /\ DOMAIN home = 1 .. nextId - 1
  BY Zenon DEF FeedInv
<1>2. CASE m.type \in {"Add", "Replace"}
  <2>1. nextId' = nextId + 1 /\ home' = Put(home, nextId, y)
    BY <1>2 DEF Sent
  <2>2. (1 .. nextId - 1) \cup {nextId} = 1 .. nextId' - 1
    BY <1>1, <2>1
  <2>3. home' \in [1 .. nextId' - 1 -> Symbols] /\ home'[nextId] = y
    BY <1>1, <2>1, <2>2 DEF Put
  <2>4. \A id \in 1 .. nextId - 1 : id \in 1 .. nextId' - 1 /\ home'[id] = home[id]
    BY <1>1, <2>1, <2>2 DEF Put
  <2> QED BY <1>1, <1>2, <2>1, <2>3, <2>4 DEF Sent, Makes, Ends
<1>3. CASE m.type \notin {"Add", "Replace"}
  <2>1. nextId' = nextId /\ home' = home
    BY <1>3 DEF Sent
  <2>2. \A id : ~Makes(m, id)
    BY <1>3, Zenon DEF Makes
  <2>3. \A id : Ends(m, id) => id \in resting[y]
    BY <1>3 DEF Sent, Ends
  <2> QED BY <1>1, <2>1, <2>2, <2>3
<1> QED BY <1>2, <1>3, Zenon

\* FeedInv holds at first,
LEMMA FeedInvInit == PipeInit => FeedInv
<1> SUFFICES ASSUME PipeInit PROVE FeedInv
  OBVIOUS
<1>1. nextId \in Nat \ {0} /\ nextSeq \in [Shards -> Nat] /\ nextId - 1 = 0
  BY DEF PipeInit
<1>2. home \in [1 .. nextId - 1 -> Symbols]
  BY <1>1 DEF PipeInit
<1>3. queue \in [Shards -> Seq(Items)] /\ \A s \in Shards : Len(queue[s]) = 0
  BY DEF PipeInit
<1>4. resting \in [Symbols -> SUBSET Nat] /\ missed \in [Shards -> SUBSET Messages]
  BY DEF PipeInit
<1> QED BY <1>1, <1>2, <1>3, <1>4 DEF FeedInv, PipeInit

\* a message that is sent keeps it,
LEMMA SentKeepsFeedInv ==
  ASSUME FeedInv, NEW y \in Symbols, NEW m, Sent(y, m), NotTaken(y, m) \/ Taken(y, m)
  PROVE  FeedInv'
<1>1. /\ nextId' \in Nat \ {0} /\ nextId' >= nextId
      /\ home' \in [1 .. nextId' - 1 -> Symbols]
      /\ \A id \in 1 .. nextId - 1 : id \in 1 .. nextId' - 1 /\ home'[id] = home[id]
      /\ \A id : Makes(m, id) => id = nextId /\ id \in 1 .. nextId' - 1 /\ home'[id] = y
  BY SentGrows
<1>2. m \in Messages /\ ShardOf[y] \in Shards /\ nextId \in Nat \ {0}
  BY RoutingAssumption, Zenon DEF Sent, FeedInv
<1>3. nextSeq' \in [Shards -> Nat]
  BY <1>2 DEF Sent, FeedInv
<1>4. /\ resting' \in [Symbols -> SUBSET Nat]
      /\ \A z \in Symbols : \A id \in resting'[z] : id \in 1 .. nextId' - 1 /\ home'[id] = z
  <2>1. PICK r \in SUBSET (resting[y] \cup {nextId}) :
          /\ nextId \in r => nextId' = nextId + 1
          /\ resting' = [resting EXCEPT ![y] = r]
    BY Zenon DEF Sent
  <2>2. resting \in [Symbols -> SUBSET Nat]
    BY DEF FeedInv
  <2>3. resting[y] \subseteq Nat /\ r \subseteq Nat
    BY <1>2, <2>1, <2>2
  <2>4. resting' \in [Symbols -> SUBSET Nat]
    BY <2>1, <2>2, <2>3, Zenon
  <2>5. nextId' = nextId + 1 => home'[nextId] = y /\ nextId \in 1 .. nextId' - 1
    <3>1. nextId' = nextId + 1 => home' = Put(home, nextId, y)
      BY <1>2 DEF Sent
    <3> QED BY <3>1, <1>2 DEF Put
  <2>6. ASSUME NEW z \in Symbols, NEW id \in resting'[z]
        PROVE  id \in 1 .. nextId' - 1 /\ home'[id] = z
    <3>1. CASE z # y
      <4>1. id \in resting[z]
        BY <2>1, <2>2, <2>6, <3>1
      <4> QED BY <4>1, <1>1, Zenon DEF FeedInv
    <3>2. CASE z = y /\ id \in resting[y]
      BY <3>2, <1>1, Zenon DEF FeedInv
    <3>3. CASE z = y /\ id = nextId
      BY <2>1, <2>2, <2>5, <2>6, <3>3, Zenon
    <3> QED BY <2>1, <2>2, <2>6, <3>1, <3>2, <3>3
  <2> QED BY <2>4, <2>6
<1>5. missed' \in [Shards -> SUBSET Messages]
  <2>1. missed \in [Shards -> SUBSET Messages]
    BY Zenon DEF FeedInv
  <2>2. missed' = missed \/ missed' = [missed EXCEPT ![ShardOf[y]] = @ \cup {m}]
    BY Zenon DEF NotTaken, Taken
  <2> QED BY <2>1, <2>2, <1>2
<1>6. queue' \in [Shards -> Seq(Items)] /\ queue' = queue
  BY DEF Sent, FeedInv
<1>7. \A s \in Shards : \A k \in 1 .. Len(queue'[s]) : ItemOK(queue[s][k], s)'
  <2> SUFFICES ASSUME NEW s \in Shards, NEW k \in 1 .. Len(queue[s])
               PROVE  ItemOK(queue[s][k], s)'
    BY <1>6
  <2>1. queue[s] \in Seq(Items) /\ queue[s][k] \in Items /\ ItemOK(queue[s][k], s)
    BY DEF FeedInv
  <2>2. ItemOK(queue[s][k], s) /\ nextId \in Nat /\ queue[s][k] = queue'[s][k]
    BY <2>1, <1>2, <1>6
  <2> QED BY <2>1, <2>2, <1>1, Zenon DEF ItemOK, Items
<1>8. /\ hand' \in Items \cup {Nothing}
      /\ hand' # Nothing => ItemOK(hand, hand.shard)'
  <2>1. CASE NotTaken(y, m)
    <3>1. hand' = Nothing
      BY <2>1 DEF NotTaken, Sent
    <3> QED BY <3>1
  <2>2. CASE Taken(y, m)
    <3>1. hand' = ItemOf(y, m) /\ ItemOf(y, m) \in Items
      BY <2>2, TakenWay, Zenon DEF Taken, ItemOf
    <3>2. ItemOf(y, m).shard = ShardOf[y] /\ ItemOf(y, m).symbol = y /\ ItemOf(y, m).msg = m
      BY DEF ItemOf
    <3>3. m.id \in 1 .. nextId' - 1 /\ home'[m.id] = y
      <4>1. CASE m.type = "Add"
        BY <4>1, <1>1 DEF Makes
      <4>2. CASE m.type # "Add"
        <5>1. m.id \in resting[y]
          BY <4>2 DEF Sent
        <5> QED BY <5>1, <1>1, Zenon DEF FeedInv
      <4> QED BY <4>1, <4>2, Zenon
    <3>4. m.type = "Replace" => m.new \in 1 .. nextId' - 1 /\ home'[m.new] = y
      BY <1>1, Zenon DEF Makes
    <3> QED BY <3>1, <3>2, <3>3, <3>4 DEF ItemOK
  <2> QED BY <2>1, <2>2
<1>9. ASSUME NEW id \in DOMAIN route'
      PROVE  /\ id \in 1 .. nextId' - 1
             /\ route'[id] = [shard |-> ShardOf[home'[id]], symbol |-> home'[id]]
  <2>1. CASE Taken(y, m) /\ Makes(m, id)
    <3>1. route'[id] = [shard |-> ShardOf[y], symbol |-> y]
      BY <2>1, <1>9 DEF Taken
    <3> QED BY <3>1, <2>1, <1>1, Zenon
  <2>2. CASE ~(Taken(y, m) /\ Makes(m, id))
    <3>1. id \in DOMAIN route /\ route'[id] = route[id]
      BY <2>2, <1>9, Zenon DEF Taken, NotTaken
    <3>2. id \in 1 .. nextId - 1 /\ route[id] = [shard |-> ShardOf[home[id]], symbol |-> home[id]]
      BY <3>1 DEF FeedInv
    <3> QED BY <3>1, <3>2, <1>1, Zenon
  <2> QED BY <2>1, <2>2, Zenon
<1> QED BY <1>1, <1>3, <1>4, <1>5, <1>6, <1>7, <1>8, <1>9, Zenon DEF FeedInv

\* and so does every other step.
LEMMA FeedInvInductive == FeedInv /\ [PipeNext]_pipeVars => FeedInv'
<1> SUFFICES ASSUME FeedInv, [PipeNext]_pipeVars PROVE FeedInv'
  BY Zenon
<1>2. CASE NetworkThread /\ Enqueue
  <2>1. PICK t \in Shards : t = hand.shard
    BY <1>2, Zenon DEF FeedInv, Enqueue, Items
  <2>2. /\ hand \in Items /\ ItemOK(hand, t) /\ queue[t] \in Seq(Items) /\ hand' = Nothing
        /\ queue \in [Shards -> Seq(Items)] /\ missed \in [Shards -> SUBSET Messages]
    BY <1>2, <2>1 DEF FeedInv, Enqueue
  <2>3. PICK u \in Seq(Items) :
          /\ u = IF Len(queue[t]) = QueueCapacity THEN Tail(queue[t]) ELSE queue[t]
          /\ \A k \in 1 .. Len(u) : ItemOK(u[k], t)
    <3>1. \A k \in 1 .. Len(queue[t]) : ItemOK(queue[t][k], t)
      BY DEF FeedInv
    <3>2. CASE Len(queue[t]) = QueueCapacity
      <4>1. queue[t] # <<>>
        BY <2>2, <3>2, QueueAssumption, Zenon
      <4>2. /\ Tail(queue[t]) \in Seq(Items) /\ Len(Tail(queue[t])) = Len(queue[t]) - 1
            /\ \A k \in 1 .. Len(Tail(queue[t])) : Tail(queue[t])[k] = queue[t][k + 1]
        BY <4>1, <2>2, HeadTailProperties, Zenon
      <4>3. \A k \in 1 .. Len(Tail(queue[t])) : k + 1 \in 1 .. Len(queue[t])
        BY <4>2, <2>2
      <4> QED BY <3>1, <3>2, <4>2, <4>3, Zenon
    <3> QED BY <3>1, <3>2, <2>2, Zenon
  <2>4. /\ queue' = [queue EXCEPT ![t] = Append(u, hand)]
        /\ missed' \in [Shards -> SUBSET Messages]
    <3>1. queue' = [queue EXCEPT ![t] = Append(u, hand)]
      BY <1>2, <2>1, <2>2, <2>3, Zenon DEF Enqueue
    <3>2. CASE Len(queue[t]) = QueueCapacity
      <4>1. queue[t] # <<>>
        BY <2>2, <3>2, QueueAssumption
      <4>2. Head(queue[t]) \in Items
        BY <4>1, <2>2, HeadTailProperties
      <4>3. Head(queue[t]).msg \in Messages
        BY <4>2, Zenon DEF Items
      <4>4. missed' = [missed EXCEPT ![t] = @ \cup {Head(queue[t]).msg}]
        BY <1>2, <2>1, <3>2, Zenon DEF Enqueue
      <4> QED BY <3>1, <4>3, <4>4, <2>2
    <3>3. CASE Len(queue[t]) # QueueCapacity
      BY <3>1, <3>3, <1>2, <2>1, <2>2, Zenon DEF Enqueue
    <3> QED BY <3>2, <3>3, Zenon
  <2>5. queue' \in [Shards -> Seq(Items)]
    BY <2>2, <2>3, <2>4
  <2>6. UNCHANGED <<nextId, nextSeq, home, resting, route>>
    BY <1>2 DEF Enqueue, feedVars
  <2>7. \A s \in Shards : \A k \in 1 .. Len(queue'[s]) : ItemOK(queue'[s][k], s)
    <3> SUFFICES ASSUME NEW s \in Shards, NEW k \in 1 .. Len(queue'[s])
                 PROVE  ItemOK(queue'[s][k], s)
      BY Zenon
    <3>1. CASE s # t
      <4>1. queue'[s] = queue[s]
        BY <2>2, <2>4, <3>1, Zenon
      <4> QED BY <4>1, SMTT(20) DEF FeedInv
    <3>2. CASE s = t
      <4>1. queue'[s] = Append(u, hand)
        BY <2>2, <2>4, <3>2, Zenon
      <4>2. k \in 1 .. Len(u) + 1
        BY <4>1, <2>3
      <4>3. CASE k = Len(u) + 1
        BY <4>1, <4>3, <2>2, <2>3, <3>2
      <4>4. CASE k \in 1 .. Len(u)
        BY <4>1, <4>4, <2>2, <2>3, <3>2, SMTT(20)
      <4> QED BY <4>2, <4>3, <4>4, <2>3
    <3> QED BY <3>1, <3>2, Zenon
  <2>8. \A s \in Shards : \A k \in 1 .. Len(queue'[s]) : ItemOK(queue[s][k], s)'
    BY <2>6, <2>7 DEF ItemOK
  <2>9. hand' \in Items \cup {Nothing} /\ hand' = Nothing
    BY <2>2
  <2> QED BY <2>4, <2>5, <2>6, <2>8, <2>9, Zenon DEF FeedInv
<1>3. ASSUME NEW s \in Shards, ProcessMessage(s) PROVE FeedInv'
  <2>1. /\ queue \in [Shards -> Seq(Items)] /\ queue[s] \in Seq(Items) /\ queue[s] # <<>>
        /\ queue' = [queue EXCEPT ![s] = Tail(@)]
        /\ UNCHANGED <<nextId, nextSeq, home, resting, route, hand, missed>>
    BY <1>3, Zenon DEF FeedInv, ProcessMessage, feedVars
  <2>2. /\ Tail(queue[s]) \in Seq(Items) /\ Len(Tail(queue[s])) = Len(queue[s]) - 1
        /\ \A k \in 1 .. Len(Tail(queue[s])) :
             k + 1 \in 1 .. Len(queue[s]) /\ Tail(queue[s])[k] = queue[s][k + 1]
    BY <2>1, HeadTailProperties
  <2>3. queue' \in [Shards -> Seq(Items)]
    BY <2>1, <2>2
  <2>4. \A t \in Shards : \A k \in 1 .. Len(queue'[t]) : ItemOK(queue'[t][k], t)
    <3> SUFFICES ASSUME NEW t \in Shards, NEW k \in 1 .. Len(queue'[t])
                 PROVE  ItemOK(queue'[t][k], t)
      BY Zenon
    <3>1. CASE t # s
      <4>1. queue'[t] = queue[t]
        BY <2>1, <3>1, Zenon
      <4> QED BY <4>1 DEF FeedInv
    <3>2. CASE t = s
      <4>1. queue'[t] = Tail(queue[s])
        BY <2>1, <3>2, Zenon
      <4>2. k + 1 \in 1 .. Len(queue[s]) /\ queue'[t][k] = queue[s][k + 1]
        BY <4>1, <2>2, Zenon
      <4> QED BY <4>2, <3>2 DEF FeedInv
    <3> QED BY <3>1, <3>2
  <2>5. /\ \A t \in Shards : \A k \in 1 .. Len(queue'[t]) : ItemOK(queue[t][k], t)'
        /\ hand' # Nothing => ItemOK(hand, hand.shard)'
    <3>1. \A t \in Shards : \A k \in 1 .. Len(queue'[t]) : ItemOK(queue[t][k], t)'
      <4>1. nextId' = nextId /\ home' = home
        BY <2>1, Zenon
      <4> QED BY <4>1, <2>4 DEF ItemOK
    <3>2. hand' # Nothing => ItemOK(hand, hand.shard)'
      BY <2>1, Zenon DEF ItemOK, FeedInv
    <3> QED BY <3>1, <3>2, Zenon
  <2> QED BY <2>1, <2>3, <2>5, Zenon DEF FeedInv
<1>k. ASSUME UNCHANGED <<nextId, nextSeq, home, resting, hand, missed, queue>>,
             \A id \in DOMAIN route' : id \in DOMAIN route /\ route'[id] = route[id]
      PROVE  FeedInv'
  <2>1. hand' # Nothing => ItemOK(hand, hand.shard)'
    BY <1>k, Zenon DEF FeedInv, ItemOK
  <2>2. ASSUME NEW t \in Shards, NEW k \in 1 .. Len(queue'[t]) PROVE ItemOK(queue[t][k], t)'
    <3>1. ItemOK(queue[t][k], t)
      BY <1>k, <2>2, Zenon DEF FeedInv
    <3> QED BY <3>1, <1>k, Zenon DEF ItemOK
  <2>3. \A id \in DOMAIN route' :
          id \in 1 .. nextId' - 1 /\ route'[id] = [shard |-> ShardOf[home'[id]], symbol |-> home'[id]]
    BY <1>k, Zenon DEF FeedInv
  <2> QED BY <1>k, <2>1, <2>2, <2>3, Zenon DEF FeedInv
<1>4. ASSUME NEW s \in Shards, EraseRoute(s) PROVE FeedInv'
  <2>1. UNCHANGED <<nextId, nextSeq, home, resting, hand, missed, queue>>
    BY <1>4 DEF EraseRoute, feedVars
  <2>2. \A id \in DOMAIN route' : id \in DOMAIN route /\ route'[id] = route[id]
    BY <1>4, Zenon DEF EraseRoute, Erase, Restrict
  <2> QED BY <2>1, <2>2, <1>k
<1>5. ASSUME NEW s \in Shards, PushDelta(s) \/ PublisherThread(s) PROVE FeedInv'
  <2>1. UNCHANGED <<nextId, nextSeq, home, resting, hand, missed, queue, route>>
    BY <1>5, Zenon DEF PushDelta, PublisherThread, feedVars
  <2> QED BY <2>1, <1>k
<1>6. CASE UNCHANGED pipeVars
  BY <1>6, <1>k DEF pipeVars, feedVars
<1>7. CASE NetworkThread /\ ~Enqueue
  BY <1>7, NetworkStep, SentKeepsFeedInv, ZenonT(30)
<1> QED BY <1>2, <1>3, <1>4, <1>5, <1>6, <1>7 DEF PipeNext, DecoderThread

-----------------------------------------------------------------------------
(***************************************************************************)
(* The books.                                                              *)
(***************************************************************************)
\* Every book holds orders of its own symbol.
HomeInv ==
  /\ DOMAIN books = Symbols
  /\ \A y \in Symbols : \A id \in DOMAIN books[y].index : id \in 1 .. nextId - 1 /\ home[id] = y

\* The book an Execute leaves.
LEMMA ExecutedBook ==
  ASSUME NEW b, NEW m
  PROVE  ApplyExecute(b, m).book
           \in {b, Fill(b, m.id, m.qty), RemoveRestingOrder(Fill(b, m.id, m.qty), m.id)}
<1>1. /\ \A e : Rejected(b, e).book = b
      /\ \A a, d : Applied(a, d).book = a
  BY Zenon DEF Rejected, Applied
<1> QED BY <1>1 DEF ApplyExecute

\* What a message makes of a book's index: only the order it makes joins, and
\* the one it ends leaves if there is room for the one it makes.
LEMMA ApplyIndex ==
  ASSUME NEW b, NEW m, m.type \in {"Add", "Cancel", "Execute", "Replace"}
  PROVE  /\ \A id \in DOMAIN Apply(b, m).book.index : id \in DOMAIN b.index \/ Makes(m, id)
         /\ (\A x : Makes(m, x) => x \notin DOMAIN b.index)
              => \A id : Ends(m, id) /\ ~Makes(m, id) => id \notin DOMAIN Apply(b, m).book.index
<1>1. /\ \A e : Rejected(b, e).book = b
      /\ \A a, d : Applied(a, d).book = a
  BY Zenon DEF Rejected, Applied
<1>a. \A c, id, side, price, qty :
        DOMAIN InsertRestingOrder(c, id, side, price, qty).index = DOMAIN c.index \cup {id}
  BY Zenon DEF InsertRestingOrder, Put
<1>b. \A c, id : DOMAIN RemoveRestingOrder(c, id).index = DOMAIN c.index \ {id}
  BY Zenon DEF RemoveRestingOrder, Erase, Restrict
<1>2. CASE m.type = "Add"
  <2>1. Apply(b, m) = ApplyAdd(b, m)
    BY <1>2 DEF Apply
  <2>2. Apply(b, m).book \in {b, InsertRestingOrder(b, m.id, m.side, m.price, m.qty)}
    BY <2>1, <1>1, Zenon DEF ApplyAdd
  <2> QED BY <1>2, <2>2, <1>a DEF Makes, Ends
<1>3. CASE m.type = "Cancel"
  <2>1. Apply(b, m) = ApplyCancel(b, m)
    BY <1>3, Zenon DEF Apply
  <2>2. Apply(b, m).book = IF HasOrder(b, m.id) THEN RemoveRestingOrder(b, m.id) ELSE b
    BY <2>1, <1>1, Zenon DEF ApplyCancel
  <2> QED BY <1>3, <2>2, <1>b DEF Makes, Ends, HasOrder
<1>4. CASE m.type = "Execute"
  <2>1. Apply(b, m) = ApplyExecute(b, m)
    BY <1>4 DEF Apply
  <2>2. DOMAIN Fill(b, m.id, m.qty).index = DOMAIN b.index
    BY DEF Fill
  <2>3. Apply(b, m).book \in {b, Fill(b, m.id, m.qty), RemoveRestingOrder(Fill(b, m.id, m.qty), m.id)}
    BY <2>1, ExecutedBook, Zenon
  <2> QED BY <1>4, <2>2, <2>3, <1>b DEF Makes, Ends
<1>5. CASE m.type = "Replace"
  <2>1. Apply(b, m) = ApplyReplace(b, m)
    BY <1>5 DEF Apply
  <2>2. CASE HasOrder(b, m.id) /\ ~HasOrder(b, m.new)
    <3>1. Apply(b, m).book = InsertRestingOrder(RemoveRestingOrder(b, m.id), m.new,
                                                b.index[m.id].side, m.price, m.qty)
      BY <2>1, <2>2, <1>1, SMTT(20) DEF ApplyReplace
    <3>2. DOMAIN Apply(b, m).book.index = (DOMAIN b.index \ {m.id}) \cup {m.new}
      BY <3>1, <1>a, <1>b
    <3> QED BY <1>5, <3>2, Zenon DEF Makes, Ends
  <2>3. CASE ~(HasOrder(b, m.id) /\ ~HasOrder(b, m.new))
    <3>1. Apply(b, m).book = b
      BY <2>1, <2>3, <1>1 DEF ApplyReplace
    <3> QED BY <1>5, <2>3, <3>1, SMTT(20) DEF Makes, Ends, HasOrder
  <2> QED BY <2>2, <2>3
<1> QED BY <1>2, <1>3, <1>4, <1>5

\* A processed message, the shard it was processed by and its symbol.
LEMMA ProcessedItem ==
  ASSUME FeedInv, HomeInv, NEW s \in Shards, ProcessMessage(s), Popped(s),
         Head(queue[s]) = Head(OnTheWay(s))
  PROVE  \E qm \in Items :
           /\ qm = OnTheWay(s)[1] /\ 1 \in 1 .. Len(OnTheWay(s))
           /\ ItemOK(qm, s) /\ qm = Head(queue[s])
           /\ qm.symbol \in Symbols /\ qm.msg \in Messages
           /\ books' = [books EXCEPT ![qm.symbol] = Apply(books[qm.symbol], qm.msg).book]
<1>1. OnTheWay(s) \in Seq(Items) /\ OnTheWay(s) # <<>>
  BY WayTyped DEF Popped
<1>2. 1 \in 1 .. Len(OnTheWay(s)) /\ OnTheWay(s)[1] = Head(OnTheWay(s))
  BY <1>1
<1>3. OnTheWay(s)[1] \in Items /\ ItemOK(OnTheWay(s)[1], s)
  BY <1>1, <1>2, WayTyped
<1>4. PICK qm \in Items : qm = OnTheWay(s)[1]
  BY <1>3
<1>5. qm.symbol \in Symbols /\ qm.msg \in Messages
  BY DEF Items
<1>6. books' = [books EXCEPT ![qm.symbol] = Apply(books[qm.symbol], qm.msg).book]
  BY <1>2, <1>4, Zenon DEF ProcessMessage
<1> QED BY <1>2, <1>3, <1>4, <1>5, <1>6, Zenon

\* HomeInv is inductive.
LEMMA HomeInvInductive ==
  FeedInv /\ HomeInv /\ [PipeNext]_pipeVars => HomeInv'
<1> SUFFICES ASSUME FeedInv, HomeInv, [PipeNext]_pipeVars PROVE HomeInv'
  OBVIOUS
<1>1. CASE ProcessStep
  <2>1. PICK s \in Shards : ProcessMessage(s) /\ Popped(s) /\ Head(queue[s]) = Head(OnTheWay(s))
    BY <1>1 DEF ProcessStep
  <2>2. PICK qm \in Items :
           /\ ItemOK(qm, s) /\ qm.symbol \in Symbols /\ qm.msg \in Messages
           /\ books' = [books EXCEPT ![qm.symbol] = Apply(books[qm.symbol], qm.msg).book]
    BY <2>1, ProcessedItem
  <2>3. nextId' = nextId /\ home' = home
    BY <2>1, Zenon DEF ProcessMessage, feedVars
  <2>4. \A id : Makes(qm.msg, id) => id \in 1 .. nextId - 1 /\ home[id] = qm.symbol
    BY <2>2, Zenon DEF Makes, ItemOK
  <2>5. \A id \in DOMAIN Apply(books[qm.symbol], qm.msg).book.index :
          id \in DOMAIN books[qm.symbol].index \/ Makes(qm.msg, id)
    BY <2>2, MessageTypes, ApplyIndex
  <2>6. DOMAIN books' = Symbols
    BY <2>2 DEF HomeInv
  <2>7. ASSUME NEW y \in Symbols
        PROVE  \A id \in DOMAIN books'[y].index : id \in 1 .. nextId - 1 /\ home[id] = y
    <3>1. CASE y = qm.symbol
      <4>1. books'[y] = Apply(books[qm.symbol], qm.msg).book
        BY <3>1, <2>2 DEF HomeInv
      <4> QED BY <4>1, <3>1, <2>2, <2>4, <2>5, Zenon DEF HomeInv
    <3>2. CASE y # qm.symbol
      <4>1. books'[y] = books[y]
        BY <3>2, <2>2 DEF HomeInv
      <4> QED BY <4>1, Zenon DEF HomeInv
    <3> QED BY <3>1, <3>2, Zenon
  <2> QED BY <2>3, <2>6, <2>7 DEF HomeInv
<1>2. ASSUME NEW y \in Symbols, NEW m, Sent(y, m) PROVE HomeInv'
  <2>1. books' = books
    BY <1>2, Zenon DEF Sent
  <2>2. \A id \in 1 .. nextId - 1 : id \in 1 .. nextId' - 1 /\ home'[id] = home[id]
    BY <1>2, SentGrows, Zenon
  <2>3. \A z \in Symbols : \A id \in DOMAIN books[z].index :
          id \in 1 .. nextId' - 1 /\ home'[id] = z
    BY <2>2 DEF HomeInv
  <2> QED BY <2>1, <2>3, Zenon DEF HomeInv
<1>3. CASE books' = books /\ nextId' = nextId /\ home' = home
  BY <1>3 DEF HomeInv
<1>4. EvictStep \/ EraseStep \/ QuietStep => books' = books /\ nextId' = nextId /\ home' = home
  BY Zenon DEF EvictStep, EraseStep, EraseRoute, QuietStep, SameFeed, shardVars, feedVars
<1> QED BY <1>1, <1>2, <1>3, <1>4, PipeStep DEF LoseStep, TakeStep

\* HomeInv holds at first.
LEMMA HomeInvInit == PipeInit => HomeInv
<1> SUFFICES ASSUME PipeInit PROVE HomeInv
  OBVIOUS
<1>1. \A y \in Symbols : books[y] = EmptyBook /\ DOMAIN books[y].index = {}
  BY DEF PipeInit, EmptyBook
<1> QED BY <1>1, Zenon DEF HomeInv, PipeInit

\* An order only ever rests in the book of the symbol it was added for, whatever
\* symbols share its shard: order_route_ in demux() never misleads a message.
THEOREM OrdersStayHome == PipeSpec => []NoForeignOrder
<1>1. PipeInit => FeedInv /\ HomeInv
  BY FeedInvInit, HomeInvInit
<1>2. FeedInv /\ HomeInv /\ [PipeNext]_pipeVars => FeedInv' /\ HomeInv'
  BY FeedInvInductive, HomeInvInductive
<1>3. HomeInv => NoForeignOrder
  BY DEF HomeInv, NoForeignOrder
<1> QED BY <1>1, <1>2, <1>3, PTL DEF PipeSpec

-----------------------------------------------------------------------------
(***************************************************************************)
(* What a decoder thread has left to do.                                   *)
(***************************************************************************)
\* What a decoder thread still has to do is a record of the two things.
DecoderInv == DOMAIN decoder = Shards /\ \A s \in Shards : DOMAIN decoder[s] = {"erase", "deltas"}

\* DecoderInv is inductive.
LEMMA DecoderInvInductive ==
  FeedInv /\ DecoderInv /\ [PipeNext]_pipeVars => DecoderInv'
<1> SUFFICES ASSUME FeedInv, DecoderInv, [PipeNext]_pipeVars PROVE DecoderInv'
  OBVIOUS
<1>1. ASSUME NEW t \in Shards, NEW d, DOMAIN d = {"erase", "deltas"}, decoder' = [decoder EXCEPT ![t] = d]
      PROVE  DecoderInv'
  BY <1>1 DEF DecoderInv
<1>2. ASSUME NEW t \in Shards, ProcessMessage(t)
      PROVE  \E e, d : decoder' = [decoder EXCEPT ![t] = [erase |-> e, deltas |-> d]]
  BY <1>2, Zenon DEF ProcessMessage
<1>3. CASE ProcessStep
  <2>1. PICK t \in Shards : \E e, d : decoder' = [decoder EXCEPT ![t] = [erase |-> e, deltas |-> d]]
    BY <1>2, <1>3 DEF ProcessStep
  <2>2. PICK e, d : decoder' = [decoder EXCEPT ![t] = [erase |-> e, deltas |-> d]]
    BY <2>1, Zenon
  <2>3. DOMAIN [erase |-> e, deltas |-> d] = {"erase", "deltas"}
    OBVIOUS
  <2> QED BY <1>1, <2>2, <2>3, Zenon
<1>4. CASE EraseStep
  <2>1. PICK t \in Shards : decoder' = [decoder EXCEPT ![t].erase = Nothing]
    BY <1>4, Zenon DEF EraseStep, EraseRoute
  <2>2. DOMAIN [decoder[t] EXCEPT !.erase = Nothing] = {"erase", "deltas"}
    BY DEF DecoderInv
  <2> QED BY <1>1, <2>1, <2>2, Zenon
<1>5. ASSUME NEW t \in Shards, PushDelta(t) PROVE DecoderInv'
  <2>1. decoder' = [decoder EXCEPT ![t].deltas = Tail(@)]
    BY <1>5 DEF PushDelta
  <2>2. DOMAIN [decoder[t] EXCEPT !.deltas = Tail(@)] = {"erase", "deltas"}
    BY DEF DecoderInv
  <2> QED BY <1>1, <2>1, <2>2, Zenon
<1>6. CASE decoder' = decoder
  BY <1>6 DEF DecoderInv
<1>7. LoseStep \/ TakeStep \/ EvictStep => decoder' = decoder
  BY Zenon DEF LoseStep, TakeStep, Sent, EvictStep
<1>8. DeltaStep => decoder' = decoder \/ \E t \in Shards : PushDelta(t)
  BY Zenon DEF DeltaStep, PublisherThread
<1> QED BY <1>3, <1>4, <1>5, <1>6, <1>7, <1>8, PipeStep, Zenon

\* DecoderInv holds at first.
LEMMA DecoderInvInit == PipeInit => DecoderInv
BY DEF PipeInit, DecoderInv, Idle

-----------------------------------------------------------------------------
(***************************************************************************)
(* Replaying the messages on the way.  The recursion of Replay is followed *)
(* without an induction: all of the books it passes through are one        *)
(* function, a chain, and a step of the pipeline adds or removes one of    *)
(* the chain's ends.                                                       *)
(***************************************************************************)
After(b, y, qm) == IF qm.symbol = y THEN Apply(b, qm.msg).book ELSE b

Chain(f, b, y, way) ==
  /\ f = [k \in 0 .. Len(way) |-> f[k]] /\ f[0] = b
  /\ \A k \in 1 .. Len(way) : f[k] = After(f[k - 1], y, way[k])

\* The messages on a way turn one book into another.
Leads(b, y, way, e) ==
  /\ \E f : Chain(f, b, y, way)
  /\ \A f : Chain(f, b, y, way) => f[Len(way)] = e

\* Then that is what Replay finds.
LEMMA ReplayLeads ==
  ASSUME NEW b, NEW y, NEW way, Len(way) \in Nat, NEW e, Leads(b, y, way, e)
  PROVE  Replay(b, y, way) = e
<1> DEFINE Eq(h) == h = [k \in 0 .. Len(way) |->
                           IF k = 0 THEN b
                           ELSE IF way[k].symbol = y THEN Apply(h[k - 1], way[k].msg).book
                           ELSE h[k - 1]]
           after == CHOOSE h : Eq(h)
<1>1. PICK f : Chain(f, b, y, way)
  BY DEF Leads
<1>2. Eq(f)
  <2>1. ASSUME NEW k \in 0 .. Len(way)
        PROVE  f[k] = IF k = 0 THEN b
                      ELSE IF way[k].symbol = y THEN Apply(f[k - 1], way[k].msg).book
                      ELSE f[k - 1]
    <3>1. CASE k = 0
      BY <3>1, <1>1, Zenon DEF Chain
    <3>2. CASE k \in 1 .. Len(way)
      BY <3>2, <1>1 DEF Chain, After
    <3> QED BY <3>1, <3>2
  <2>2. f = [k \in 0 .. Len(way) |-> f[k]]
    BY <1>1 DEF Chain
  <2> QED BY <2>1, <2>2, Zenon
<1>3. Eq(after)
  BY <1>2, Zenon
<1>4. Replay(b, y, way) = after[Len(way)]
  BY Zenon DEF Replay
<1> HIDE DEF after
<1>5. \A k \in 0 .. Len(way) : after[k] = IF k = 0 THEN b
                                          ELSE IF way[k].symbol = y THEN Apply(after[k - 1], way[k].msg).book
                                          ELSE after[k - 1]
  BY <1>3, Zenon
<1>6. Chain(after, b, y, way)
  <2>1. after = [k \in 0 .. Len(way) |-> after[k]]
    BY <1>3
  <2>2. after[0] = b
    BY <1>5
  <2>3. \A k \in 1 .. Len(way) : after[k] = After(after[k - 1], y, way[k])
    BY <1>5 DEF After
  <2> QED BY <2>1, <2>2, <2>3, Zenon DEF Chain
<1> QED BY <1>4, <1>6 DEF Leads

\* With nothing on the way the book stays,
LEMMA LeadsNowhere ==
  ASSUME NEW b, NEW y, NEW way, Len(way) = 0
  PROVE  Leads(b, y, way, b)
<1>1. Chain([k \in 0 .. 0 |-> b], b, y, way)
  BY DEF Chain
<1> QED BY <1>1, Zenon DEF Leads, Chain

\* a message that joins the way is applied last,
LEMMA LeadsFurther ==
  ASSUME NEW way \in Seq(Items), NEW qm \in Items, NEW b, NEW y, NEW e, Leads(b, y, way, e)
  PROVE  Leads(b, y, Append(way, qm), After(e, y, qm))
<1>1. PICK n \in Nat : n = Len(way)
  OBVIOUS
<1>2. PICK more : more = Append(way, qm)
  BY Zenon
<1>3. /\ Len(more) = n + 1 /\ more[n + 1] = qm
      /\ \A k \in 1 .. n : more[k] = way[k]
  BY <1>1, <1>2, AppendProperties
<1>4. \E f : Chain(f, b, y, more)
  <2>1. PICK f : Chain(f, b, y, way)
    BY DEF Leads
  <2> DEFINE g == [k \in 0 .. n + 1 |-> IF k = n + 1 THEN After(f[n], y, qm) ELSE f[k]]
  <2>2. g[n + 1] = After(f[n], y, qm) /\ \A k \in 0 .. n : g[k] = f[k]
    OBVIOUS
  <2>3. g = [k \in 0 .. n + 1 |-> g[k]]
    OBVIOUS
  <2> HIDE DEF g
  <2>4. g[0] = b
    BY <2>1, <2>2 DEF Chain
  <2>5. ASSUME NEW k \in 1 .. n + 1 PROVE g[k] = After(g[k - 1], y, more[k])
    <3>1. CASE k = n + 1
      BY <3>1, <2>2, <1>3
    <3>2. CASE k \in 1 .. n
      <4>1. k - 1 \in 0 .. n /\ k \in 0 .. n
        BY <3>2
      <4>2. f[k] = After(f[k - 1], y, way[k])
        BY <3>2, <2>1, <1>1, Zenon DEF Chain
      <4> QED BY <4>1, <4>2, <3>2, <2>2, <1>3, Zenon
    <3> QED BY <3>1, <3>2
  <2>6. Chain(g, b, y, more)
    BY <2>3, <2>4, <2>5, <1>3, Zenon DEF Chain
  <2> QED BY <2>6
<1>5. ASSUME NEW g, Chain(g, b, y, more) PROVE g[n + 1] = After(e, y, qm)
  <2> DEFINE f == [k \in 0 .. n |-> g[k]]
  <2>1. f = [k \in 0 .. n |-> f[k]] /\ \A k \in 0 .. n : f[k] = g[k]
    OBVIOUS
  <2> HIDE DEF f
  <2>2. f[0] = b
    BY <2>1, <1>5, SMTT(20) DEF Chain
  <2>3. ASSUME NEW k \in 1 .. n PROVE f[k] = After(f[k - 1], y, way[k])
    <3>1. k - 1 \in 0 .. n /\ k \in 0 .. n /\ k \in 1 .. n + 1
      OBVIOUS
    <3>2. g[k] = After(g[k - 1], y, more[k])
      BY <3>1, <1>3, <1>5, Zenon DEF Chain
    <3> QED BY <3>1, <3>2, <2>1, <1>3
  <2>4. f[n] = e
    <3>1. Chain(f, b, y, way)
      BY <2>1, <2>2, <2>3, <1>1, Zenon DEF Chain
    <3> QED BY <3>1, <1>1 DEF Leads
  <2>5. n + 1 \in 1 .. n + 1 /\ (n + 1) - 1 = n /\ n \in 0 .. n
    OBVIOUS
  <2>6. g[n + 1] = After(g[n], y, more[n + 1])
    BY <2>5, <1>3, <1>5, Zenon DEF Chain
  <2> QED BY <2>1, <2>4, <2>5, <2>6, <1>3
<1>6. Leads(b, y, more, After(e, y, qm))
  BY <1>3, <1>4, <1>5, Zenon DEF Leads
<1> QED BY <1>2, <1>6

\* and the first one on the way first.
LEMMA LeadsOn ==
  ASSUME NEW way \in Seq(Items), way # <<>>, NEW b, NEW y, NEW e, Leads(b, y, way, e)
  PROVE  Leads(After(b, y, Head(way)), y, Tail(way), e)
<1>1. PICK n \in Nat : n + 1 = Len(way)
  <2>1. Len(way) \in Nat \ {0}
    OBVIOUS
  <2>2. Len(way) - 1 \in Nat /\ (Len(way) - 1) + 1 = Len(way)
    BY <2>1
  <2> QED BY <2>2, Zenon
<1>2. PICK rest, c : rest = Tail(way) /\ c = After(b, y, Head(way))
  BY Zenon
<1>3. /\ Len(rest) = n /\ c = After(b, y, way[1])
      /\ \A k \in 1 .. n : rest[k] = way[k + 1]
  BY <1>1, <1>2, HeadTailProperties
<1>4. \E f : Chain(f, c, y, rest)
  <2>1. PICK g : Chain(g, b, y, way)
    BY DEF Leads
  <2> DEFINE f == [k \in 0 .. n |-> g[k + 1]]
  <2>2. f = [k \in 0 .. n |-> f[k]] /\ \A k \in 0 .. n : f[k] = g[k + 1]
    OBVIOUS
  <2> HIDE DEF f
  <2>3. \A k \in 1 .. n + 1 : g[k] = After(g[k - 1], y, way[k])
    BY <2>1, <1>1, Zenon DEF Chain
  <2>4. f[0] = c
    <3>1. g[1] = After(g[1 - 1], y, way[1]) /\ 1 - 1 = 0 /\ 0 + 1 = 1 /\ 0 \in 0 .. n
      BY <2>3
    <3>2. g[0] = b
      BY <2>1, Zenon DEF Chain
    <3> QED BY <3>1, <3>2, <2>2, <1>3, Zenon
  <2>5. ASSUME NEW k \in 1 .. n PROVE f[k] = After(f[k - 1], y, rest[k])
    <3>1. k \in 0 .. n /\ k - 1 \in 0 .. n /\ k + 1 \in 1 .. n + 1 /\ (k + 1) - 1 = k /\ (k - 1) + 1 = k
      OBVIOUS
    <3>2. f[k] = g[k + 1] /\ f[k - 1] = g[k]
      BY <3>1, <2>2, Zenon
    <3>3. g[k + 1] = After(g[k], y, way[k + 1])
      BY <3>1, <2>3
    <3> QED BY <3>2, <3>3, <1>3
  <2>6. Chain(f, c, y, rest)
    BY <2>2, <2>4, <2>5, <1>3, Zenon DEF Chain
  <2> QED BY <2>6
<1>5. ASSUME NEW f, Chain(f, c, y, rest) PROVE f[n] = e
  <2> DEFINE g == [k \in 0 .. n + 1 |-> IF k = 0 THEN b ELSE f[k - 1]]
  <2>1. g = [k \in 0 .. n + 1 |-> g[k]] /\ g[0] = b /\ \A k \in 1 .. n + 1 : g[k] = f[k - 1]
    OBVIOUS
  <2> HIDE DEF g
  <2>2. ASSUME NEW k \in 1 .. n + 1 PROVE g[k] = After(g[k - 1], y, way[k])
    <3>1. CASE k = 1
      <4>1. g[1] = f[0] /\ f[0] = c
        <5>1. 1 \in 1 .. n + 1 /\ 1 - 1 = 0
          OBVIOUS
        <5> QED BY <5>1, <2>1, <1>5, Zenon DEF Chain
      <4> QED BY <4>1, <3>1, <2>1, <1>3
    <3>2. CASE k > 1
      <4>1. /\ k - 1 \in 1 .. n /\ k - 1 \in 1 .. n + 1 /\ (k - 1) + 1 = k
        BY <3>2
      <4>2. f[k - 1] = After(f[(k - 1) - 1], y, rest[k - 1]) /\ rest[k - 1] = way[k]
        BY <4>1, <1>3, <1>5, Zenon DEF Chain
      <4> QED BY <4>1, <4>2, <2>1, Zenon
    <3> QED BY <3>1, <3>2
  <2>3. Chain(g, b, y, way)
    BY <2>1, <2>2, <1>1, Zenon DEF Chain
  <2>4. n + 1 \in 1 .. n + 1 /\ (n + 1) - 1 = n
    OBVIOUS
  <2>5. g[n + 1] = f[n]
    BY <2>1, <2>4, Zenon
  <2> QED BY <2>3, <2>5, <1>1, Zenon DEF Leads
<1>6. Leads(c, y, rest, e)
  BY <1>3, <1>4, <1>5, Zenon DEF Leads
<1> QED BY <1>2, <1>6

\* While a shard has missed nothing, the messages on the way to it turn its
\* books into the exchange's.
FollowInv ==
  /\ exchange = [y \in Symbols |-> exchange[y]]
  /\ \A y \in Symbols :
       missed[ShardOf[y]] = {} => Leads(books[y], y, OnTheWay(ShardOf[y]), exchange[y])

\* FollowInv of the next state, for a symbol.
NextFollows(y) ==
  missed'[ShardOf[y]] = {} => Leads(books'[y], y, OnTheWay(ShardOf[y])', exchange'[y])

\* It is that.
LEMMA FollowInvNext ==
  ASSUME exchange' = [y \in Symbols |-> exchange'[y]], \A y \in Symbols : NextFollows(y)
  PROVE  FollowInv'
<1>1. \A y \in Symbols : missed'[ShardOf[y]] = {} => Leads(books[y], y, OnTheWay(ShardOf[y]), exchange[y])'
  BY DEF NextFollows
<1> QED BY <1>1 DEF FollowInv

\* A symbol that a step does not concern,
LEMMA SameFollows ==
  ASSUME FollowInv, NEW y \in Symbols, books'[y] = books[y], exchange'[y] = exchange[y],
         OnTheWay(ShardOf[y])' = OnTheWay(ShardOf[y]), missed'[ShardOf[y]] = missed[ShardOf[y]]
  PROVE  NextFollows(y)
BY Zenon DEF FollowInv, NextFollows

\* or whose shard misses a message, still follows.
LEMMA LossFollows ==
  ASSUME FeedInv, NEW t \in Shards, NEW m, missed' = [missed EXCEPT ![t] = @ \cup {m}],
         NEW y \in Symbols, ShardOf[y] = t
  PROVE  NextFollows(y)
BY Zenon DEF FeedInv, NextFollows

\* FollowInv is inductive,
LEMMA FollowInvInductive ==
  FeedInv /\ HomeInv /\ FollowInv /\ [PipeNext]_pipeVars => FollowInv'
<1> SUFFICES ASSUME FeedInv, HomeInv, FollowInv, [PipeNext]_pipeVars PROVE FollowInv'
  BY Zenon
<1>0. missed \in [Shards -> SUBSET Messages] /\ ShardOf \in [Symbols -> Shards]
  BY RoutingAssumption, Zenon DEF FeedInv
<1>1. ASSUME NEW z \in Symbols, NEW m, Sent(z, m)
      PROVE  /\ exchange' = [y \in Symbols |-> exchange'[y]]
             /\ \A y \in Symbols :
                  exchange'[y] = IF y = z THEN Apply(exchange[y], m).book ELSE exchange[y]
  <2>1. exchange' = [exchange EXCEPT ![z] = Apply(exchange[z], m).book]
    BY <1>1 DEF Sent
  <2> QED BY <2>1, Zenon DEF FollowInv
<1>2. CASE LoseStep
  <2>1. PICK z \in Symbols, m \in Messages : Sent(z, m) /\ NotTaken(z, m) /\ WaysKept
    BY <1>2, Zenon DEF LoseStep, Sent
  <2>2. ASSUME NEW y \in Symbols PROVE NextFollows(y)
    <3>1. CASE ShardOf[y] = ShardOf[z]
      BY <3>1, <2>1, <1>0, LossFollows, Zenon DEF NotTaken
    <3>2. CASE ShardOf[y] # ShardOf[z]
      <4>1. books' = books /\ exchange'[y] = exchange[y] /\ missed'[ShardOf[y]] = missed[ShardOf[y]]
        BY <3>2, <2>1, <1>0, <1>1, Zenon DEF NotTaken, Sent
      <4> QED BY <4>1, <2>1, <1>0, SameFollows, Zenon DEF WaysKept
    <3> QED BY <3>1, <3>2
  <2> QED BY <2>1, <2>2, <1>1, FollowInvNext
<1>3. CASE TakeStep
  <2>1. PICK z \in Symbols, m \in Messages : /\ Sent(z, m) /\ Taken(z, m)
                                             /\ Pushed(ShardOf[z], ItemOf(z, m)) /\ ItemOf(z, m) \in Items
    BY <1>3, ZenonT(30) DEF TakeStep, Sent
  <2>2. books' = books /\ missed' = missed
    BY <2>1, Zenon DEF Taken, Sent
  <2>3. ASSUME NEW y \in Symbols PROVE NextFollows(y)
    <3>1. CASE ShardOf[y] = ShardOf[z]
      <4>1. PICK qm \in Items : qm = ItemOf(z, m)
        BY <2>1, Zenon
      <4>2. qm.symbol = z /\ qm.msg = m
        BY <4>1, Zenon DEF ItemOf
      <4>3. OnTheWay(ShardOf[y]) \in Seq(Items) /\ OnTheWay(ShardOf[y])' = Append(OnTheWay(ShardOf[y]), qm)
        BY <4>1, <3>1, <2>1, <1>0, WayTyped, Zenon DEF Pushed
      <4>4. exchange'[y] = After(exchange[y], y, qm)
        BY <4>2, <2>1, <1>1, Zenon DEF After
      <4> QED BY <4>3, <4>4, <2>2, LeadsFurther DEF FollowInv, NextFollows
    <3>2. CASE ShardOf[y] # ShardOf[z]
      <4>1. exchange'[y] = exchange[y] /\ OnTheWay(ShardOf[y])' = OnTheWay(ShardOf[y])
        BY <3>2, <2>1, <1>0, <1>1, Zenon DEF Pushed
      <4> QED BY <4>1, <2>2, SameFollows, Zenon
    <3> QED BY <3>1, <3>2
  <2> QED BY <2>1, <2>3, <1>1, FollowInvNext
<1>4. CASE EvictStep
  <2>1. PICK t \in Shards : Evicted(t)
    BY <1>4 DEF EvictStep
  <2>2. books' = books /\ exchange' = exchange
    BY <1>4 DEF EvictStep, shardVars, SameFeed
  <2>3. ASSUME NEW y \in Symbols PROVE NextFollows(y)
    <3>1. CASE ShardOf[y] = t
      BY <3>1, <2>1, LossFollows, Zenon DEF Evicted
    <3>2. CASE ShardOf[y] # t
      <4>1. OnTheWay(ShardOf[y])' = OnTheWay(ShardOf[y]) /\ missed'[ShardOf[y]] = missed[ShardOf[y]]
        BY <3>2, <2>1, <1>0, Zenon DEF Evicted, Popped
      <4> QED BY <4>1, <2>2, SameFollows, Zenon
    <3> QED BY <3>1, <3>2
  <2> QED BY <2>2, <2>3, FollowInvNext, Zenon DEF FollowInv
<1>5. CASE ProcessStep
  <2>1. PICK s \in Shards : ProcessMessage(s) /\ Popped(s) /\ Head(queue[s]) = Head(OnTheWay(s))
    BY <1>5 DEF ProcessStep
  <2>2. exchange' = exchange /\ missed' = missed
    BY <2>1, Zenon DEF ProcessMessage, feedVars
  <2>3. PICK qm \in Items :
          /\ qm = Head(queue[s]) /\ ItemOK(qm, s)
          /\ books' = [books EXCEPT ![qm.symbol] = Apply(books[qm.symbol], qm.msg).book]
    BY <2>1, ProcessedItem
  <2>4. ASSUME NEW y \in Symbols PROVE NextFollows(y)
    <3>1. CASE ShardOf[y] = s
      <4>1. books'[y] = After(books[y], y, qm)
        BY <2>3, Zenon DEF After, HomeInv
      <4>2. /\ OnTheWay(s) \in Seq(Items) /\ OnTheWay(s) # <<>>
            /\ OnTheWay(s)' = Tail(OnTheWay(s)) /\ Head(OnTheWay(s)) = qm
        BY <2>1, <2>3, WayTyped DEF Popped
      <4>3. missed[s] = {} => Leads(books[y], y, OnTheWay(s), exchange[y])
        BY <3>1, Zenon DEF FollowInv
      <4>4. missed[s] = {} => Leads(After(books[y], y, qm), y, OnTheWay(s)', exchange[y])
        BY <4>2, <4>3, LeadsOn
      <4> QED BY <4>1, <4>4, <3>1, <2>2, Zenon DEF NextFollows
    <3>2. CASE ShardOf[y] # s
      <4>1. books'[y] = books[y]
        BY <3>2, <2>3 DEF HomeInv, ItemOK
      <4>2. OnTheWay(ShardOf[y])' = OnTheWay(ShardOf[y])
        BY <3>2, <2>1, <1>0, Zenon DEF Popped
      <4> QED BY <4>1, <4>2, <2>2, SameFollows, Zenon
    <3> QED BY <3>1, <3>2
  <2> QED BY <2>2, <2>4, FollowInvNext, Zenon DEF FollowInv
<1>6. CASE EraseStep \/ QuietStep
  <2>1. WaysKept /\ books' = books /\ exchange' = exchange /\ missed' = missed
    BY <1>6, Zenon DEF EraseStep, EraseRoute, QuietStep, SameFeed, shardVars, feedVars
  <2>2. \A y \in Symbols : NextFollows(y)
    BY <2>1, <1>0, SameFollows, Zenon DEF WaysKept
  <2> QED BY <2>1, <2>2, FollowInvNext DEF FollowInv
<1> QED BY <1>2, <1>3, <1>4, <1>5, <1>6, PipeStep, Zenon

\* and holds at first.
LEMMA FollowInvInit == PipeInit => FollowInv
<1> SUFFICES ASSUME PipeInit PROVE FollowInv
  OBVIOUS
<1>1. ASSUME NEW y \in Symbols PROVE Leads(books[y], y, OnTheWay(ShardOf[y]), exchange[y])
  <2>1. OnTheWay(ShardOf[y]) = <<>> \o <<>>
    BY RoutingAssumption DEF OnTheWay, PipeInit
  <2>2. Len(OnTheWay(ShardOf[y])) = 0 /\ books[y] = exchange[y]
    BY <2>1 DEF PipeInit
  <2> QED BY <2>2, LeadsNowhere, Zenon
<1>2. exchange = [y \in Symbols |-> exchange[y]]
  BY DEF PipeInit
<1> QED BY <1>1, <1>2, Zenon DEF FollowInv

\* While a shard has missed nothing its books are the exchange's, less the
\* messages still in its queue or in demux()'s hand: apply() is given each
\* symbol's messages once and in the order the feed made them.
THEOREM BooksFollow == PipeSpec => []BooksFollowExchange
<1>1. PipeInit => FeedInv /\ HomeInv /\ FollowInv
  BY FeedInvInit, HomeInvInit, FollowInvInit
<1>2. FeedInv /\ HomeInv /\ FollowInv /\ [PipeNext]_pipeVars => FeedInv' /\ HomeInv' /\ FollowInv'
  BY FeedInvInductive, HomeInvInductive, FollowInvInductive
<1>3. FeedInv /\ FollowInv => BooksFollowExchange
  <2> SUFFICES ASSUME FeedInv, FollowInv, NEW y \in Symbols, missed[ShardOf[y]] = {}
               PROVE  Replay(books[y], y, OnTheWay(ShardOf[y])) = exchange[y]
    BY SMTT(20) DEF BooksFollowExchange
  <2>1. Len(OnTheWay(ShardOf[y])) \in Nat
    BY RoutingAssumption, WayTyped
  <2>2. Leads(books[y], y, OnTheWay(ShardOf[y]), exchange[y])
    BY DEF FollowInv
  <2> QED BY <2>1, <2>2, ReplayLeads, Zenon
<1> QED BY <1>1, <1>2, <1>3, PTL DEF PipeSpec

-----------------------------------------------------------------------------
(***************************************************************************)
(* Sequence numbers.                                                       *)
(***************************************************************************)
Numbers(way) == {way[k].msg.seq : k \in 1 .. Len(way)}
Increasing(way) == \A j, k \in 1 .. Len(way) : j < k => way[j].msg.seq < way[k].msg.seq

\* Of a shard: the numbers on the way grow and are larger than any it has seen;
\* the detector's last is the largest of those; every number given out is seen,
\* on the way or lost; while the detector is LIVE no lost one is between two
\* that were seen.
ShardSeqOK(way, had, lost, g, n) ==
  /\ n \in Nat
  /\ Increasing(way) /\ \A x \in had : \A z \in Numbers(way) : x < z
  /\ g.has \in BOOLEAN /\ (g.has <=> had # {})
  /\ g.has => g.last \in had /\ \A x \in had : x <= g.last
  /\ had \cup Numbers(way) \cup lost = 1 .. n
  /\ had \cap Numbers(way) = {} /\ had \cap lost = {} /\ Numbers(way) \cap lost = {}
  /\ g.has /\ g.state = "Live" => \A x \in lost : x > g.last \/ \A z \in had : x < z

SeqInv ==
  /\ DOMAIN seen = Shards /\ DOMAIN detector = Shards
  /\ \A s \in Shards : ShardSeqOK(OnTheWay(s), seen[s], Missed(s), detector[s], nextSeq[s])

\* The numbers on a way that is appended to,
LEMMA NumbersAppend ==
  ASSUME NEW way \in Seq(Items), NEW qm \in Items
  PROVE  Numbers(Append(way, qm)) = Numbers(way) \cup {qm.msg.seq}
<1>1. /\ Len(Append(way, qm)) = Len(way) + 1 /\ Len(way) \in Nat
      /\ \A k \in 1 .. Len(way) : Append(way, qm)[k] = way[k]
      /\ Append(way, qm)[Len(way) + 1] = qm
  BY AppendProperties
<1>2. 1 .. Len(way) + 1 = (1 .. Len(way)) \cup {Len(way) + 1}
  BY <1>1
<1> QED BY <1>1, <1>2 DEF Numbers

\* and on one that loses its first message.
LEMMA NumbersTail ==
  ASSUME NEW way \in Seq(Items), way # <<>>, Increasing(way)
  PROVE  /\ Numbers(way) = Numbers(Tail(way)) \cup {Head(way).msg.seq}
         /\ \A z \in Numbers(Tail(way)) : Head(way).msg.seq < z
         /\ Increasing(Tail(way)) /\ Numbers(way) \subseteq Nat
<1>1. /\ Len(way) \in Nat \ {0} /\ Len(Tail(way)) = Len(way) - 1 /\ Head(way) = way[1]
      /\ \A k \in 1 .. Len(way) - 1 : Tail(way)[k] = way[k + 1]
  BY HeadTailProperties
<1>2. \A k \in 1 .. Len(way) : k = 1 \/ (k - 1 \in 1 .. Len(way) - 1 /\ (k - 1) + 1 = k)
  BY <1>1
<1>3. \A k \in 1 .. Len(way) - 1 : k + 1 \in 1 .. Len(way) /\ 1 < k + 1 /\ 1 \in 1 .. Len(way)
  BY <1>1
<1>4. \A k \in 1 .. Len(way) : way[k].msg.seq \in Nat
  <2> TAKE k \in 1 .. Len(way)
  <2>1. way[k] \in Items
    OBVIOUS
  <2>2. way[k].msg \in Messages
    BY <2>1, Zenon DEF Items
  <2> QED BY <2>2, MessageTypes
<1>5. Numbers(way) \subseteq Numbers(Tail(way)) \cup {Head(way).msg.seq}
  <2> SUFFICES ASSUME NEW k \in 1 .. Len(way)
               PROVE  way[k].msg.seq \in Numbers(Tail(way)) \cup {Head(way).msg.seq}
    BY DEF Numbers
  <2>1. CASE k = 1
    BY <2>1, <1>1
  <2>2. CASE k # 1
    <3>1. k - 1 \in 1 .. Len(Tail(way)) /\ Tail(way)[k - 1] = way[k]
      BY <2>2, <1>1, <1>2, Zenon
    <3> QED BY <3>1, Zenon DEF Numbers
  <2> QED BY <2>1, <2>2, Zenon
<1>6. \A z \in Numbers(Tail(way)) : z \in Numbers(way) /\ Head(way).msg.seq < z
  <2> SUFFICES ASSUME NEW k \in 1 .. Len(way) - 1
               PROVE  /\ Tail(way)[k].msg.seq \in Numbers(way)
                      /\ Head(way).msg.seq < Tail(way)[k].msg.seq
    BY <1>1, Zenon DEF Numbers
  <2>1. k + 1 \in 1 .. Len(way) /\ 1 \in 1 .. Len(way) /\ 1 < k + 1 /\ Tail(way)[k] = way[k + 1]
    BY <1>1, <1>3, Zenon
  <2>2. way[1].msg.seq < way[k + 1].msg.seq
    BY <2>1, Zenon DEF Increasing
  <2> QED BY <1>1, <2>1, <2>2, Zenon DEF Numbers
<1>7. Head(way).msg.seq \in Numbers(way)
  BY <1>1 DEF Numbers
<1>8. Increasing(Tail(way))
  <2> SUFFICES ASSUME NEW j \in 1 .. Len(way) - 1, NEW k \in 1 .. Len(way) - 1, j < k
               PROVE  Tail(way)[j].msg.seq < Tail(way)[k].msg.seq
    BY <1>1 DEF Increasing
  <2>1. j + 1 \in 1 .. Len(way) /\ k + 1 \in 1 .. Len(way) /\ j + 1 < k + 1
    BY <1>1
  <2> QED BY <1>1, <2>1, Zenon DEF Increasing
<1>9. Numbers(way) \subseteq Nat
  BY <1>4, Zenon DEF Numbers
<1> QED BY <1>5, <1>6, <1>7, <1>8, <1>9, Zenon

\* A message lost or unroutable takes the next number,
LEMMA LostSeqOK ==
  ASSUME NEW way, NEW had, NEW lost, NEW g, NEW n, ShardSeqOK(way, had, lost, g, n)
  PROVE  ShardSeqOK(way, had, lost \cup {n + 1}, g, n + 1)
<1>1. n \in Nat /\ had \subseteq 1 .. n /\ Numbers(way) \subseteq 1 .. n /\ lost \subseteq 1 .. n
  BY DEF ShardSeqOK
<1>2. 1 .. n + 1 = (1 .. n) \cup {n + 1} /\ n + 1 \notin 1 .. n /\ \A x \in 1 .. n : x < n + 1
  BY <1>1
<1>3. had \cup Numbers(way) \cup (lost \cup {n + 1}) = 1 .. n + 1
  BY <1>2, Zenon DEF ShardSeqOK
<1>4. had \cap (lost \cup {n + 1}) = {} /\ Numbers(way) \cap (lost \cup {n + 1}) = {}
  BY <1>1, <1>2, Zenon DEF ShardSeqOK
<1>5. g.has => n + 1 > g.last
  BY <1>1, <1>2, Zenon DEF ShardSeqOK
<1>6. g.has /\ g.state = "Live" => \A x \in lost \cup {n + 1} : x > g.last \/ \A z \in had : x < z
  BY <1>5 DEF ShardSeqOK
<1>7. n + 1 \in Nat
  BY <1>1
<1> QED BY <1>3, <1>4, <1>6, <1>7, Zenon DEF ShardSeqOK

\* and so does one that is taken.
LEMMA TakenSeqOK ==
  ASSUME NEW way \in Seq(Items), NEW had, NEW lost, NEW g, NEW n, ShardSeqOK(way, had, lost, g, n),
         NEW qm \in Items, qm.msg.seq = n + 1
  PROVE  ShardSeqOK(Append(way, qm), had, lost, g, n + 1)
<1>1. n \in Nat /\ had \subseteq 1 .. n /\ Numbers(way) \subseteq 1 .. n /\ lost \subseteq 1 .. n
  BY Zenon DEF ShardSeqOK
<1>2. 1 .. n + 1 = (1 .. n) \cup {n + 1} /\ n + 1 \notin 1 .. n /\ \A x \in 1 .. n : x < n + 1
  BY <1>1
<1>3. Numbers(Append(way, qm)) = Numbers(way) \cup {n + 1}
  BY NumbersAppend, Zenon
<1>4. /\ had \cup Numbers(Append(way, qm)) \cup lost = 1 .. n + 1
      /\ had \cap Numbers(Append(way, qm)) = {} /\ Numbers(Append(way, qm)) \cap lost = {}
  BY <1>1, <1>2, <1>3, Zenon DEF ShardSeqOK
<1>5. \A x \in had : \A z \in Numbers(Append(way, qm)) : x < z
  BY <1>1, <1>2, <1>3 DEF ShardSeqOK
<1>6. Increasing(Append(way, qm))
  <2>1. /\ Len(Append(way, qm)) = Len(way) + 1 /\ Len(way) \in Nat
        /\ \A k \in 1 .. Len(way) : Append(way, qm)[k] = way[k]
        /\ Append(way, qm)[Len(way) + 1] = qm
    BY AppendProperties
  <2>2. \A k \in 1 .. Len(way) : way[k].msg.seq < n + 1
    BY <1>1, <1>2, Zenon DEF Numbers
  <2> SUFFICES ASSUME NEW j \in 1 .. Len(way) + 1, NEW k \in 1 .. Len(way) + 1, j < k
               PROVE  Append(way, qm)[j].msg.seq < Append(way, qm)[k].msg.seq
    BY <2>1, Zenon DEF Increasing
  <2>3. j \in 1 .. Len(way)
    BY <2>1
  <2>4. CASE k = Len(way) + 1
    BY <2>1, <2>2, <2>3, <2>4, Zenon
  <2>5. CASE k \in 1 .. Len(way)
    BY <2>1, <2>3, <2>5, Zenon DEF ShardSeqOK, Increasing
  <2> QED BY <2>1, <2>4, <2>5, SMTT(20)
<1>7. n + 1 \in Nat
  BY <1>1
<1> QED BY <1>4, <1>5, <1>6, <1>7, Zenon DEF ShardSeqOK

\* The first message on the way may be evicted,
LEMMA EvictedSeqOK ==
  ASSUME NEW way \in Seq(Items), way # <<>>, NEW had, NEW lost, NEW g, NEW n,
         ShardSeqOK(way, had, lost, g, n)
  PROVE  ShardSeqOK(Tail(way), had, lost \cup {Head(way).msg.seq}, g, n)
<1> DEFINE e == Head(way).msg.seq
           rest == Numbers(Tail(way))
<1>1. /\ Numbers(way) = rest \cup {e} /\ \A z \in rest : e < z
      /\ Increasing(Tail(way)) /\ Numbers(way) \subseteq Nat
  BY NumbersTail DEF ShardSeqOK
<1> HIDE DEF e, rest
<1>2. e \in Nat /\ e \notin rest /\ rest \subseteq Nat
  BY <1>1
<1>3. /\ had \cup rest \cup (lost \cup {e}) = 1 .. n
      /\ had \cap rest = {} /\ had \cap (lost \cup {e}) = {} /\ rest \cap (lost \cup {e}) = {}
  BY <1>1, <1>2, Zenon DEF ShardSeqOK
<1>4. \A x \in had : x < e /\ \A z \in rest : x < z
  BY <1>1 DEF ShardSeqOK
<1>5. g.has => e > g.last
  <2>1. g.has => g.last \in had /\ g.last \in Nat
    BY DEF ShardSeqOK
  <2> QED BY <1>2, <1>4, <2>1, Zenon
<1>6. g.has /\ g.state = "Live" => \A x \in lost \cup {e} : x > g.last \/ \A z \in had : x < z
  BY <1>5, Zenon DEF ShardSeqOK
<1>7. ShardSeqOK(Tail(way), had, lost \cup {e}, g, n)
  BY <1>1, <1>3, <1>4, <1>6, Zenon DEF ShardSeqOK, rest
<1> QED BY <1>7, Zenon DEF e

\* or be observed: it is never a duplicate, and a gap makes the shard STALE.
LEMMA ObservedSeqOK ==
  ASSUME NEW way \in Seq(Items), way # <<>>, NEW had, NEW lost, NEW g, NEW n,
         ShardSeqOK(way, had, lost, g, n)
  PROVE  ShardSeqOK(Tail(way), had \cup {Head(way).msg.seq}, lost,
                    Observed(g, Head(way).msg.seq), n)
<1> DEFINE e == Head(way).msg.seq
           rest == Numbers(Tail(way))
           o == Observed(g, e)
<1>1. /\ Numbers(way) = rest \cup {e} /\ \A z \in rest : e < z
      /\ Increasing(Tail(way)) /\ Numbers(way) \subseteq Nat
  BY NumbersTail DEF ShardSeqOK
<1> HIDE DEF e, rest
<1>2. e \in Nat /\ e \notin rest /\ rest \subseteq Nat /\ had \subseteq Nat /\ lost \subseteq Nat
  <2>1. had \subseteq 1 .. n /\ lost \subseteq 1 .. n /\ n \in Nat
    BY Zenon DEF ShardSeqOK
  <2> QED BY <1>1, <2>1
<1>3. /\ (had \cup {e}) \cup rest \cup lost = 1 .. n
      /\ (had \cup {e}) \cap rest = {} /\ (had \cup {e}) \cap lost = {} /\ rest \cap lost = {}
  BY <1>1, <1>2, Zenon DEF ShardSeqOK
<1>4. \A x \in had : x < e /\ \A z \in rest : x < z
  BY <1>1 DEF ShardSeqOK
<1>5. /\ g.has \in BOOLEAN /\ (g.has <=> had # {})
      /\ g.has => g.last \in had /\ g.last \in Nat /\ g.last < e
  BY <1>2, <1>4 DEF ShardSeqOK
<1>6. /\ o.has = TRUE /\ o.last = e
      /\ o.state = "Live" => g.state = "Live" /\ (g.has => e = g.last + 1)
  <2>1. CASE ~g.has
    BY <2>1, <1>5, Zenon DEF o, Observed, Classify
  <2>2. CASE g.has
    <3>1. ~(e < g.last + 1)
      BY <2>2, <1>2, <1>5
    <3> QED BY <2>2, <3>1, <1>5, Zenon DEF o, Observed, Classify
  <2> QED BY <1>5, <2>1, <2>2, Zenon
<1> HIDE DEF o
<1>7. ASSUME o.state = "Live", NEW x \in lost
      PROVE  x > e \/ \A z \in had \cup {e} : x < z
  <2>0. x \in Nat /\ x # e
    BY <1>2, <1>3, Zenon
  <2>1. CASE ~g.has
    BY <2>0, <2>1, <1>2, <1>5
  <2>2. CASE g.has
    <3>1. g.state = "Live" /\ e = g.last + 1 /\ g.last \in Nat
      BY <1>5, <1>6, <1>7, <2>2, Zenon
    <3>2. x > g.last \/ \A z \in had : x < z
      BY <3>1, <2>2 DEF ShardSeqOK
    <3>3. CASE x > g.last
      BY <3>1, <3>3, <2>0
    <3>4. CASE \A z \in had : x < z
      <4>1. x < g.last
        BY <3>4, <2>2, <1>5, Zenon
      <4>2. x < e
        BY <4>1, <3>1, <2>0
      <4> QED BY <3>4, <4>2
    <3> QED BY <3>2, <3>3, <3>4, Zenon
  <2> QED BY <1>5, <2>1, <2>2, Zenon
<1>8. \A x \in had \cup {e} : x <= e /\ \A z \in rest : x < z
  BY <1>1, <1>2, <1>4
<1>9. ShardSeqOK(Tail(way), had \cup {e}, lost, o, n)
  <2>1. n \in Nat
    BY Zenon DEF ShardSeqOK
  <2> QED BY <2>1, <1>1, <1>3, <1>6, <1>7, <1>8, Zenon DEF ShardSeqOK, rest
<1> QED BY <1>9 DEF e, o

\* Nothing of a shard's numbers changes.
SameNumbers(s) ==
  /\ OnTheWay(s)' = OnTheWay(s) /\ seen'[s] = seen[s] /\ missed'[s] = missed[s]
  /\ detector'[s] = detector[s] /\ nextSeq'[s] = nextSeq[s]

\* The numbers of a shard in the next state.
NextSeqOK(s) == ShardSeqOK(OnTheWay(s)', seen'[s], Missed(s)', detector'[s], nextSeq'[s])

\* A shard that a step does not concern keeps its numbers in order.
LEMMA SameNumbersOK ==
  ASSUME SeqInv, NEW s \in Shards, SameNumbers(s)
  PROVE  NextSeqOK(s)
<1>1. Missed(s)' = Missed(s)
  BY Zenon DEF SameNumbers, Missed
<1>2. ShardSeqOK(OnTheWay(s), seen[s], Missed(s), detector[s], nextSeq[s])
  BY DEF SeqInv
<1> QED BY <1>1, <1>2, Zenon DEF SameNumbers, NextSeqOK

\* SeqInv is inductive.
LEMMA SeqInvInductive ==
  FeedInv /\ SeqInv /\ [PipeNext]_pipeVars => SeqInv'
<1> SUFFICES ASSUME FeedInv, SeqInv, [PipeNext]_pipeVars PROVE SeqInv'
  OBVIOUS
<1>1. /\ DOMAIN missed = Shards /\ DOMAIN nextSeq = Shards
      /\ DOMAIN seen = Shards /\ DOMAIN detector = Shards
  BY Zenon DEF FeedInv, SeqInv
<1>2. ASSUME NEW s \in Shards
      PROVE  /\ OnTheWay(s) \in Seq(Items)
             /\ ShardSeqOK(OnTheWay(s), seen[s], Missed(s), detector[s], nextSeq[s])
  BY WayTyped, Zenon DEF SeqInv
<1>3. ASSUME NEW t \in Shards, NEW e, missed' = [missed EXCEPT ![t] = @ \cup {e}]
      PROVE  Missed(t)' = Missed(t) \cup {e.seq} /\ \A s \in Shards \ {t} : missed'[s] = missed[s]
  <2>1. missed'[t] = missed[t] \cup {e}
    BY <1>1, <1>3
  <2> QED BY <1>1, <1>3, <2>1, Zenon DEF Missed
<1>4. CASE LoseStep
  <2>1. PICK y \in Symbols, m \in Messages : Sent(y, m) /\ NotTaken(y, m) /\ WaysKept
    BY <1>4, Zenon DEF LoseStep, Sent
  <2>2. PICK t \in Shards : t = ShardOf[y]
    BY RoutingAssumption
  <2>3. /\ seen' = seen /\ detector' = detector /\ m.seq = nextSeq[t] + 1
        /\ nextSeq' = [nextSeq EXCEPT ![t] = @ + 1]
        /\ missed' = [missed EXCEPT ![t] = @ \cup {m}]
    BY <2>1, <2>2, Zenon DEF Sent, NotTaken, NextSeq
  <2>4. NextSeqOK(t)
    <3>1. /\ OnTheWay(t)' = OnTheWay(t) /\ nextSeq'[t] = nextSeq[t] + 1
          /\ Missed(t)' = Missed(t) \cup {nextSeq[t] + 1}
      BY <1>1, <1>3, <2>1, <2>3, Zenon DEF WaysKept
    <3>2. ShardSeqOK(OnTheWay(t), seen[t], Missed(t) \cup {nextSeq[t] + 1}, detector[t], nextSeq[t] + 1)
      BY <1>2, LostSeqOK, Zenon
    <3> QED BY <3>1, <3>2, <2>3, Zenon DEF NextSeqOK
  <2>5. ASSUME NEW s \in Shards, s # t PROVE NextSeqOK(s)
    <3>1. SameNumbers(s)
      BY <1>1, <1>3, <2>1, <2>3, <2>5, Zenon DEF SameNumbers, WaysKept
    <3> QED BY <3>1, SameNumbersOK
  <2>6. \A s \in Shards : NextSeqOK(s)
    BY <2>4, <2>5
  <2> QED BY <1>1, <2>3, <2>6, Zenon DEF SeqInv, NextSeqOK, ShardSeqOK, Numbers, Increasing
<1>5. CASE TakeStep
  <2>1. PICK y \in Symbols, m \in Messages : /\ Sent(y, m) /\ Taken(y, m)
                                /\ Pushed(ShardOf[y], ItemOf(y, m)) /\ ItemOf(y, m) \in Items
    BY <1>5, ZenonT(30) DEF TakeStep, Sent
  <2>2. PICK t \in Shards : t = ShardOf[y]
    BY RoutingAssumption
  <2>3. /\ seen' = seen /\ detector' = detector /\ ItemOf(y, m).msg.seq = nextSeq[t] + 1
        /\ nextSeq' = [nextSeq EXCEPT ![t] = @ + 1] /\ missed' = missed
    BY <2>1, <2>2, Zenon DEF Sent, Taken, NextSeq, ItemOf
  <2>4. NextSeqOK(t)
    <3>1. /\ OnTheWay(t)' = Append(OnTheWay(t), ItemOf(y, m)) /\ nextSeq'[t] = nextSeq[t] + 1
          /\ Missed(t)' = Missed(t)
      BY <1>1, <2>1, <2>2, <2>3, Zenon DEF Pushed, Missed
    <3>2. ShardSeqOK(Append(OnTheWay(t), ItemOf(y, m)), seen[t], Missed(t), detector[t], nextSeq[t] + 1)
      BY <2>1, <2>3, <1>2, TakenSeqOK, Zenon
    <3> QED BY <3>1, <3>2, <2>3, Zenon DEF NextSeqOK
  <2>5. ASSUME NEW s \in Shards, s # t PROVE NextSeqOK(s)
    <3>1. SameNumbers(s)
      BY <1>1, <2>1, <2>2, <2>3, <2>5, Zenon DEF SameNumbers, Pushed
    <3> QED BY <3>1, SameNumbersOK
  <2>6. \A s \in Shards : NextSeqOK(s)
    BY <2>4, <2>5
  <2> QED BY <1>1, <2>3, <2>6, Zenon DEF SeqInv, NextSeqOK, ShardSeqOK, Numbers, Increasing
<1>6. CASE EvictStep
  <2>1. PICK t \in Shards : Evicted(t)
    BY <1>6 DEF EvictStep
  <2>3. /\ seen' = seen /\ detector' = detector /\ nextSeq' = nextSeq
        /\ missed' = [missed EXCEPT ![t] = @ \cup {Head(OnTheWay(t)).msg}]
    BY <1>6, <2>1, Zenon DEF EvictStep, Evicted, SameFeed, shardVars
  <2>4. NextSeqOK(t)
    <3>1. /\ OnTheWay(t) # <<>> /\ OnTheWay(t)' = Tail(OnTheWay(t))
          /\ Missed(t)' = Missed(t) \cup {Head(OnTheWay(t)).msg.seq}
      BY <1>3, <2>1, <2>3, Zenon DEF Evicted, Popped
    <3>2. ShardSeqOK(Tail(OnTheWay(t)), seen[t], Missed(t) \cup {Head(OnTheWay(t)).msg.seq},
                     detector[t], nextSeq[t])
      BY <3>1, <1>2, EvictedSeqOK, Zenon
    <3> QED BY <3>1, <3>2, <2>3, Zenon DEF NextSeqOK
  <2>5. ASSUME NEW s \in Shards, s # t PROVE NextSeqOK(s)
    <3>1. SameNumbers(s)
      BY <1>3, <2>1, <2>3, <2>5, Zenon DEF SameNumbers, Evicted, Popped
    <3> QED BY <3>1, SameNumbersOK, Zenon
  <2>6. \A s \in Shards : NextSeqOK(s)
    BY <2>4, <2>5
  <2> QED BY <1>1, <2>3, <2>6, Zenon DEF SeqInv, NextSeqOK, ShardSeqOK, Numbers, Increasing
<1>7. CASE ProcessStep
  <2>1. PICK t \in Shards :
          ProcessMessage(t) /\ Popped(t) /\ Head(queue[t]) = Head(OnTheWay(t))
    BY <1>7 DEF ProcessStep
  <2>3. /\ seen' = [seen EXCEPT ![t] = @ \cup {Head(OnTheWay(t)).msg.seq}]
        /\ detector' = [detector EXCEPT ![t] = Observed(@, Head(OnTheWay(t)).msg.seq)]
        /\ nextSeq' = nextSeq /\ missed' = missed
    BY <2>1, Zenon DEF ProcessMessage, feedVars
  <2>4. NextSeqOK(t)
    <3>1. /\ OnTheWay(t) # <<>> /\ OnTheWay(t)' = Tail(OnTheWay(t)) /\ Missed(t)' = Missed(t)
          /\ seen'[t] = seen[t] \cup {Head(OnTheWay(t)).msg.seq}
          /\ detector'[t] = Observed(detector[t], Head(OnTheWay(t)).msg.seq)
      BY <1>1, <2>1, <2>3, Zenon DEF Popped, Missed
    <3>2. ShardSeqOK(Tail(OnTheWay(t)), seen[t] \cup {Head(OnTheWay(t)).msg.seq}, Missed(t),
                     Observed(detector[t], Head(OnTheWay(t)).msg.seq), nextSeq[t])
      BY <3>1, <1>2, ObservedSeqOK, Zenon
    <3>3. nextSeq'[t] = nextSeq[t]
      BY <2>3, Zenon
    <3> QED BY <3>1, <3>2, <3>3, Zenon DEF NextSeqOK
  <2>5. ASSUME NEW s \in Shards, s # t PROVE NextSeqOK(s)
    <3>1. SameNumbers(s)
      <4>1. OnTheWay(s)' = OnTheWay(s)
        BY <2>1, <2>5, Zenon DEF Popped
      <4>2. seen'[s] = seen[s] /\ detector'[s] = detector[s]
        BY <1>1, <2>3, <2>5, Zenon
      <4> QED BY <2>3, <4>1, <4>2, Zenon DEF SameNumbers
    <3> QED BY <3>1, SameNumbersOK
  <2>6. \A s \in Shards : NextSeqOK(s)
    BY <2>4, <2>5
  <2>7. DOMAIN seen' = Shards /\ DOMAIN detector' = Shards
    BY <1>1, <2>3
  <2> QED BY <2>6, <2>7, Zenon DEF SeqInv, NextSeqOK, ShardSeqOK, Numbers, Increasing
<1>8. CASE EraseStep \/ QuietStep
  <2>1. WaysKept /\ UNCHANGED <<seen, detector, nextSeq, missed>>
    BY <1>8 DEF EraseStep, EraseRoute, QuietStep, SameFeed, shardVars, feedVars
  <2>2. ASSUME NEW s \in Shards PROVE NextSeqOK(s)
    <3>1. SameNumbers(s)
      BY <2>1 DEF SameNumbers, WaysKept
    <3> QED BY <3>1, SameNumbersOK, Zenon
  <2>3. \A s \in Shards : NextSeqOK(s)
    BY <2>2, Zenon
  <2> QED BY <1>1, <2>1, <2>3, Zenon DEF SeqInv, NextSeqOK, ShardSeqOK, Numbers, Increasing
<1> QED BY <1>4, <1>5, <1>6, <1>7, <1>8, PipeStep, Zenon

\* SeqInv holds at first.
LEMMA SeqInvInit == PipeInit => SeqInv
<1> SUFFICES ASSUME PipeInit PROVE SeqInv
  OBVIOUS
<1>1. ASSUME NEW s \in Shards
      PROVE  ShardSeqOK(OnTheWay(s), seen[s], Missed(s), detector[s], nextSeq[s])
  <2>1. OnTheWay(s) = <<>> \o <<>>
    BY DEF OnTheWay, PipeInit
  <2>2. Len(OnTheWay(s)) = 0
    BY <2>1
  <2>3. Numbers(OnTheWay(s)) = {} /\ Increasing(OnTheWay(s))
    BY <2>2 DEF Numbers, Increasing
  <2>4. seen[s] = {} /\ Missed(s) = {} /\ nextSeq[s] = 0 /\ detector[s].has = FALSE
    BY Zenon DEF PipeInit, NewDetector, Missed
  <2>5. 1 .. nextSeq[s] = {} /\ nextSeq[s] \in Nat
    BY <2>4
  <2>6. detector[s].has \in BOOLEAN /\ (detector[s].has <=> seen[s] # {}) /\ ~detector[s].has
    BY <2>4, Zenon
  <2> QED BY <2>3, <2>4, <2>5, <2>6, Zenon DEF ShardSeqOK
<1> QED BY <1>1 DEF SeqInv, PipeInit

\* Every sequence number is observed, on the way or missed, and only one of
\* these: demux() and process_shard() lose no message without a trace and
\* handle none twice, whatever the network and the full queues drop.
THEOREM MessagesAccounted == PipeSpec => []EveryMessageAccounted
<1>1. PipeInit => FeedInv /\ SeqInv
  BY FeedInvInit, SeqInvInit
<1>2. FeedInv /\ SeqInv /\ [PipeNext]_pipeVars => FeedInv' /\ SeqInv'
  BY FeedInvInductive, SeqInvInductive
<1>3. SeqInv => EveryMessageAccounted
  <2> SUFFICES ASSUME SeqInv, NEW s \in Shards
               PROVE  /\ seen[s] \cup Numbers(OnTheWay(s)) \cup Missed(s) = 1 .. nextSeq[s]
                      /\ seen[s] \cap Numbers(OnTheWay(s)) = {} /\ seen[s] \cap Missed(s) = {}
                      /\ Numbers(OnTheWay(s)) \cap Missed(s) = {}
    BY ZenonT(30) DEF EveryMessageAccounted, Numbers
  <2> QED BY DEF SeqInv, ShardSeqOK
<1> QED BY <1>1, <1>2, <1>3, PTL DEF PipeSpec

\* A shard the gap detector calls LIVE has missed nothing between the first and
\* the last message it observed, be it lost, evicted or unroutable.
THEOREM LiveIsComplete == PipeSpec => []LiveShardComplete
<1>1. PipeInit => FeedInv /\ SeqInv
  BY FeedInvInit, SeqInvInit
<1>2. FeedInv /\ SeqInv /\ [PipeNext]_pipeVars => FeedInv' /\ SeqInv'
  BY FeedInvInductive, SeqInvInductive
<1>3. SeqInv => LiveShardComplete
  BY DEF SeqInv, ShardSeqOK, LiveShardComplete
<1> QED BY <1>1, <1>2, <1>3, PTL DEF PipeSpec
=============================================================================
