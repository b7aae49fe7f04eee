-------------------------- MODULE SharedStateProofs --------------------------
(***************************************************************************)
(* What threads share without a lock.                                      *)
(*                                                                         *)
(* The ring buffer, for every capacity and any number of calls, keeps the  *)
(* properties SpscRingBuffer.tla states.  RingInv is inductive: one lemma  *)
(* per step of push(), notify_waiters(), try_pop() and wait_for_data()     *)
(* shows that the step preserves it.                                       *)
(*                                                                         *)
(* One hop drains its queue before its consumer exits (PipelineStage.tla). *)
(* The ring buffer's invariant carries over, since every step of the hop   *)
(* is a step of the ring buffer or leaves it alone; what is added is where *)
(* the two threads are in their loops.                                     *)
(*                                                                         *)
(* The gap detector, for any range of sequence numbers and any number of   *)
(* resyncs: GapInv is inductive, and a concurrent reader, whatever stores  *)
(* it has yet to see, is not misled by STALE (GapDetector.tla).            *)
(***************************************************************************)
EXTENDS PipelineStage, GapDetector, TLAPS

-----------------------------------------------------------------------------
(***************************************************************************)
(* Slot indices.                                                           *)
(***************************************************************************)

\* Division with remainder, as the provers know it.
LEMMA DivMod ==
  ASSUME NEW a \in Nat, NEW c \in Nat \ {0}
  PROVE  /\ a = c * (a \div c) + (a % c)
         /\ a \div c \in Nat /\ a % c \in 0 .. c - 1
  OBVIOUS

\* Multiples of c are at least c apart.
LEMMA MultiplesApart ==
  ASSUME NEW c \in Nat \ {0}, NEW p \in Nat, NEW q \in Nat, p < q
  PROVE  c * q >= c * p + c
<1>1. PICK d \in Nat : q = p + 1 + d
  BY q - p - 1 \in Nat
<1>2. c * q = c * p + c + c * d
  BY <1>1
<1>3. c * d >= 0
  OBVIOUS
<1> QED
  BY <1>2, <1>3

\* The slot of an item exists: buffer_[i % Capacity] is in bounds.
LEMMA IdxInSlot ==
  ASSUME NEW i \in Nat
  PROVE  Idx(i) \in Slot
  BY CapacityAssumption DEF Idx, Slot

\* Two items fewer than Capacity apart have different slots.
LEMMA IdxDistinct ==
  ASSUME NEW a \in Nat, NEW b \in Nat, a < b, b < a + Capacity
  PROVE  Idx(a) # Idx(b)
<1> DEFINE p == a \div Capacity
           q == b \div Capacity
<1>1. a = Capacity * p + Idx(a) /\ p \in Nat /\ Idx(a) \in Nat
  BY DivMod, CapacityAssumption DEF Idx
<1>2. b = Capacity * q + Idx(b) /\ q \in Nat /\ Idx(b) \in Nat
  BY DivMod, CapacityAssumption DEF Idx
<1> HIDE DEF p, q
<1>3. Capacity * p \in Nat /\ Capacity * q \in Nat
  BY <1>1, <1>2, CapacityAssumption
<1>4. CASE p < q
  <2>1. Capacity * q >= Capacity * p + Capacity
    BY <1>1, <1>2, <1>4, MultiplesApart, CapacityAssumption
  <2> QED
    BY <2>1, <1>1, <1>2, <1>3, CapacityAssumption
<1>5. CASE p = q
  BY <1>1, <1>2, <1>3, <1>5, CapacityAssumption
<1>6. CASE q < p
  <2>1. Capacity * p >= Capacity * q + Capacity
    BY <1>1, <1>2, <1>6, MultiplesApart, CapacityAssumption
  <2> QED
    BY <2>1, <1>1, <1>2, <1>3, CapacityAssumption
<1> QED
  BY <1>1, <1>2, <1>4, <1>5, <1>6

\* The item a full lap later has the same slot.
LEMMA IdxWraps ==
  ASSUME NEW a \in Nat
  PROVE  Idx(a + Capacity) = Idx(a)
<1> DEFINE p == a \div Capacity
           q == (a + Capacity) \div Capacity
<1>1. a = Capacity * p + Idx(a) /\ p \in Nat /\ Idx(a) \in 0 .. Capacity - 1
  BY DivMod, CapacityAssumption, Zenon DEF Idx
<1>2. /\ a + Capacity = Capacity * q + Idx(a + Capacity)
      /\ q \in Nat /\ Idx(a + Capacity) \in 0 .. Capacity - 1
  BY DivMod, CapacityAssumption, a + Capacity \in Nat, Zenon DEF Idx
<1> HIDE DEF p, q
<1>3. /\ Capacity * p \in Nat /\ Capacity * q \in Nat
      /\ Capacity * (p + 1) = Capacity * p + Capacity
  BY <1>1, <1>2, CapacityAssumption
<1>4. CASE p + 1 < q
  <2>1. Capacity * q >= Capacity * (p + 1) + Capacity
    BY <1>1, <1>2, <1>4, MultiplesApart, CapacityAssumption, p + 1 \in Nat
  <2> QED
    BY <2>1, <1>1, <1>2, <1>3, CapacityAssumption
<1>5. CASE p + 1 = q
  BY <1>1, <1>2, <1>3, <1>5, CapacityAssumption
<1>6. CASE q < p + 1
  <2>1. Capacity * (p + 1) >= Capacity * q + Capacity
    BY <1>1, <1>2, <1>6, MultiplesApart, CapacityAssumption, p + 1 \in Nat
  <2> QED
    BY <2>1, <1>1, <1>2, <1>3, CapacityAssumption
<1> QED
  BY <1>1, <1>2, <1>4, <1>5, <1>6

-----------------------------------------------------------------------------
(***************************************************************************)
(* The initial state.                                                      *)
(***************************************************************************)
\* A freshly constructed buffer satisfies the invariant.
LEMMA InitInv == Init => RingInv
<1> SUFFICES ASSUME Init PROVE RingInv
  OBVIOUS
<1>1. TypeOK
  BY DEF Init, TypeOK, ProducerLabel, ConsumerLabel
<1>2. Received = {} /\ Claimed = {} /\ Queued = {}
  BY DEF Init, Received, Claimed, Queued
<1>3. Bounded /\ ProducerInv /\ SlotsInv /\ FlagInv /\ GuessInv /\ ReadInv
  BY <1>2, CapacityAssumption
  DEF Init, Bounded, ProducerInv, SlotsInv, FlagInv, GuessInv, ReadInv
<1>4. HistoryInv /\ DeliveredInOrder /\ DropsCounted /\ WakeInv
  BY <1>2
  DEF Init, HistoryInv, DeliveredInOrder, DropsCounted, WakeInv, WakeSignalPending
<1> QED
  BY <1>1, <1>3, <1>4 DEF RingInv

-----------------------------------------------------------------------------
(***************************************************************************)
(* push().                                                                 *)
(***************************************************************************)
\* push() loading head_ and testing for a full buffer preserves the invariant.
LEMMA PushLoadStep == ASSUME RingInv, PushLoad PROVE RingInv'
<1> USE DEF RingInv, PushLoad, indexVars, slotVars, consVars, histVars
<1>1. TypeOK'
  BY DEF TypeOK, ProducerLabel
<1>2. (Bounded /\ SlotsInv /\ FlagInv /\ GuessInv /\ HistoryInv /\ DeliveredInOrder)'
  BY DEF Bounded, SlotsInv, Queued, FlagInv, GuessInv, HistoryInv, Claimed,
         Received, DeliveredInOrder
<1>3. ProducerInv'
  BY CapacityAssumption DEF ProducerInv, Bounded, TypeOK
<1>4. (ReadInv /\ DropsCounted /\ WakeInv)'
  BY DEF ReadInv, DropsCounted, WakeInv, WakeSignalPending
<1> QED
  BY <1>1, <1>2, <1>3, <1>4

\* push()'s compare_exchange preserves it: won, it drops the oldest item of a
\* full buffer; lost, the consumer has just made the room.
LEMMA PushEvictStep == ASSUME RingInv, PushEvict PROVE RingInv'
<1> USE DEF RingInv, slotVars, consVars
<1>1. CASE head = pHead
  <2>1. /\ head' = head + 1 /\ evicted' = evicted \cup {head} /\ ppc' = "count"
        /\ UNCHANGED <<tail, dropped, gen, slots, readerActive, pHead, npc, cpc,
                       cHead, cTail, cGen, delivered>>
    BY <1>1 DEF PushEvict
  <2>2. tail - head = Capacity /\ ppc = "evict"
    BY <1>1, CapacityAssumption DEF PushEvict, ProducerInv, TypeOK
  <2>3. TypeOK'
    BY <2>1 DEF TypeOK, ProducerLabel
  <2>4. (Bounded /\ ProducerInv /\ SlotsInv)'
    BY <2>1, <2>2, CapacityAssumption
    DEF Bounded, ProducerInv, SlotsInv, Queued, TypeOK
  <2>5. (FlagInv /\ DeliveredInOrder)'
    BY <2>1 DEF FlagInv, DeliveredInOrder
  <2>6. GuessInv' /\ ReadInv'
    BY <2>1, <2>2, CapacityAssumption DEF GuessInv, ReadInv, TypeOK
  <2>7. HistoryInv'
    BY <2>1 DEF HistoryInv, Claimed, Received, ReadInv, TypeOK
  <2>8. DropsCounted'
    BY <2>1, <2>2 DEF DropsCounted, TypeOK
  <2>9. WakeInv'
    BY <2>1, <2>2, CapacityAssumption DEF WakeInv, WakeSignalPending, TypeOK
  <2> QED
    BY <2>3, <2>4, <2>5, <2>6, <2>7, <2>8, <2>9
<1>2. CASE head # pHead
  <2>1. /\ ppc = "evict" /\ ppc' = "spin"
        /\ UNCHANGED <<tail, head, dropped, gen, slots, readerActive, pHead, npc,
                       cpc, cHead, cTail, cGen, delivered, evicted>>
    BY <1>2 DEF PushEvict
  <2>2. TypeOK'
    BY <2>1 DEF TypeOK, ProducerLabel
  <2>3. (Bounded /\ SlotsInv /\ FlagInv /\ GuessInv /\ HistoryInv /\ DeliveredInOrder)'
    BY <2>1 DEF Bounded, SlotsInv, Queued, FlagInv, GuessInv, HistoryInv, Claimed,
                Received, DeliveredInOrder
  <2>4. ProducerInv'
    BY <1>2, <2>1, CapacityAssumption DEF ProducerInv, Bounded, TypeOK
  <2>5. (ReadInv /\ DropsCounted /\ WakeInv)'
    BY <2>1 DEF ReadInv, DropsCounted, WakeInv, WakeSignalPending
  <2> QED
    BY <2>2, <2>3, <2>4, <2>5
<1> QED
  BY <1>1, <1>2

\* Counting the drop preserves it.
LEMMA PushCountStep == ASSUME RingInv, PushCount PROVE RingInv'
<1> USE DEF RingInv, PushCount, slotVars, consVars, histVars
<1>1. TypeOK'
  BY DEF TypeOK, ProducerLabel
<1>2. (Bounded /\ SlotsInv /\ FlagInv /\ GuessInv /\ HistoryInv /\ DeliveredInOrder)'
  BY DEF Bounded, SlotsInv, Queued, FlagInv, GuessInv, HistoryInv, Claimed,
         Received, DeliveredInOrder
<1>3. (ProducerInv /\ ReadInv /\ WakeInv)'
  BY DEF ProducerInv, ReadInv, WakeInv, WakeSignalPending
<1>4. DropsCounted'
  BY DEF DropsCounted, TypeOK
<1> QED
  BY <1>1, <1>2, <1>3, <1>4

\* Leaving the spin loop preserves it: reader_active being false, no claim is
\* reading the slot that push() is about to overwrite.
LEMMA PushSpinStep == ASSUME RingInv, PushSpin PROVE RingInv'
<1> USE DEF RingInv, PushSpin, indexVars, slotVars, consVars, histVars
<1>1. TypeOK'
  BY DEF TypeOK, ProducerLabel
<1>2. (Bounded /\ SlotsInv /\ FlagInv /\ GuessInv /\ HistoryInv /\ DeliveredInOrder)'
  BY DEF Bounded, SlotsInv, Queued, FlagInv, GuessInv, HistoryInv, Claimed,
         Received, DeliveredInOrder
<1>3. (ProducerInv /\ DropsCounted /\ WakeInv)'
  BY DEF ProducerInv, DropsCounted, WakeInv, WakeSignalPending
<1>4. ReadInv'
  <2> SUFFICES ASSUME cpc = "read", tail = cHead + Capacity PROVE FALSE
    BY CapacityAssumption DEF ReadInv, TypeOK
  <2>1. Idx(tail) = Idx(cHead) /\ Idx(cHead) \in Slot
    BY IdxWraps, IdxInSlot DEF TypeOK
  <2> QED
    BY <2>1 DEF FlagInv
<1> QED
  BY <1>1, <1>2, <1>3, <1>4

\* Storing the value preserves it: the slot is neither a queued item's nor the
\* one being read.
LEMMA PushWriteStep == ASSUME RingInv, PushWrite PROVE RingInv'
<1> USE DEF RingInv, indexVars, consVars, histVars
<1>1. /\ ppc = "write" /\ ppc' = "publish" /\ tail \in Nat /\ Idx(tail) \in Slot
      /\ slots' = [slots EXCEPT ![Idx(tail)] = tail]
      /\ UNCHANGED <<tail, head, dropped, gen, readerActive, pHead, npc, cpc,
                     cHead, cTail, cGen, delivered, evicted>>
  BY IdxInSlot DEF PushWrite, TypeOK
<1>2. TypeOK'
  BY <1>1 DEF TypeOK, ProducerLabel
<1>3. (Bounded /\ FlagInv /\ GuessInv /\ HistoryInv /\ DeliveredInOrder)'
  BY <1>1 DEF Bounded, FlagInv, GuessInv, HistoryInv, Claimed, Received, DeliveredInOrder
<1>4. (DropsCounted /\ WakeInv)'
  BY <1>1 DEF DropsCounted, WakeInv, WakeSignalPending
<1>5. ProducerInv'
  BY <1>1 DEF ProducerInv, TypeOK
<1>6. SlotsInv'
  <2> SUFFICES ASSUME NEW i \in Queued PROVE slots'[Idx(i)] = i
    BY <1>1 DEF SlotsInv, Queued
  <2>1. i \in Nat /\ i < tail /\ tail < i + Capacity
    BY <1>1, CapacityAssumption DEF Queued, ProducerInv, TypeOK
  <2>2. Idx(i) # Idx(tail) /\ Idx(i) \in Slot
    BY <1>1, <2>1, IdxDistinct, IdxInSlot
  <2> QED
    BY <1>1, <2>2 DEF SlotsInv, TypeOK
<1>7. ReadInv'
  <2> SUFFICES ASSUME cpc = "read" PROVE ReadInv'
    BY <1>1 DEF ReadInv
  <2>1. cHead \in Nat /\ cHead < tail /\ tail < cHead + Capacity
    BY <1>1 DEF ReadInv, Bounded, TypeOK
  <2>2. Idx(cHead) # Idx(tail) /\ Idx(cHead) \in Slot
    BY <1>1, <2>1, IdxDistinct, IdxInSlot
  <2> QED
    BY <1>1, <2>1, <2>2 DEF ReadInv, TypeOK
<1> QED
  BY <1>2, <1>3, <1>4, <1>5, <1>6, <1>7

\* Publishing tail_ preserves it.
LEMMA PushPublishStep == ASSUME RingInv, PushPublish PROVE RingInv'
<1> USE DEF RingInv, PushPublish, slotVars, consVars, histVars
<1>1. TypeOK'
  BY DEF TypeOK, ProducerLabel
<1>2. (FlagInv /\ HistoryInv /\ DeliveredInOrder)'
  BY DEF FlagInv, HistoryInv, Claimed, Received, DeliveredInOrder
<1>3. (Bounded /\ ProducerInv /\ SlotsInv)'
  BY CapacityAssumption DEF Bounded, ProducerInv, SlotsInv, Queued, TypeOK
<1>4. (GuessInv /\ ReadInv)'
  BY CapacityAssumption DEF GuessInv, ReadInv, TypeOK
<1>5. DropsCounted'
  BY DEF DropsCounted, TypeOK
<1>6. WakeInv'
  BY DEF WakeInv, WakeSignalPending, TypeOK
<1> QED
  BY <1>1, <1>2, <1>3, <1>4, <1>5, <1>6

\* push() incrementing wake_generation_ preserves it.
LEMMA PushBumpStep == ASSUME RingInv, PushBump PROVE RingInv'
<1> USE DEF RingInv, PushBump, slotVars, consVars, histVars
<1>1. TypeOK'
  BY DEF TypeOK, ProducerLabel
<1>2. (Bounded /\ SlotsInv /\ FlagInv /\ HistoryInv /\ DeliveredInOrder)'
  BY DEF Bounded, SlotsInv, Queued, FlagInv, HistoryInv, Claimed, Received,
         DeliveredInOrder
<1>3. (ProducerInv /\ ReadInv /\ DropsCounted)'
  BY DEF ProducerInv, ReadInv, DropsCounted
<1>4. (GuessInv /\ WakeInv)'
  BY DEF GuessInv, WakeInv, WakeSignalPending, TypeOK
<1> QED
  BY <1>1, <1>2, <1>3, <1>4

\* push()'s notify_one() preserves it.
LEMMA PushNotifyStep == ASSUME RingInv, PushNotify PROVE RingInv'
<1> USE DEF RingInv, PushNotify, NotifyOne, indexVars, slotVars, histVars
<1>1. TypeOK'
  BY DEF TypeOK, ProducerLabel, ConsumerLabel
<1>2. (Bounded /\ SlotsInv /\ FlagInv /\ HistoryInv /\ DeliveredInOrder)'
  BY DEF Bounded, SlotsInv, Queued, FlagInv, HistoryInv, Claimed, Received,
         DeliveredInOrder
<1>3. (ProducerInv /\ GuessInv /\ ReadInv /\ DropsCounted)'
  BY DEF ProducerInv, GuessInv, ReadInv, DropsCounted
<1>4. WakeInv'
  BY DEF WakeInv, WakeSignalPending
<1> QED
  BY <1>1, <1>2, <1>3, <1>4

-----------------------------------------------------------------------------
(***************************************************************************)
(* notify_waiters().                                                       *)
(***************************************************************************)
\* notify_waiters() incrementing wake_generation_ preserves it.
LEMMA WaitersBumpStep == ASSUME RingInv, WaitersBump PROVE RingInv'
<1> USE DEF RingInv, WaitersBump, slotVars, prodVars, consVars, histVars
<1>1. TypeOK'
  BY DEF TypeOK
<1>2. (Bounded /\ SlotsInv /\ FlagInv /\ HistoryInv /\ DeliveredInOrder)'
  BY DEF Bounded, SlotsInv, Queued, FlagInv, HistoryInv, Claimed, Received,
         DeliveredInOrder
<1>3. (ProducerInv /\ ReadInv /\ DropsCounted)'
  BY DEF ProducerInv, ReadInv, DropsCounted
<1>4. (GuessInv /\ WakeInv)'
  BY DEF GuessInv, WakeInv, WakeSignalPending, TypeOK
<1> QED
  BY <1>1, <1>2, <1>3, <1>4

\* notify_waiters()'s notify_one() preserves it.
LEMMA WaitersNotifyStep == ASSUME RingInv, WaitersNotify PROVE RingInv'
<1> USE DEF RingInv, WaitersNotify, NotifyOne, indexVars, slotVars, prodVars, histVars
<1>1. TypeOK'
  BY Zenon DEF TypeOK, ConsumerLabel
<1>2. (Bounded /\ SlotsInv /\ FlagInv /\ HistoryInv /\ DeliveredInOrder)'
  BY DEF Bounded, SlotsInv, Queued, FlagInv, HistoryInv, Claimed, Received,
         DeliveredInOrder
<1>3. (ProducerInv /\ GuessInv /\ ReadInv /\ DropsCounted)'
  BY DEF ProducerInv, GuessInv, ReadInv, DropsCounted
<1>4. WakeInv'
  BY DEF WakeInv, WakeSignalPending
<1> QED
  BY <1>1, <1>2, <1>3, <1>4

-----------------------------------------------------------------------------
(***************************************************************************)
(* The consumer's loads.  They change nothing but the consumer's own       *)
(* control and copies.                                                     *)
(***************************************************************************)
\* A load of head_ by try_pop() or wait_for_data() preserves it.
LEMMA LoadHeadStep ==
  ASSUME RingInv, NEW from \in {"idle", "recheck"},
         NEW to \in {"popTail", "checkTail", "recheckTail"}, LoadHead(from, to)
  PROVE  RingInv'
<1> USE DEF RingInv, LoadHead, consOnly, indexVars, slotVars, prodVars, histVars
<1>1. TypeOK'
  BY DEF TypeOK, ConsumerLabel
<1>2. (Bounded /\ ProducerInv /\ SlotsInv /\ FlagInv /\ DeliveredInOrder)'
  BY DEF Bounded, ProducerInv, SlotsInv, Queued, FlagInv, DeliveredInOrder
<1>3. (GuessInv /\ ReadInv)'
  BY DEF GuessInv, Bounded, ReadInv, TypeOK
<1>4. DropsCounted'
  BY DEF DropsCounted
<1>5. WakeInv'
  BY DEF WakeInv, WakeSignalPending, Bounded, GuessInv, TypeOK
<1>6. HistoryInv'
  BY DEF HistoryInv, Claimed, Received
<1> QED
  BY <1>1, <1>2, <1>3, <1>4, <1>5, <1>6

\* A load of tail_ by wait_for_data(), or early by try_pop(), preserves it.
LEMMA LoadTailStep ==
  ASSUME RingInv, NEW from \in {"idle", "recheck"},
         NEW to \in {"popHead", "checkHead", "recheckHead"},
         to = "popHead" => RelaxedGuess, LoadTail(from, to)
  PROVE  RingInv'
<1> USE DEF RingInv, LoadTail, consOnly, indexVars, slotVars, prodVars, histVars
<1>1. TypeOK'
  BY DEF TypeOK, ConsumerLabel
<1>2. (Bounded /\ ProducerInv /\ SlotsInv /\ FlagInv /\ DeliveredInOrder)'
  BY DEF Bounded, ProducerInv, SlotsInv, Queued, FlagInv, DeliveredInOrder
<1>3. (GuessInv /\ ReadInv)'
  BY DEF GuessInv, Bounded, ReadInv, TypeOK
<1>4. DropsCounted'
  BY DEF DropsCounted
<1>5. WakeInv'
  BY DEF WakeInv, WakeSignalPending, Bounded, GuessInv, TypeOK
<1>6. HistoryInv'
  BY DEF HistoryInv, Claimed, Received
<1> QED
  BY <1>1, <1>2, <1>3, <1>4, <1>5, <1>6

\* What a pair of loads of the indices is followed by.
Outcome(from, first, second, third, same, differ) ==
  \/ from = first /\ same = "empty" /\ differ = "announce"
  \/ from = second /\ same = "snapshot" /\ differ = "woken"
  \/ from = third /\ same = "wait" /\ differ = "woken"

\* Loading tail_ second and comparing preserves it.
LEMMA CompareTailStep ==
  ASSUME RingInv, NEW from, NEW same, NEW differ,
         Outcome(from, "popTail", "checkTail", "recheckTail", same, differ),
         CompareTail(from, same, differ)
  PROVE  RingInv'
<1> USE DEF RingInv, CompareTail, Outcome, consOnly, indexVars, slotVars, prodVars, histVars
<1>1. TypeOK'
  BY DEF TypeOK, ConsumerLabel
<1>2. (Bounded /\ ProducerInv /\ SlotsInv /\ FlagInv /\ DeliveredInOrder)'
  BY DEF Bounded, ProducerInv, SlotsInv, Queued, FlagInv, DeliveredInOrder
<1>3. (GuessInv /\ ReadInv)'
  BY DEF GuessInv, Bounded, ReadInv, TypeOK
<1>4. DropsCounted'
  BY DEF DropsCounted
<1>5. WakeInv'
  BY DEF WakeInv, WakeSignalPending, Bounded, GuessInv, TypeOK
<1>6. HistoryInv'
  BY DEF HistoryInv, Claimed, Received
<1> QED
  BY <1>1, <1>2, <1>3, <1>4, <1>5, <1>6, Zenon

\* Loading head_ second and comparing preserves it; the one place where a
\* reordered guess matters, head_ being newer than tail_.
LEMMA CompareHeadStep ==
  ASSUME RingInv, RelaxedGuess => Capacity > 1, NEW from, NEW same, NEW differ,
         Outcome(from, "popHead", "checkHead", "recheckHead", same, differ),
         CompareHead(from, same, differ)
  PROVE  RingInv'
<1> USE DEF RingInv, CompareHead, Outcome, consOnly, indexVars, slotVars, prodVars, histVars
<1>1. TypeOK'
  BY Zenon DEF TypeOK, ConsumerLabel
<1>2. (Bounded /\ ProducerInv /\ SlotsInv /\ FlagInv /\ DeliveredInOrder)'
  BY DEF Bounded, ProducerInv, SlotsInv, Queued, FlagInv, DeliveredInOrder
<1>3. GuessInv'
  BY CapacityAssumption DEF GuessInv, Bounded, TypeOK
<1>4. (ReadInv /\ DropsCounted /\ WakeInv)'
  BY Zenon DEF Bounded, ReadInv, DropsCounted, WakeInv, WakeSignalPending, TypeOK
<1>5. HistoryInv'
  BY DEF HistoryInv, Claimed, Received
<1> QED
  BY <1>1, <1>2, <1>3, <1>4, <1>5

-----------------------------------------------------------------------------
(***************************************************************************)
(* try_pop().                                                              *)
(***************************************************************************)
\* try_pop() raising reader_active preserves it.
LEMMA PopAnnounceStep == ASSUME RingInv, PopAnnounce PROVE RingInv'
<1> USE DEF RingInv, PopAnnounce, SetReaderActive, indexVars, prodVars, histVars
<1>1. TypeOK'
  BY Zenon DEF TypeOK, ConsumerLabel
<1>2. (Bounded /\ ProducerInv /\ SlotsInv /\ DeliveredInOrder)'
  BY Zenon DEF Bounded, ProducerInv, SlotsInv, Queued, DeliveredInOrder
<1>3. (GuessInv /\ ReadInv /\ DropsCounted /\ WakeInv)'
  BY DEF GuessInv, ReadInv, DropsCounted, WakeInv, WakeSignalPending
<1>4. FlagInv'
  BY Zenon DEF FlagInv, TypeOK
<1>5. HistoryInv'
  BY DEF HistoryInv, Claimed, Received
<1> QED
  BY <1>1, <1>2, <1>3, <1>4, <1>5

\* try_pop()'s compare_exchange preserves it: won, the item leaves the queue and
\* its slot is still intact.
LEMMA PopClaimStep == ASSUME RingInv, PopClaim PROVE RingInv'
<1> USE DEF RingInv, slotVars, prodVars, histVars
<1>1. CASE head = cHead
  <2>1. /\ cpc = "claim" /\ cpc' = "read" /\ head' = head + 1
        /\ UNCHANGED <<tail, dropped, gen, slots, readerActive, ppc, pHead, npc,
                       cHead, cTail, cGen, delivered, evicted>>
    BY <1>1 DEF PopClaim
  <2>2. TypeOK'
    BY <2>1 DEF TypeOK, ConsumerLabel
  <2>3. (Bounded /\ ProducerInv /\ SlotsInv /\ FlagInv /\ DeliveredInOrder)'
    BY <1>1, <2>1, CapacityAssumption
    DEF Bounded, ProducerInv, SlotsInv, Queued, FlagInv, DeliveredInOrder, GuessInv, TypeOK
  <2>4. (GuessInv /\ DropsCounted /\ WakeInv)'
    BY <1>1, <2>1, CapacityAssumption DEF GuessInv, DropsCounted, WakeInv, WakeSignalPending, TypeOK
  <2>5. ReadInv'
    BY <1>1, <2>1, CapacityAssumption DEF ReadInv, Bounded, ProducerInv, SlotsInv, Queued, GuessInv, TypeOK
  <2>6. HistoryInv'
    <3>1. Claimed = {} /\ Claimed' = {head} /\ Received' = Received
      BY <1>1, <2>1 DEF Claimed, Received
    <3>2. 0 .. head' - 1 = (0 .. head - 1) \cup {head} /\ head \notin 0 .. head - 1
      BY <2>1 DEF TypeOK
    <3>3. \A x \in Received : x < head
      BY DEF HistoryInv, TypeOK
    <3> QED
      BY <1>1, <2>1, <3>1, <3>2, <3>3 DEF HistoryInv
  <2> QED
    BY <2>2, <2>3, <2>4, <2>5, <2>6
<1>2. CASE head # cHead
  <2>1. /\ cpc = "claim" /\ cpc' = "retract"
        /\ UNCHANGED <<tail, head, dropped, gen, slots, readerActive, ppc, pHead,
                       npc, cHead, cTail, cGen, delivered, evicted>>
    BY <1>2 DEF PopClaim
  <2>2. TypeOK'
    BY <2>1, Zenon DEF TypeOK, ConsumerLabel
  <2>3. (Bounded /\ ProducerInv /\ SlotsInv /\ FlagInv /\ DeliveredInOrder)'
    BY <2>1, Zenon DEF Bounded, ProducerInv, SlotsInv, Queued, FlagInv, DeliveredInOrder
  <2>4. (GuessInv /\ ReadInv /\ DropsCounted /\ WakeInv)'
    BY <2>1, Zenon DEF GuessInv, ReadInv, DropsCounted, WakeInv, WakeSignalPending
  <2>5. HistoryInv'
    BY <2>1 DEF HistoryInv, Claimed, Received
  <2> QED
    BY <2>2, <2>3, <2>4, <2>5
<1> QED
  BY <1>1, <1>2

\* try_pop() lowering reader_active after a lost claim preserves it.
LEMMA PopRetractStep == ASSUME RingInv, PopRetract PROVE RingInv'
<1> USE DEF RingInv, PopRetract, SetReaderActive, indexVars, prodVars, histVars
<1>1. TypeOK'
  BY Zenon DEF TypeOK, ConsumerLabel
<1>2. (Bounded /\ ProducerInv /\ SlotsInv /\ DeliveredInOrder)'
  BY Zenon DEF Bounded, ProducerInv, SlotsInv, Queued, DeliveredInOrder
<1>3. (GuessInv /\ ReadInv /\ DropsCounted /\ WakeInv)'
  BY DEF GuessInv, ReadInv, DropsCounted, WakeInv, WakeSignalPending
<1>4. FlagInv'
  BY Zenon DEF FlagInv, TypeOK
<1>5. HistoryInv'
  BY DEF HistoryInv, Claimed, Received
<1> QED
  BY <1>1, <1>2, <1>3, <1>4, <1>5

\* try_pop() copying the value out preserves it: it is the item claimed, and
\* newer than all items delivered before.
LEMMA PopReadStep == ASSUME RingInv, PopRead PROVE RingInv'
<1> USE DEF RingInv, indexVars, slotVars, prodVars
<1>1. /\ cpc = "read" /\ cpc' = "release" /\ cHead \in Nat
      /\ delivered' = Append(delivered, cHead)
      /\ UNCHANGED <<tail, head, dropped, gen, slots, readerActive, ppc, pHead,
                     npc, cHead, cTail, cGen, evicted>>
  BY DEF PopRead, ReadInv, TypeOK
<1>2. /\ delivered \in Seq(Nat \cup {NoItem}) /\ Len(delivered) \in Nat
      /\ Len(delivered') = Len(delivered) + 1
      /\ \A k \in 1 .. Len(delivered) : delivered'[k] = delivered[k]
      /\ delivered'[Len(delivered) + 1] = cHead
  BY <1>1 DEF TypeOK
<1>3. Received' = Received \cup {cHead}
  <2>1. 1 .. Len(delivered') = (1 .. Len(delivered)) \cup {Len(delivered) + 1}
    BY <1>2
  <2> QED
    BY <1>2, <2>1 DEF Received
<1>4. TypeOK'
  BY <1>1, <1>2 DEF TypeOK, ConsumerLabel
<1>5. (Bounded /\ ProducerInv /\ SlotsInv /\ FlagInv)'
  BY <1>1, Zenon DEF Bounded, ProducerInv, SlotsInv, Queued, FlagInv
<1>6. (GuessInv /\ ReadInv /\ WakeInv)'
  BY <1>1, Zenon DEF GuessInv, ReadInv, WakeInv, WakeSignalPending
<1>7. HistoryInv'
  BY <1>1, <1>3 DEF HistoryInv, Claimed
<1>8. DeliveredInOrder'
  <2>1. \A k \in 1 .. Len(delivered) : delivered[k] < cHead
    BY <1>1 DEF HistoryInv, Received
  <2> QED
    BY <1>2, <2>1 DEF DeliveredInOrder
<1>9. DropsCounted'
  <2>1. dropped \in Nat /\ tail \in Nat /\ head \in Nat
    BY DEF TypeOK
  <2>2. Len(delivered) \in Nat /\ Len(delivered') = Len(delivered) + 1
    BY <1>2
  <2>3. dropped + (IF ppc = "count" THEN 1 ELSE 0) + Len(delivered) + 1 + (tail - head) = tail
    BY <1>1 DEF DropsCounted
  <2>4. DropsCounted' = (dropped + (IF ppc = "count" THEN 1 ELSE 0) + Len(delivered') + 0
                           + (tail - head) = tail)
    BY <1>1 DEF DropsCounted
  <2>5. dropped + (IF ppc = "count" THEN 1 ELSE 0) + Len(delivered') + 0 + (tail - head) = tail
    <3> HIDE DEF RingInv
    <3> QED
      BY <2>1, <2>2, <2>3
  <2> QED
    BY <2>4, <2>5, Zenon
<1> QED
  BY <1>4, <1>5, <1>6, <1>7, <1>8, <1>9, Zenon

\* try_pop() releasing the slot preserves it.
LEMMA PopReleaseStep == ASSUME RingInv, PopRelease PROVE RingInv'
<1> USE DEF RingInv, PopRelease, SetReaderActive, indexVars, prodVars, histVars
<1>1. TypeOK'
  BY Zenon DEF TypeOK, ConsumerLabel
<1>2. (Bounded /\ ProducerInv /\ SlotsInv /\ DeliveredInOrder)'
  BY Zenon DEF Bounded, ProducerInv, SlotsInv, Queued, DeliveredInOrder
<1>3. (GuessInv /\ ReadInv /\ DropsCounted /\ WakeInv)'
  BY DEF GuessInv, ReadInv, DropsCounted, WakeInv, WakeSignalPending
<1>4. FlagInv'
  BY Zenon DEF FlagInv, TypeOK
<1>5. HistoryInv'
  BY Zenon DEF HistoryInv, Claimed, Received
<1> QED
  BY <1>1, <1>2, <1>3, <1>4, <1>5

-----------------------------------------------------------------------------
(***************************************************************************)
(* wait_for_data(), and the caller taking a result.                        *)
(***************************************************************************)
\* The rest of wait_for_data(), and a caller taking a result, preserve it.
LEMMA WaitStep ==
  ASSUME RingInv,
         \/ WaitSnapshot \/ WaitBlock \/ WaitSpurious
         \/ \E r \in {"got", "empty", "woken"} : TakeResult(r)
  PROVE  RingInv'
<1> USE DEF RingInv, WaitSnapshot, WaitBlock, WaitSpurious, TakeResult, consOnly,
            indexVars, slotVars, prodVars, histVars
<1>1. TypeOK'
  BY Zenon DEF TypeOK, ConsumerLabel
<1>2. (Bounded /\ ProducerInv /\ SlotsInv /\ FlagInv /\ DeliveredInOrder)'
  BY Zenon DEF Bounded, ProducerInv, SlotsInv, Queued, FlagInv, DeliveredInOrder
<1>3. (GuessInv /\ ReadInv)'
  BY SMTT(20) DEF GuessInv, ReadInv, TypeOK
<1>4. DropsCounted' /\ WakeInv'
  BY Zenon DEF DropsCounted, WakeInv, WakeSignalPending
<1>5. HistoryInv'
  BY DEF HistoryInv, Claimed, Received
<1> QED
  BY <1>1, <1>2, <1>3, <1>4, <1>5

-----------------------------------------------------------------------------
(***************************************************************************)
(* The theorems.  They ask for Capacity > 1 only where try_pop()'s loads   *)
(* may be reordered.                                                       *)
(***************************************************************************)

\* Every step of the ring buffer preserves RingInv.
LEMMA StepInv ==
  ASSUME RelaxedGuess => Capacity > 1, RingInv, [Next]_vars
  PROVE  RingInv'
<1>1. CASE Producer
  BY <1>1, PushLoadStep, PushEvictStep, PushCountStep, PushSpinStep, PushWriteStep,
     PushPublishStep, PushBumpStep, PushNotifyStep DEF Producer
<1>2. CASE Notifier
  BY <1>2, WaitersBumpStep, WaitersNotifyStep DEF Notifier
<1>3. CASE PopCall
  BY <1>3, LoadHeadStep, LoadTailStep DEF PopCall
<1>4. CASE TryPop
  <2>1. CASE PopCompare
    BY <2>1, CompareTailStep, CompareHeadStep DEF PopCompare, Outcome
  <2> QED
    BY <1>4, <2>1, PopAnnounceStep, PopClaimStep, PopRetractStep, PopReadStep,
       PopReleaseStep DEF TryPop
<1>5. CASE WaitCall
  BY <1>5, LoadHeadStep, LoadTailStep DEF WaitCall
<1>6. CASE WaitForData
  <2>1. CASE WaitCheck
    BY <2>1, CompareTailStep, CompareHeadStep DEF WaitCheck, Outcome
  <2>2. CASE WaitRecheck
    <3>1. CASE LoadHead("recheck", "recheckTail")
      BY <3>1, LoadHeadStep
    <3>2. CASE LoadTail("recheck", "recheckHead")
      BY <3>2, LoadTailStep
    <3>3. CASE CompareTail("recheckTail", "wait", "woken")
      BY <3>3, CompareTailStep DEF Outcome
    <3>4. CASE CompareHead("recheckHead", "wait", "woken")
      BY <3>4, CompareHeadStep DEF Outcome
    <3> QED
      BY <2>2, <3>1, <3>2, <3>3, <3>4 DEF WaitRecheck
  <2> QED
    BY <1>6, <2>1, <2>2, WaitStep DEF WaitForData
<1>7. CASE WaitSpurious \/ \E r \in {"got", "empty", "woken"} : TakeResult(r)
  BY <1>7, WaitStep, Zenon
<1>8. CASE UNCHANGED vars
  <2> USE <1>8 DEF vars, indexVars, slotVars, prodVars, consVars, histVars, RingInv
  <2>1. (TypeOK /\ Bounded /\ ProducerInv /\ SlotsInv /\ FlagInv /\ GuessInv)'
    BY Zenon DEF TypeOK, Bounded, ProducerInv, SlotsInv, Queued, FlagInv, GuessInv
  <2>2. (ReadInv /\ HistoryInv /\ DeliveredInOrder /\ DropsCounted /\ WakeInv)'
    BY DEF ReadInv, HistoryInv, Claimed, Received, DeliveredInOrder, DropsCounted,
           WakeInv, WakeSignalPending
  <2> QED
    BY <2>1, <2>2, Zenon
<1> QED
  BY <1>1, <1>2, <1>3, <1>4, <1>5, <1>6, <1>7, <1>8 DEF Next, Consumer

\* The inductive invariant holds throughout.
THEOREM RingInvariant ==
  ASSUME RelaxedGuess => Capacity > 1
  PROVE  Spec => []RingInv
<1>1. RingInv /\ [Next]_vars => RingInv'
  BY StepInv
<1> QED
  BY <1>1, InitInv, PTL DEF Spec

\* Every variable of the ring buffer keeps its C++ type.
THEOREM TypeCorrect ==
  ASSUME RelaxedGuess => Capacity > 1
  PROVE  Spec => []TypeOK
<1>1. RingInv => TypeOK
  BY DEF RingInv
<1> QED
  BY <1>1, RingInvariant, PTL

\* The plain store of a slot's value in push() and the plain load in try_pop()
\* never happen at the same time: the buffer has no data race.
THEOREM SlotAccessesExclusive ==
  ASSUME RelaxedGuess => Capacity > 1
  PROVE  Spec => []NoSlotRace
<1>1. RingInv => NoSlotRace
  <2> SUFFICES ASSUME RingInv, ppc = "write", cpc = "read" PROVE Idx(tail) # Idx(cHead)
    BY Zenon DEF NoSlotRace
  <2>1. cHead \in Nat /\ tail \in Nat /\ cHead < tail /\ tail < cHead + Capacity
    BY DEF RingInv, ReadInv, Bounded, TypeOK
  <2> QED
    BY <2>1, IdxDistinct
<1> QED
  BY <1>1, RingInvariant, PTL

\* Every item pushed is queued, being read, delivered or evicted, and only one
\* of these: the race of push()'s eviction with try_pop()'s claim has one winner.
THEOREM OneFate ==
  ASSUME RelaxedGuess => Capacity > 1
  PROVE  Spec => []ExactlyOneFate
<1>1. RingInv => ExactlyOneFate
  <2> SUFFICES ASSUME RingInv PROVE ExactlyOneFate
    OBVIOUS
  <2>1. 0 .. tail - 1 = Queued \cup (0 .. head - 1)
    BY DEF RingInv, Bounded, Queued, TypeOK
  <2>2. Queued \cap (0 .. head - 1) = {}
    BY DEF RingInv, Queued, TypeOK
  <2> QED
    BY <2>1, <2>2 DEF RingInv, HistoryInv, ExactlyOneFate
<1> QED
  BY <1>1, RingInvariant, PTL

\* try_pop() hands items out in the order of the pushes, each once.
THEOREM FirstInFirstOut ==
  ASSUME RelaxedGuess => Capacity > 1
  PROVE  Spec => []DeliveredInOrder
<1>1. RingInv => DeliveredInOrder
  BY DEF RingInv
<1> QED
  BY <1>1, RingInvariant, PTL

\* dropped_updates_total() is exact: pushes less deliveries less what is queued.
THEOREM DropCountExact ==
  ASSUME RelaxedGuess => Capacity > 1
  PROVE  Spec => []DropsCounted
<1>1. RingInv => DropsCounted
  BY DEF RingInv
<1> QED
  BY <1>1, RingInvariant, PTL

\* wait_for_data() never leaves the consumer asleep beside a queued item with
\* no notification on its way: the check, snapshot, recheck order is race-free.
THEOREM WakeupNotLost ==
  ASSUME RelaxedGuess => Capacity > 1
  PROVE  Spec => []NoLostWakeup
<1>1. RingInv => NoLostWakeup
  BY DEF RingInv, WakeInv, WakeSignalPending, NoLostWakeup
<1> QED
  BY <1>1, RingInvariant, PTL

\* The eviction of push() takes an item only from a full buffer: a claim by
\* try_pop() since the load of head_ makes the compare_exchange fail.
THEOREM EvictionsNeeded ==
  ASSUME RelaxedGuess => Capacity > 1
  PROVE  Spec => EvictsOnlyWhenFull
<1>1. RingInv /\ [Next]_vars => [evicted' # evicted => tail - head = Capacity]_vars
  <2> SUFFICES ASSUME RingInv, Next, evicted' # evicted PROVE tail - head = Capacity
    BY DEF vars
  <2>1. PushEvict /\ head = pHead
    BY Zenon DEF Next, Producer, PushLoad, PushEvict, PushCount, PushSpin, PushWrite,
           PushPublish, PushBump, PushNotify, Notifier, WaitersBump, WaitersNotify,
           Consumer, PopCall, TryPop, PopCompare, PopAnnounce, PopClaim, PopRetract,
           PopRead, PopRelease, WaitCall, WaitForData, WaitCheck, WaitSnapshot,
           WaitRecheck, WaitBlock, WaitSpurious, TakeResult, LoadHead, LoadTail,
           CompareHead, CompareTail, consOnly, histVars
  <2> QED
    BY <2>1, CapacityAssumption DEF PushEvict, RingInv, ProducerInv, TypeOK
<1> QED
  BY <1>1, RingInvariant, PTL DEF Spec, EvictsOnlyWhenFull

-----------------------------------------------------------------------------
(***************************************************************************)
(* Refinement.                                                             *)
(***************************************************************************)

\* The queue of the refinement mapping, as a sequence: the items from h up to
\* and without t.
LEMMA QueueFacts ==
  ASSUME NEW h \in Nat, NEW t \in Nat, h <= t,
         NEW q, q = [k \in 1 .. t - h |-> h + k - 1]
  PROVE  /\ q \in Seq(Nat) /\ Len(q) = t - h
         /\ h < t => q # <<>> /\ Head(q) = h
         /\ h < t => Tail(q) = [k \in 1 .. t - (h + 1) |-> (h + 1) + k - 1]
         /\ Append(q, t) = [k \in 1 .. (t + 1) - h |-> h + k - 1]
<1>1. t - h \in Nat /\ \A k \in 1 .. t - h : h + k - 1 \in Nat
  OBVIOUS
<1>2. q \in Seq(Nat) /\ Len(q) = t - h
  BY <1>1
<1>3. ASSUME h < t PROVE q # <<>> /\ Head(q) = h
  BY <1>2, <1>3
<1>4. ASSUME h < t PROVE Tail(q) = [k \in 1 .. t - (h + 1) |-> (h + 1) + k - 1]
  <2>1. Tail(q) = [k \in 1 .. Len(q) - 1 |-> q[k + 1]]
    BY <1>2, <1>3, <1>4
  <2>2. \A k \in 1 .. t - (h + 1) : q[k + 1] = (h + 1) + k - 1
    BY <1>2, <1>4
  <2> QED
    BY <2>1, <2>2, <1>2, <1>4
<1>5. Append(q, t) = [k \in 1 .. (t + 1) - h |-> h + k - 1]
  <2>1. /\ Append(q, t) \in Seq(Nat) /\ Len(Append(q, t)) = (t + 1) - h
        /\ \A k \in 1 .. (t + 1) - h : Append(q, t)[k] = h + k - 1
    BY <1>2
  <2> QED
    BY <2>1
<1> QED
  BY <1>2, <1>3, <1>4, <1>5, Zenon


\* Every step of push(), try_pop(), wait_for_data() and notify_waiters() is a
\* step of the abstract queue or leaves it unchanged.
LEMMA StepRefines ==
  ASSUME RingInv, [Next]_vars
  PROVE  [Abstract!Next]_(Abstract!absVars)
<1> DEFINE Stutter == UNCHANGED <<AbsQueue, tail, AbsLost, AbsTaken>>
<1>1. tail \in Nat /\ head \in Nat /\ dropped \in Nat /\ cHead \in Nat /\ head <= tail
  BY DEF RingInv, TypeOK, Bounded
<1>2. /\ Len(AbsQueue) = tail - head
      /\ head < tail => /\ AbsQueue # <<>> /\ Head(AbsQueue) = head
                        /\ Tail(AbsQueue) = [k \in 1 .. tail - (head + 1) |-> (head + 1) + k - 1]
      /\ Append(AbsQueue, tail) = [k \in 1 .. (tail + 1) - head |-> head + k - 1]
  <2>1. AbsQueue = [k \in 1 .. tail - head |-> head + k - 1]
    BY DEF AbsQueue
  <2> QED
    BY <1>1, <2>1, QueueFacts, Zenon
<1>3. CASE PushEvict /\ head = pHead
  <2>1. /\ head' = head + 1 /\ tail' = tail /\ tail - head = Capacity /\ head < tail
        /\ ppc = "evict" /\ ppc' = "count"
        /\ UNCHANGED <<dropped, cpc, cHead, delivered>>
    BY <1>3, <1>1, CapacityAssumption DEF PushEvict, consVars, RingInv, ProducerInv, TypeOK
  <2>2. AbsQueue' = Tail(AbsQueue) /\ AbsTaken' = AbsTaken
    BY <1>2, <2>1, Zenon DEF AbsQueue, AbsTaken
  <2>3. AbsLost' = AbsLost + 1
    BY <1>1, <2>1 DEF AbsLost
  <2>4. Abstract!DropOldest
    BY <1>2, <2>1, <2>2, <2>3, Zenon DEF Abstract!DropOldest
  <2> QED
    BY <2>4 DEF Abstract!Next
<1>4. CASE PushPublish
  <2>1. /\ tail' = tail + 1 /\ head' = head /\ tail - head < Capacity
        /\ ppc = "publish" /\ ppc' = "bump"
        /\ UNCHANGED <<dropped, cpc, cHead, delivered>>
    BY <1>4 DEF PushPublish, consVars, histVars, RingInv, ProducerInv
  <2>2. AbsQueue' = Append(AbsQueue, tail) /\ AbsLost' = AbsLost /\ AbsTaken' = AbsTaken
    BY <1>2, <2>1, Zenon DEF AbsQueue, AbsLost, AbsTaken
  <2> QED
    BY <1>2, <2>1, <2>2, Zenon DEF Abstract!Next, Abstract!Enqueue
<1>5. CASE PopClaim /\ head = cHead
  <2>1. /\ head' = head + 1 /\ tail' = tail /\ head < tail
        /\ cpc = "claim" /\ cpc' = "read"
        /\ UNCHANGED <<dropped, ppc, cHead, delivered>>
    BY <1>5 DEF PopClaim, prodVars, histVars, RingInv, GuessInv
  <2>2. /\ AbsQueue' = Tail(AbsQueue) /\ AbsLost' = AbsLost
        /\ AbsTaken' = Append(AbsTaken, head)
    BY <1>2, <1>5, <2>1, Zenon DEF AbsQueue, AbsLost, AbsTaken
  <2> QED
    BY <1>2, <2>1, <2>2, Zenon DEF Abstract!Next, Abstract!Dequeue
<1>6. CASE PopRead
  <2>1. Stutter
    BY <1>6, Zenon DEF PopRead, indexVars, prodVars, RingInv, ReadInv, AbsQueue, AbsLost, AbsTaken
  <2> QED
    BY <2>1, Zenon DEF Abstract!absVars
<1>7. CASE PushCount
  <2>1. Stutter
    BY <1>1, <1>7 DEF PushCount, consVars, histVars, AbsQueue, AbsLost, AbsTaken
  <2> QED
    BY <2>1 DEF Abstract!absVars
<1>8. CASE /\ UNCHANGED <<tail, head, dropped, delivered>>
           /\ ppc = "count" <=> ppc' = "count"
           /\ cpc = "read" <=> cpc' = "read"
           /\ cpc = "read" => cHead' = cHead
  <2>1. Stutter
    BY <1>8, Zenon DEF AbsQueue, AbsLost, AbsTaken
  <2> QED
    BY <2>1 DEF Abstract!absVars
<1>9. \/ PushEvict /\ head = pHead
      \/ PushPublish
      \/ PopClaim /\ head = cHead
      \/ PopRead \/ PushCount
      \/ /\ UNCHANGED <<tail, head, dropped, delivered>>
         /\ ppc = "count" <=> ppc' = "count"
         /\ cpc = "read" <=> cpc' = "read"
         /\ cpc = "read" => cHead' = cHead
  <2> USE DEF indexVars, slotVars, prodVars, consVars, histVars, consOnly
  <2>1. CASE Producer
    BY <2>1, Zenon DEF Producer, PushLoad, PushEvict, PushSpin, PushWrite, PushBump,
                PushNotify, NotifyOne
  <2>2. CASE Notifier
    BY <2>2 DEF Notifier, WaitersBump, WaitersNotify, NotifyOne
  <2>3. CASE Consumer
    BY <2>3, Zenon DEF Consumer, PopCall, TryPop, PopCompare, PopAnnounce, PopClaim,
                PopRetract, PopRelease, WaitCall, WaitForData, WaitCheck,
                WaitSnapshot, WaitRecheck, WaitBlock, WaitSpurious, TakeResult,
                LoadHead, LoadTail, CompareHead, CompareTail
  <2>4. CASE UNCHANGED vars
    BY <2>4 DEF vars
  <2> QED
    BY <2>1, <2>2, <2>3, <2>4, Zenon DEF Next
<1> QED
  BY <1>3, <1>4, <1>5, <1>6, <1>7, <1>8, <1>9, Zenon

\* The ring buffer implements the drop-oldest queue of DropOldestQueue.tla.
THEOREM Refinement ==
  ASSUME RelaxedGuess => Capacity > 1
  PROVE  Spec => ImplementsDropOldest
<1>1. Init => Abstract!Init
  <2> SUFFICES ASSUME Init PROVE Abstract!Init
    OBVIOUS
  <2>1. AbsQueue = <<>>
    BY DEF Init, AbsQueue
  <2> QED
    BY <2>1 DEF Init, AbsLost, AbsTaken, Abstract!Init
<1>2. RingInv /\ [Next]_vars => [Abstract!Next]_(Abstract!absVars)
  BY StepRefines
<1> QED
  BY <1>1, <1>2, RingInvariant, PTL DEF Spec, ImplementsDropOldest, Abstract!Spec

-----------------------------------------------------------------------------
(***************************************************************************)
(* The hop: PipelineStage.tla.                                             *)
(***************************************************************************)

\* In the drain after the done flag was seen nobody pushes any more, so what
\* try_pop() has loaded is current and its claim cannot be lost.
FinalDrainInv ==
  loop = "final" =>
    /\ cpc \in {"idle", "popTail", "popHead", "announce", "claim", "read",
                "release", "got", "empty"}
    /\ cpc \in {"popTail", "announce", "claim"} => cHead = head
    /\ cpc = "popHead" => cTail = tail
    /\ cpc = "empty" => head = tail

\* The two loops: the flag is stored between pushes and seen between two calls.
LoopInv ==
  /\ done => feeder # "running"
  /\ feeder # "running" => ppc = "idle"
  /\ loop \in {"final", "exited"} => feeder # "running"
  /\ loop \in {"check", "exited"} => cpc = "idle"
  /\ loop = "exited" => head = tail
  /\ FinalDrainInv

StageInv == RingInv /\ LoopInv

-----------------------------------------------------------------------------
\* Whatever the two threads do, the queue takes one of its own steps or none.
LEMMA StageStepIsRingStep == StageNext => [Next]_vars
<1> SUFFICES ASSUME StageNext PROVE Next \/ UNCHANGED vars
  OBVIOUS
<1>1. CASE FeederThread
  BY <1>1, Zenon DEF FeederThread, Feed, StoreDone, SignalWaiters, WakeWaiters, Next, Notifier
<1>2. CASE PopNext \/ PoppedOne \/ DrainReturns \/ FinalDrainReturns
  BY <1>2 DEF PopNext, PoppedOne, DrainReturns, FinalDrainReturns, Next, Consumer
<1>3. CASE LoadDone \/ CallWait \/ WaitReturns \/ InsideCall \/ SpuriousWake
  BY <1>3, Zenon DEF LoadDone, CallWait, WaitReturns, InsideCall, SpuriousWake, Next, Consumer
<1> QED
  BY <1>1, <1>2, <1>3 DEF StageNext, DrainThread

\* push() and notify_waiters() may wake the consumer but move no index once the
\* flag is stored.
LEMMA FeederKeepsLoops == LoopInv /\ FeederThread => LoopInv'
<1> SUFFICES ASSUME LoopInv, FeederThread PROVE LoopInv'
  BY Zenon
<1> USE DEF LoopInv, FinalDrainInv, stageVars
<1>1. CASE Feed
  <2>1. feeder = "running" /\ UNCHANGED <<feeder, done, loop, didWork>>
        /\ (cpc' = cpc \/ cpc = "blocked")
    BY <1>1, Zenon DEF Feed, Producer, PushLoad, PushEvict, PushCount, PushSpin, PushWrite,
       PushPublish, PushBump, PushNotify, NotifyOne, consVars
  <2> QED
    BY <2>1, Zenon
<1>2. CASE StoreDone
  BY <1>2, Zenon DEF StoreDone, vars, indexVars, prodVars, consVars
<1>3. CASE SignalWaiters
  BY <1>3, Zenon DEF SignalWaiters, WaitersBump, prodVars, consVars
<1>4. CASE WakeWaiters
  BY <1>4, Zenon DEF WakeWaiters, WaitersNotify, NotifyOne, indexVars, prodVars
<1> QED
  BY <1>1, <1>2, <1>3, <1>4 DEF FeederThread

\* The consumer leaves its loop only with an empty queue.
LEMMA DrainKeepsLoops == LoopInv /\ (DrainThread \/ SpuriousWake) => LoopInv'
<1> SUFFICES ASSUME LoopInv, DrainThread \/ SpuriousWake PROVE LoopInv'
  BY Zenon
<1> USE DEF LoopInv, FinalDrainInv, stageVars, consOnly, indexVars, prodVars
<1>1. CASE PopNext
  BY <1>1, Zenon DEF PopNext, PopCall, LoadHead, LoadTail
<1>2. CASE PoppedOne \/ DrainReturns \/ FinalDrainReturns \/ WaitReturns
  BY <1>2 DEF PoppedOne, DrainReturns, FinalDrainReturns, WaitReturns, TakeResult
<1>3. CASE LoadDone
  BY <1>3, Zenon DEF LoadDone, vars, consVars
<1>4. CASE CallWait
  BY <1>4, Zenon DEF CallWait, WaitCall, LoadHead, LoadTail
<1>5. CASE InsideCall
  <2>1. CASE TryPop
    BY <1>5, <2>1, Zenon DEF InsideCall, TryPop, PopCompare, CompareTail, CompareHead,
       PopAnnounce, PopClaim, PopRetract, PopRead, PopRelease
  <2>2. CASE WaitForData
    BY <1>5, <2>2, Zenon DEF InsideCall, WaitForData, WaitCheck, CompareTail, CompareHead,
       WaitSnapshot, WaitRecheck, LoadHead, LoadTail, WaitBlock
  <2> QED
    BY <1>5, <2>1, <2>2, Zenon DEF InsideCall
<1>6. CASE SpuriousWake
  BY <1>6 DEF SpuriousWake, WaitSpurious
<1> QED
  BY <1>1, <1>2, <1>3, <1>4, <1>5, <1>6 DEF DrainThread

\* The inductive invariant of a hop: the ring buffer's together with where the
\* two loops of pipeline_runner.cpp are.
THEOREM StageInvariance ==
  ASSUME RelaxedGuess => Capacity > 1
  PROVE  StageSpec => []StageInv
<1>1. StageInit => StageInv
  <2>1. StageInit => LoopInv
    BY DEF StageInit, Init, LoopInv, FinalDrainInv
  <2> QED
    BY <2>1, InitInv, Zenon DEF StageInit, StageInv
<1>2. StageInv /\ [StageNext]_allVars => StageInv'
  <2> SUFFICES ASSUME StageInv, [StageNext]_allVars PROVE StageInv'
    OBVIOUS
  <2>1. [Next]_vars
    BY StageStepIsRingStep DEF allVars
  <2>2. RingInv'
    BY <2>1, StepInv DEF StageInv
  <2>3. CASE StageNext
    BY <2>2, <2>3, FeederKeepsLoops, DrainKeepsLoops DEF StageInv, StageNext
  <2>4. CASE UNCHANGED allVars
    <3>1. LoopInv'
      BY <2>4, Zenon DEF StageInv, LoopInv, FinalDrainInv, allVars, vars, stageVars,
         indexVars, prodVars, consVars
    <3> QED
      BY <2>2, <3>1, Zenon DEF StageInv
  <2> QED
    BY <2>3, <2>4
<1> QED
  BY <1>1, <1>2, PTL DEF StageSpec

\* A decoder or publisher thread exits only once everything pushed before the
\* done flag was delivered or counted as dropped.
THEOREM ExitDrained ==
  ASSUME RelaxedGuess => Capacity > 1
  PROVE  StageSpec => []DrainedAtExit
<1>1. StageInv => DrainedAtExit
  BY Zenon DEF StageInv, RingInv, LoopInv, HistoryInv, Claimed, DrainedAtExit
<1> QED
  BY <1>1, StageInvariance, PTL

-----------------------------------------------------------------------------
(***************************************************************************)
(* The gap detector.                                                       *)
(***************************************************************************)
USE GapBounds

\* An appended sequence has the old entries and the new one.
LEMMA Appended ==
  ASSUME NEW S, NEW s \in Seq(S), NEW e \in S
  PROVE  /\ Append(s, e) \in Seq(S) /\ Append(s, e) # <<>>
         /\ \A k \in 1 .. Len(Append(s, e)) :
              Append(s, e)[k] = e \/ (k \in 1 .. Len(s) /\ Append(s, e)[k] = s[k])
OBVIOUS

\* A sequence over S has a length and entries in S.
LEMMA Listed ==
  ASSUME NEW S, NEW s \in Seq(S)
  PROVE  Len(s) \in Nat /\ (s # <<>> => Len(s) > 0) /\ \A k \in 1 .. Len(s) : s[k] \in S
OBVIOUS

\* What a store takes along is a view; a relaxed one's, or everything before it.
LEMMA ViewsTyped ==
  /\ Unordered \in Views /\ Unordered.numbers = 0
  /\ StoresInv /\ WriterInv => Written \in Views
<1>1. Unordered \in Views /\ Unordered.numbers = 0
  BY DEF Unordered, Views
<1>2. ASSUME StoresInv, WriterInv PROVE Written \in Views
  <2>1. Len(numbers) \in Nat /\ Len(flags) \in Nat /\ gaps \in Nat
    BY <1>2, Listed, Zenon DEF StoresInv, WriterInv
  <2> QED BY <2>1, Zenon DEF Written, Views
<1> QED BY <1>1, <1>2, Zenon

\* GapInv holds at first.
LEMMA GapInitEstablishes == GapInit => GapInv
<1> SUFFICES ASSUME GapInit PROVE GapInv
  BY Zenon
<1>1. WriterInv
  <2>1. has \in BOOLEAN /\ accepted \subseteq SeqNums
    BY Zenon DEF GapInit
  <2>2. last \in 0 .. MaxSeq /\ base \in 0 .. MaxSeq /\ wseq \in 0 .. MaxSeq /\ resyncs \in 0 .. MaxResync
    BY DEF GapInit
  <2>3. base .. last \subseteq accepted \cup {0}
    BY DEF GapInit
  <2> QED BY <2>1, <2>2, <2>3 DEF GapInit, WriterInv
<1>2. StoresInv
  BY DEF GapInit, StoresInv
<1>3. ReaderInv
  BY ViewsTyped DEF GapInit, ReaderInv, NoNumber
<1> QED BY <1>1, <1>2, <1>3, Zenon DEF GapInv

-----------------------------------------------------------------------------
\* observe() keeps WriterInv, store by store.
LEMMA ObserveKeepsWriter == WriterInv /\ Observe => WriterInv'
<1> SUFFICES ASSUME WriterInv, Observe PROVE WriterInv'
  OBVIOUS
<1> USE DEF WriterInv, SeqNums, Hole, detectorVars, readerVars, StoreNumber, StoreFlag, StoreState
<1>1. ASSUME NEW seq \in SeqNums, ObserveCall(seq) PROVE WriterInv'
  BY <1>1 DEF ObserveCall, Classify
<1>2. CASE StoreFirst
  BY <1>2 DEF StoreFirst
<1>3. CASE StoreHas
  BY <1>3, Zenon DEF StoreHas
<1>4. CASE CountGap
  BY <1>4 DEF CountGap
<1>5. CASE MarkStale
  BY <1>5, Zenon DEF MarkStale
<1>6. CASE StoreLast
  <2>1. wpc = "last" /\ last' = wseq /\ accepted' = accepted \cup {wseq} /\ wpc' = "idle"
        /\ UNCHANGED <<has, state, gaps, wseq, resyncs, base>>
    BY <1>6, Zenon DEF StoreLast
  <2>2. base' <= last' /\ \A a \in accepted' : a <= last'
    BY <2>1
  <2>3. state = "Live" => base' .. last' \subseteq accepted' \cup {0}
    BY <2>1
  <2>4. state = "Stale" => gaps > 0 /\ Hole'
    <3>1. CASE Hole
      BY <2>1, <3>1
    <3>2. CASE wseq > last + 1
      <4>1. last + 1 \in base' .. last' /\ last + 1 \notin accepted'
        BY <2>1, <3>2
      <4> QED
        BY <2>1, <4>1, Zenon
    <3> QED
      BY <2>1, <3>1, <3>2, Zenon
  <2>5. last' \in 0 .. MaxSeq /\ accepted' \subseteq SeqNums /\ base' > 0 /\ last' \in accepted'
    BY <2>1
  <2> HIDE DEF Hole
  <2> QED
    BY <2>1, <2>2, <2>3, <2>4, <2>5, Zenon
<1> QED
  BY <1>1, <1>2, <1>3, <1>4, <1>5, <1>6, Zenon DEF Observe

\* So does resync().
LEMMA ResyncKeepsWriter == WriterInv /\ Resync => WriterInv'
<1> SUFFICES ASSUME WriterInv, Resync PROVE WriterInv'
  BY Zenon
<1> USE DEF WriterInv, SeqNums, Hole, StoreNumber, StoreFlag, StoreState
<1>1. ASSUME NEW seq \in SeqNums, ResyncCall(seq) PROVE WriterInv'
  BY <1>1 DEF ResyncCall
<1>2. CASE ResyncHas
  BY <1>2, Zenon DEF ResyncHas
<1>3. CASE ResyncState
  <2>1. base .. last \subseteq accepted
    BY <1>3 DEF ResyncState
  <2> HIDE DEF Hole
  <2> QED
    BY <1>3, <2>1, Zenon DEF ResyncState
<1> QED
  BY <1>1, <1>2, <1>3, Zenon DEF Resync

-----------------------------------------------------------------------------
\* A store to last_seq_num_, to has_last_seq_num_ or to state_ keeps StoresInv if
\* it takes along what StoresInv asks for.
LEMMA NumberKeepsStores ==
  ASSUME StoresInv, NEW seq \in SeqNums, StoreNumber(seq), UNCHANGED <<has, flags, states>>,
         resyncs \in Nat, resyncs' \in Nat, resyncs' >= resyncs
  PROVE  StoresInv'
<1>1. numbers' \in Seq(SeqNums) /\ numbers' # <<>>
  BY Appended, Zenon DEF StoreNumber, StoresInv
<1>2. resyncs > 0 => resyncs' > 0
  OBVIOUS
<1> QED BY <1>1, <1>2, Zenon DEF StoresInv, SeqNums, Views, Informed

\* A store of the flag, likewise.
LEMMA FlagKeepsStores ==
  ASSUME StoresInv, NEW known \in Views, StoreFlag(known), UNCHANGED <<numbers, states, resyncs>>,
         numbers # <<>>, known.numbers > 0 \/ resyncs > 0
  PROVE  StoresInv'
<1>1. /\ flags' \in Seq(Views) /\ flags' # <<>>
      /\ \A k \in 1 .. Len(flags') : flags'[k] = known \/ (k \in 1 .. Len(flags) /\ flags'[k] = flags[k])
  <2>1. flags \in Seq(Views) /\ flags' = Append(flags, known)
    BY Zenon DEF StoreFlag, StoresInv
  <2> QED BY <2>1, Appended
<1>2. \A k \in 1 .. Len(flags') : flags'[k].numbers > 0 \/ resyncs' > 0
  BY <1>1, Zenon DEF StoresInv
<1> QED BY <1>1, <1>2, Zenon DEF StoresInv, SeqNums, Views, Informed

\* A store of the state, likewise.
LEMMA StateKeepsStores ==
  ASSUME StoresInv, NEW s \in {"Live", "Stale"}, NEW known \in Views, StoreState(s, known),
         UNCHANGED <<has, numbers, flags, resyncs>>, s = "Stale" => Informed(known),
         has \/ wpc' \in {"idle", "firstLast"}
  PROVE  StoresInv'
<1> DEFINE new == [state |-> s, known |-> known]
<1>1. /\ new \in [state : {"Live", "Stale"}, known : Views]
      /\ new.state = "Stale" => Informed(new.known)
  OBVIOUS
<1>2. states' = Append(states, new)
  BY Zenon DEF StoreState
<1> HIDE DEF new
<1>3. /\ states' \in Seq([state : {"Live", "Stale"}, known : Views])
      /\ \A k \in 1 .. Len(states') : states'[k] = new \/ (k \in 1 .. Len(states) /\ states'[k] = states[k])
  <2> DEFINE Entries == [state : {"Live", "Stale"}, known : Views]
  <2>1. states \in Seq(Entries) /\ new \in Entries
    BY <1>1, Zenon DEF StoresInv
  <2> HIDE DEF Entries
  <2>2. /\ Append(states, new) \in Seq(Entries)
        /\ \A k \in 1 .. Len(Append(states, new)) :
             Append(states, new)[k] = new \/ (k \in 1 .. Len(states) /\ Append(states, new)[k] = states[k])
    BY <2>1, Appended
  <2> QED BY <1>2, <2>2, Zenon DEF Entries
<1>4. \A k \in 1 .. Len(states') : states'[k].state = "Stale" => Informed(states'[k].known)
  BY <1>1, <1>3, Zenon DEF StoresInv
<1> QED BY <1>3, <1>4, Zenon DEF StoresInv, SeqNums, Views, Informed

\* The writer's stores do.
LEMMA WriterKeepsStores == WriterInv /\ StoresInv /\ (Observe \/ Resync) => StoresInv'
<1> SUFFICES ASSUME WriterInv, StoresInv, Observe \/ Resync PROVE StoresInv'
  BY Zenon
<1>0. /\ resyncs \in Nat /\ resyncs >= resyncs /\ resyncs + 1 \in Nat /\ resyncs + 1 >= resyncs
      /\ wseq > 0 => wseq \in SeqNums
  BY DEF WriterInv, SeqNums
<1>1. ASSUME NEW seq \in SeqNums, ObserveCall(seq) PROVE StoresInv'
  <2>1. wpc' \notin {"idle", "firstLast"} => has
    BY <1>1 DEF ObserveCall, Classify, WriterInv
  <2>2. UNCHANGED <<has, numbers, flags, states, resyncs>>
    BY <1>1, Zenon DEF ObserveCall, detectorVars
  <2> QED BY <2>1, <2>2, Zenon DEF StoresInv, SeqNums, Views, Informed
<1>2. CASE StoreFirst \/ StoreLast
  <2>1. wseq \in SeqNums /\ StoreNumber(wseq) /\ UNCHANGED <<has, flags, states, resyncs>>
    BY <1>0, <1>2, Zenon DEF StoreFirst, StoreLast, WriterInv
  <2> QED BY <2>1, <1>0, NumberKeepsStores, Zenon
<1>3. ASSUME NEW seq \in SeqNums, ResyncCall(seq) PROVE StoresInv'
  BY <1>0, <1>3, NumberKeepsStores, Zenon DEF ResyncCall
<1>4. CASE StoreHas
  <2>1. numbers # <<>> /\ Written \in Views /\ Written.numbers > 0
    <3>1. numbers # <<>> /\ Written \in Views
      BY <1>4, ViewsTyped, Zenon DEF StoreHas, StoresInv
    <3>2. Len(numbers) > 0
      BY <3>1 DEF StoresInv
    <3> QED BY <3>1, <3>2 DEF Written
  <2> QED BY <2>1, <1>4, FlagKeepsStores, Zenon DEF StoreHas
<1>5. CASE ResyncHas
  <2>1. numbers # <<>> /\ resyncs > 0
    BY <1>5, Zenon DEF ResyncHas, StoresInv, WriterInv
  <2> QED BY <2>1, <1>5, ViewsTyped, FlagKeepsStores, Zenon DEF ResyncHas
<1>6. CASE CountGap
  <2>1. wpc = "count" /\ wpc' = "stale" /\ UNCHANGED <<has, numbers, flags, states, resyncs>>
    BY <1>6, Zenon DEF CountGap
  <2> QED BY <2>1, Zenon DEF StoresInv, SeqNums, Views, Informed
<1>7. CASE MarkStale
  <2>1. numbers # <<>> /\ flags # <<>> /\ gaps > 0 /\ has /\ Written \in Views
    BY <1>7, ViewsTyped, Zenon DEF MarkStale, StoresInv, WriterInv
  <2>2. Len(numbers) > 0 /\ Len(flags) > 0
    BY <2>1 DEF StoresInv
  <2>3. Informed(Written)
    BY <2>1, <2>2 DEF Informed, Written
  <2> QED BY <2>1, <2>3, <1>7, StateKeepsStores, Zenon DEF MarkStale
<1>8. CASE ResyncState
  <2>1. "Live" # "Stale" /\ Written \in Views
    BY ViewsTyped
  <2> QED BY <2>1, <1>8, StateKeepsStores, Zenon DEF ResyncState
<1> QED
  BY <1>1, <1>2, <1>3, <1>4, <1>5, <1>6, <1>7, <1>8, Zenon DEF Observe, Resync

\* What a reader has stays true while the writer goes on.
LEMMA WriterKeepsReader == WriterInv /\ ReaderInv /\ (Observe \/ Resync) => ReaderInv'
<1> SUFFICES ASSUME WriterInv, ReaderInv, Observe \/ Resync PROVE ReaderInv'
  BY Zenon
<1>1. UNCHANGED <<rpc, view, rstate, rgaps, rseq>> /\ resyncs' \in {resyncs, resyncs + 1}
  BY Zenon DEF Observe, Resync, ObserveCall, StoreFirst, StoreHas, CountGap, MarkStale, StoreLast,
               ResyncCall, ResyncHas, ResyncState, readerVars
<1>2. resyncs > 0 => resyncs' > 0
  BY <1>1 DEF WriterInv
<1> QED BY <1>1, <1>2, Zenon DEF ReaderInv, Views, Informed

-----------------------------------------------------------------------------
\* A reader's loads keep what it has.
LEMMA ReadKeepsReader == WriterInv /\ StoresInv /\ ReaderInv /\ Reader => ReaderInv'
<1> SUFFICES ASSUME WriterInv, StoresInv, ReaderInv, Reader PROVE ReaderInv'
  BY Zenon
<1>1. resyncs' = resyncs
  BY Zenon DEF Reader, ReadState, ReadGaps, ReadHas, ReadNumber, writerVars
<1>2. CASE ReadState
  <2>1. \A k \in 1 .. Len(states) : states[k] \in [state : {"Live", "Stale"}, known : Views]
    BY Listed, Zenon DEF StoresInv
  <2>2. rstate' \in {"Live", "Stale"} /\ view' \in Views /\ (rstate' = "Stale" => Informed(view'))
    <3>1. CASE rstate' = "Live" /\ view' = Unordered
      BY <3>1, ViewsTyped
    <3>2. ASSUME NEW k \in 1 .. Len(states), rstate' = states[k].state, view' = states[k].known
          PROVE  rstate' \in {"Live", "Stale"} /\ view' \in Views /\ (rstate' = "Stale" => Informed(view'))
      BY <3>2, <2>1, Zenon DEF StoresInv
    <3> QED BY <1>2, <3>1, <3>2, Zenon DEF ReadState
  <2>3. rpc' = "gaps" /\ rgaps' = 0 /\ rseq' = NoNumber
    BY <1>2, Zenon DEF ReadState
  <2>4. rseq' \in -1 .. MaxSeq /\ rgaps' \in Nat
    BY <2>3 DEF NoNumber
  <2> QED BY <2>2, <2>3, <2>4, Zenon DEF ReaderInv, Views, Informed, NoNumber
<1>3. CASE ReadGaps
  <2>1. /\ rpc = "gaps" /\ rpc' = "has" /\ UNCHANGED <<view, rstate, rseq>>
        /\ rgaps' \in view.gaps .. gaps /\ view.gaps \in Nat /\ gaps \in Nat
    BY <1>3, Zenon DEF ReadGaps, ReaderInv, Views, WriterInv
  <2>2. rgaps' \in Nat /\ (view.gaps > 0 => rgaps' > 0)
    BY <2>1
  <2>3. rstate = "Stale" => Informed(view) /\ view.gaps > 0
    BY <2>1, Zenon DEF ReaderInv, Informed
  <2> QED BY <2>1, <2>2, <2>3, <1>1, Zenon DEF ReaderInv, Views, Informed
<1>4. CASE ReadHas
  <2>1. rpc = "has" /\ UNCHANGED <<rstate, rgaps, rseq>>
    BY <1>4, Zenon DEF ReadHas
  <2>2. PICK k \in view.flags .. Len(flags) :
          IF k = 0 THEN rpc' = "done" /\ view' = view
          ELSE /\ rpc' = "number"
               /\ view' = [view EXCEPT !.numbers = IF view.numbers < flags[k].numbers
                                                   THEN flags[k].numbers ELSE view.numbers]
    BY <1>4, Zenon DEF ReadHas
  <2>3. PICK f \in Nat : f = view.flags
    BY Zenon DEF ReaderInv, Views
  <2>4. CASE k = 0
    <3>1. ~(view.flags > 0)
      BY <2>3, <2>4
    <3>2. rstate # "Stale"
      BY <3>1, <2>1, Zenon DEF ReaderInv, Informed
    <3>3. rseq = -1 /\ rseq # 0
      BY <2>1 DEF ReaderInv, NoNumber
    <3> QED BY <3>2, <3>3, <2>1, <2>2, <2>4, Zenon DEF ReaderInv, Views, Informed
  <2>5. CASE k # 0
    <3>1. k \in 1 .. Len(flags)
      BY <2>2, <2>3, <2>5, Listed DEF StoresInv
    <3>2. /\ flags[k] \in Views /\ flags[k].numbers \in Nat /\ (flags[k].numbers > 0 \/ resyncs > 0)
          /\ view \in Views /\ view.numbers \in Nat
      <4>1. flags[k] \in Views /\ (flags[k].numbers > 0 \/ resyncs > 0) /\ view \in Views
        BY <3>1, Listed, Zenon DEF StoresInv, ReaderInv
      <4> QED BY <4>1, Zenon DEF Views
    <3>3. PICK n \in Nat : n = IF view.numbers < flags[k].numbers THEN flags[k].numbers ELSE view.numbers
      BY <3>2, Zenon
    <3>4. (view.numbers > 0 => n > 0) /\ (n > 0 \/ resyncs > 0)
      BY <3>2, <3>3
    <3>5. view' = [view EXCEPT !.numbers = n] /\ rpc' = "number"
      BY <2>2, <2>5, <3>3, Zenon
    <3>6. view' \in Views /\ view'.numbers = n /\ view'.flags = view.flags /\ view'.gaps = view.gaps
      BY <3>2, <3>5 DEF Views
    <3>7. rstate = "Stale" => Informed(view')
      BY <3>4, <3>6, <2>1, Zenon DEF ReaderInv, Informed
    <3> QED BY <3>4, <3>5, <3>6, <3>7, <2>1, <1>1, Zenon DEF ReaderInv, Views, Informed, NoNumber
  <2> QED BY <2>4, <2>5, Zenon
<1>5. CASE ReadNumber
  <2>1. rpc = "number" /\ rpc' = "done" /\ UNCHANGED <<view, rstate, rgaps>>
    BY <1>5, Zenon DEF ReadNumber
  <2>2. PICK k \in view.numbers .. Len(numbers) : rseq' = IF k = 0 THEN 0 ELSE numbers[k]
    BY <1>5, Zenon DEF ReadNumber
  <2>3. PICK f \in Nat : f = view.numbers
    BY Zenon DEF ReaderInv, Views
  <2>4. CASE k = 0
    <3>1. ~(view.numbers > 0) /\ rseq' = 0 /\ rseq' \in -1 .. MaxSeq
      BY <2>2, <2>3, <2>4
    <3>2. rstate # "Stale" /\ resyncs > 0
      BY <3>1, <2>1, Zenon DEF ReaderInv, Informed
    <3> QED BY <3>1, <3>2, <2>1, <1>1, Zenon DEF ReaderInv, Views, Informed
  <2>5. CASE k # 0
    <3>1. k \in 1 .. Len(numbers)
      BY <2>2, <2>3, <2>5, Listed DEF StoresInv
    <3>2. rseq' \in SeqNums
      BY <3>1, <2>2, <2>5, Listed, Zenon DEF StoresInv
    <3>3. rseq' \in -1 .. MaxSeq /\ rseq' > 0 /\ rseq' # 0
      BY <3>2 DEF SeqNums
    <3> QED BY <3>3, <2>1, <1>1, Zenon DEF ReaderInv, Views, Informed
  <2> QED BY <2>4, <2>5, Zenon
<1> QED BY <1>2, <1>3, <1>4, <1>5, Zenon DEF Reader

\* A reader's loads leave the detector and its writer alone.
LEMMA ReadKeepsRest == WriterInv /\ StoresInv /\ Reader => WriterInv' /\ StoresInv'
<1> SUFFICES ASSUME WriterInv, StoresInv, Reader PROVE WriterInv' /\ StoresInv'
  BY Zenon
<1>1. /\ UNCHANGED <<has, last, state, gaps, numbers, flags, states>>
      /\ UNCHANGED <<wpc, wseq, resyncs, base, accepted>>
  BY Zenon DEF Reader, ReadState, ReadGaps, ReadHas, ReadNumber, detectorVars, writerVars
<1>2. WriterInv'
  BY <1>1, Zenon DEF WriterInv, SeqNums, Hole
<1>3. StoresInv'
  BY <1>1, Zenon DEF StoresInv, SeqNums, Views, Informed
<1> QED BY <1>2, <1>3, Zenon

-----------------------------------------------------------------------------
\* GapInv holds throughout, for any MaxSeq and MaxResync: what the writer finds,
\* what its stores take along and what a reader may rely on.
THEOREM GapInvariance == GapSpec => []GapInv
<1>1. GapInv /\ UNCHANGED gapVars => GapInv'
  <2> SUFFICES ASSUME GapInv, UNCHANGED gapVars PROVE GapInv'
    BY Zenon
  <2>1. /\ UNCHANGED <<has, last, state, gaps, numbers, flags, states>>
        /\ UNCHANGED <<wpc, wseq, resyncs, base, accepted>> /\ UNCHANGED <<rpc, view, rstate, rgaps, rseq>>
    BY Zenon DEF gapVars, detectorVars, writerVars, readerVars
  <2>2. WriterInv'
    BY <2>1, Zenon DEF GapInv, WriterInv, SeqNums, Hole
  <2>3. StoresInv'
    BY <2>1, Zenon DEF GapInv, StoresInv, SeqNums, Views, Informed
  <2>4. ReaderInv'
    BY <2>1, Zenon DEF GapInv, ReaderInv, Views, Informed
  <2> QED BY <2>2, <2>3, <2>4, Zenon DEF GapInv
<1>2. GapInv /\ GapNext => GapInv'
  BY ObserveKeepsWriter, ResyncKeepsWriter, WriterKeepsStores, WriterKeepsReader, ReadKeepsReader,
     ReadKeepsRest, Zenon DEF GapNext, GapInv
<1> QED
  BY <1>1, <1>2, GapInitEstablishes, PTL DEF GapSpec

\* After every call the detector is STALE just when a number is missing between
\* where tracking began and the last one: no gap goes unnoticed, none is made up.
THEOREM StaleExactlyOnHole == GapSpec => []StaleIffHole
<1>1. GapInv => StaleIffHole
  <2> SUFFICES ASSUME GapInv, wpc = "idle", has PROVE state = "Stale" <=> Hole
    BY Zenon DEF StaleIffHole
  <2>1. CASE state = "Stale"
    BY <2>1 DEF GapInv, WriterInv
  <2>2. CASE state = "Live"
    <3>1. base .. last \subseteq accepted \cup {0} /\ \A h \in base .. last : h # 0
      BY <2>2 DEF GapInv, WriterInv
    <3>2. ~Hole
      BY <3>1, Zenon DEF Hole
    <3> QED BY <3>2, <2>2
  <2> QED BY <2>1, <2>2, Zenon DEF GapInv, WriterInv
<1> QED
  BY <1>1, GapInvariance, PTL

\* Whatever stores a concurrent reader has yet to see: if it meets STALE it finds
\* the gap counted and a number, and last_seq_num() gives it no number that was
\* never stored, before resync().
THEOREM ReaderNotMisled == GapSpec => []ReaderInformed
<1>1. GapInv => ReaderInformed
  BY Zenon DEF GapInv, ReaderInv, ReaderInformed
<1> QED
  BY <1>1, GapInvariance, PTL

\* A late or repeated message neither rewinds the detector nor clears STALE.
THEOREM RewindNeedsResync == GapSpec => OnlyResyncRewinds
<1> DEFINE Rewinds == (last' < last \/ (state = "Stale" /\ state' = "Live"))
           Resyncs == wpc = "resyncState" \/ resyncs' = resyncs + 1
<1>1. GapInv /\ [GapNext]_gapVars => [Rewinds => Resyncs]_gapVars
  <2> SUFFICES ASSUME GapInv, GapNext, Rewinds PROVE Resyncs
    BY DEF gapVars
  <2>1. ASSUME NEW seq \in SeqNums, ObserveCall(seq) PROVE Resyncs
    BY <2>1 DEF ObserveCall, detectorVars, GapInv, WriterInv
  <2>0. /\ last \in Int /\ wseq \in Int /\ ~(last < last)
        /\ wpc \in {"firstLast", "last"} => ~(wseq < last)
    BY DEF GapInv, WriterInv
  <2>2. CASE StoreFirst \/ StoreHas \/ CountGap \/ MarkStale \/ StoreLast
    <3>1. CASE StoreFirst \/ StoreLast
      <4>1. wpc \in {"firstLast", "last"} /\ last' = wseq /\ state' = state
        BY <3>1, Zenon DEF StoreFirst, StoreLast, StoreNumber
      <4> QED
        BY <2>0, <4>1
    <3>2. CASE StoreHas \/ CountGap \/ MarkStale
      <4>1. last' = last /\ state' \in {state, "Stale"}
        BY <3>2, Zenon DEF StoreHas, CountGap, MarkStale, StoreState
      <4> QED
        BY <2>0, <4>1
    <3> QED
      BY <2>2, <3>1, <3>2, Zenon
  <2>3. ASSUME NEW seq \in SeqNums, ResyncCall(seq) PROVE Resyncs
    BY <2>3 DEF ResyncCall
  <2>4. CASE ResyncHas \/ ResyncState \/ Reader
    <3>1. wpc = "resyncState" \/ (last' = last /\ state' = state)
      BY <2>4, Zenon DEF ResyncHas, ResyncState, Reader, ReadState, ReadGaps, ReadHas, ReadNumber, detectorVars
    <3> QED
      BY <2>0, <3>1
  <2> QED
    BY <2>1, <2>2, <2>3, <2>4, Zenon DEF GapNext, Observe, Resync
<1> QED
  BY <1>1, GapInvariance, PTL DEF GapSpec, OnlyResyncRewinds
=============================================================================
