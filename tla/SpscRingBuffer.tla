--------------------------- MODULE SpscRingBuffer ---------------------------
(***************************************************************************)
(* concurrency/spsc_ring_buffer.hpp: the bounded drop-oldest queue between *)
(* two threads, one step per access to shared memory.                      *)
(*                                                                         *)
(* The i-th item pushed is represented by the number i (its payload is     *)
(* never looked at), so the slot for it is i % Capacity and `tail' is also *)
(* the item the producer is pushing.  The two histories `delivered' and    *)
(* `evicted' record what try_pop() handed out and which items push()       *)
(* counted as dropped; the program has neither.                            *)
(*                                                                         *)
(* A step reads or writes the latest value of one atomic.  The exception   *)
(* the code allows: try_pop() loads head_ relaxed and then tail_ acquire,  *)
(* and an acquire load does not keep an earlier relaxed load from being    *)
(* performed after it.  RelaxedGuess = TRUE admits that order as well.  A  *)
(* compare_exchange acquires also when it fails, as the instructions that  *)
(* x86-64 and AArch64 have for it do; the C++ orders alone do not ask it.  *)
(***************************************************************************)
EXTENDS Integers, Sequences, FiniteSets

CONSTANTS Capacity,      \* the template parameter
          MaxPush,       \* bound: push() calls
          MaxNotify,     \* bound: notify_waiters() calls
          RelaxedGuess   \* may try_pop()'s two loads be reordered?

ASSUME CapacityAssumption == Capacity \in Nat \ {0}
ASSUME BoundsAssumption == MaxPush \in Nat /\ MaxNotify \in Nat
ASSUME RelaxedGuessAssumption == RelaxedGuess \in BOOLEAN

VARIABLES tail, head, dropped, gen,  \* tail_, head_, dropped_updates_total_, wake_generation_
          slots, readerActive,       \* buffer_[i].value, buffer_[i].reader_active
          ppc, pHead,                \* push(): control, and the loaded head
          npc,                       \* notify_waiters(): control
          cpc, cHead, cTail, cGen,   \* try_pop() / wait_for_data(): control and loaded values
          delivered, evicted         \* histories

indexVars == <<tail, head, dropped, gen>>
slotVars == <<slots, readerActive>>
prodVars == <<ppc, pHead>>
consVars == <<cpc, cHead, cTail, cGen>>
histVars == <<delivered, evicted>>
vars == <<indexVars, slotVars, prodVars, npc, consVars, histVars>>

Slot == 0 .. Capacity - 1
NoItem == -1  \* a slot's value-initialised T

Idx(i) == i % Capacity

ProducerLabel ==
  {"idle", "evict", "count", "spin", "write", "publish", "bump", "notify"}

\* Between calls the consumer is at "idle"; "got", "empty" and "woken" are the
\* returns of try_pop() = true, try_pop() = false and wait_for_data().
ConsumerLabel ==
  {"idle", "got", "empty", "woken",
   "popTail", "popHead", "announce", "claim", "retract", "read", "release",
   "checkTail", "checkHead", "snapshot", "recheck", "recheckTail", "recheckHead",
   "wait", "blocked"}

Init ==
  /\ tail = 0 /\ head = 0 /\ dropped = 0 /\ gen = 0
  /\ slots = [s \in Slot |-> NoItem]
  /\ readerActive = [s \in Slot |-> FALSE]
  /\ ppc = "idle" /\ pHead = 0
  /\ npc = "idle"
  /\ cpc = "idle" /\ cHead = 0 /\ cTail = 0 /\ cGen = 0
  /\ delivered = <<>> /\ evicted = {}

-----------------------------------------------------------------------------
(***************************************************************************)
(* push().                                                                 *)
(***************************************************************************)

\* Load tail_ (the producer's own) and head_; a full buffer goes on to evict.
PushLoad ==
  /\ ppc = "idle"
  /\ tail < MaxPush
  /\ pHead' = head
  /\ ppc' = IF tail - head >= Capacity THEN "evict" ELSE "spin"
  /\ UNCHANGED <<indexVars, slotVars, npc, consVars, histVars>>

\* Faulty: head_ advanced without comparing it with the loaded value.
PushEvictUnchecked ==
  /\ ppc = "evict"
  /\ head' = head + 1
  /\ evicted' = evicted \cup {head}
  /\ ppc' = "count"
  /\ UNCHANGED <<tail, dropped, gen, slotVars, pHead, npc, consVars, delivered>>

\* Faulty: an eviction that is not counted.
PushEvictUncounted ==
  /\ ppc = "evict"
  /\ IF head = pHead
       THEN head' = head + 1 /\ evicted' = evicted \cup {head}
       ELSE UNCHANGED <<head, evicted>>
  /\ ppc' = "spin"
  /\ UNCHANGED <<tail, dropped, gen, slotVars, pHead, npc, consVars, delivered>>

\* compare_exchange of head_ from the loaded value.
PushEvict ==
  /\ ppc = "evict"
  /\ IF head = pHead
       THEN /\ head' = head + 1
            /\ evicted' = evicted \cup {head}
            /\ ppc' = "count"
       ELSE /\ UNCHANGED <<head, evicted>>
            /\ ppc' = "spin"
  /\ UNCHANGED <<tail, dropped, gen, slotVars, pHead, npc, consVars, delivered>>

\* Won: dropped_updates_total_.fetch_add(1).
PushCount ==
  /\ ppc = "count"
  /\ dropped' = dropped + 1
  /\ ppc' = "spin"
  /\ UNCHANGED <<tail, head, gen, slotVars, pHead, npc, consVars, histVars>>

\* The spin loop is left at a load of reader_active that returns false.
PushSpin ==
  /\ ppc = "spin"
  /\ ~readerActive[Idx(tail)]
  /\ ppc' = "write"
  /\ UNCHANGED <<indexVars, slotVars, pHead, npc, consVars, histVars>>

\* target.value = item, a plain store.
PushWrite ==
  /\ ppc = "write"
  /\ slots' = [slots EXCEPT ![Idx(tail)] = tail]
  /\ ppc' = "publish"
  /\ UNCHANGED <<indexVars, readerActive, pHead, npc, consVars, histVars>>

PushPublish ==
  /\ ppc = "publish"
  /\ tail' = tail + 1
  /\ ppc' = "bump"
  /\ UNCHANGED <<head, dropped, gen, slotVars, pHead, npc, consVars, histVars>>

\* Faulty: the generation moves on but nobody is notified.
PushBumpSilent ==
  /\ ppc = "bump"
  /\ gen' = gen + 1
  /\ ppc' = "idle"
  /\ UNCHANGED <<tail, head, dropped, slotVars, pHead, npc, consVars, histVars>>

PushBump ==
  /\ ppc = "bump"
  /\ gen' = gen + 1
  /\ ppc' = "notify"
  /\ UNCHANGED <<tail, head, dropped, slotVars, pHead, npc, consVars, histVars>>

\* wake_generation_.notify_one(): a sleeping consumer rechecks the generation.
NotifyOne ==
  /\ cpc' = IF cpc = "blocked" THEN "wait" ELSE cpc
  /\ UNCHANGED <<cHead, cTail, cGen>>

PushNotify ==
  /\ ppc = "notify"
  /\ NotifyOne
  /\ ppc' = "idle"
  /\ UNCHANGED <<indexVars, slotVars, pHead, npc, histVars>>

Producer ==
  \/ PushLoad \/ PushEvict \/ PushCount \/ PushSpin
  \/ PushWrite \/ PushPublish \/ PushBump \/ PushNotify

-----------------------------------------------------------------------------
(***************************************************************************)
(* notify_waiters(), called by whichever thread signals shutdown.          *)
(***************************************************************************)
WaitersBump ==
  /\ npc = "idle"
  /\ gen - tail < MaxNotify
  /\ gen' = gen + 1
  /\ npc' = "notify"
  /\ UNCHANGED <<tail, head, dropped, slotVars, prodVars, consVars, histVars>>

WaitersNotify ==
  /\ npc = "notify"
  /\ NotifyOne
  /\ npc' = "idle"
  /\ UNCHANGED <<indexVars, slotVars, prodVars, histVars>>

Notifier == WaitersBump \/ WaitersNotify

-----------------------------------------------------------------------------
(***************************************************************************)
(* The consumer's loads of the two indices.  A pair of loads decides       *)
(* between `same' (the queue looks empty) and `differ'.                    *)
(***************************************************************************)
consOnly == <<indexVars, slotVars, prodVars, npc, histVars>>

LoadHead(from, to) ==
  /\ cpc = from /\ cpc' = to
  /\ cHead' = head
  /\ UNCHANGED <<cTail, cGen, consOnly>>

LoadTail(from, to) ==
  /\ cpc = from /\ cpc' = to
  /\ cTail' = tail
  /\ UNCHANGED <<cHead, cGen, consOnly>>

CompareTail(from, same, differ) ==
  /\ cpc = from
  /\ cTail' = tail
  /\ cpc' = IF tail = cHead THEN same ELSE differ
  /\ UNCHANGED <<cHead, cGen, consOnly>>

CompareHead(from, same, differ) ==
  /\ cpc = from
  /\ cHead' = head
  /\ cpc' = IF cTail = head THEN same ELSE differ
  /\ UNCHANGED <<cTail, cGen, consOnly>>

-----------------------------------------------------------------------------
(***************************************************************************)
(* try_pop().                                                              *)
(***************************************************************************)
PopCall ==
  \/ LoadHead("idle", "popTail")
  \/ RelaxedGuess /\ LoadTail("idle", "popHead")

PopCompare ==
  \/ CompareTail("popTail", "empty", "announce")
  \/ CompareHead("popHead", "empty", "announce")

SetReaderActive(b) ==
  readerActive' = [readerActive EXCEPT ![Idx(cHead)] = b]

\* Faulty: the slot is claimed without being announced first.
PopUnannounced ==
  /\ cpc = "announce"
  /\ cpc' = "claim"
  /\ UNCHANGED <<indexVars, slotVars, prodVars, npc, cHead, cTail, cGen, histVars>>

PopAnnounce ==
  /\ cpc = "announce"
  /\ SetReaderActive(TRUE)
  /\ cpc' = "claim"
  /\ UNCHANGED <<indexVars, slots, prodVars, npc, cHead, cTail, cGen, histVars>>

\* Faulty: a plain store of the loaded value plus one.
PopClaimStore ==
  /\ cpc = "claim"
  /\ head' = cHead + 1
  /\ cpc' = "read"
  /\ UNCHANGED <<tail, dropped, gen, slotVars, prodVars, npc, cHead, cTail, cGen, histVars>>

\* compare_exchange of head_ from the loaded value.
PopClaim ==
  /\ cpc = "claim"
  /\ IF head = cHead
       THEN head' = head + 1 /\ cpc' = "read"
       ELSE UNCHANGED head /\ cpc' = "retract"
  /\ UNCHANGED <<tail, dropped, gen, slotVars, prodVars, npc, cHead, cTail, cGen, histVars>>

PopRetract ==
  /\ cpc = "retract"
  /\ SetReaderActive(FALSE)
  /\ cpc' = "empty"
  /\ UNCHANGED <<indexVars, slots, prodVars, npc, cHead, cTail, cGen, histVars>>

\* Faulty: the slot is found from head_ as it is now.
PopReadCurrent ==
  /\ cpc = "read"
  /\ delivered' = Append(delivered, slots[Idx(head)])
  /\ cpc' = "release"
  /\ UNCHANGED <<indexVars, slotVars, prodVars, npc, cHead, cTail, cGen, evicted>>

\* out = slot.value, a plain load.
PopRead ==
  /\ cpc = "read"
  /\ delivered' = Append(delivered, slots[Idx(cHead)])
  /\ cpc' = "release"
  /\ UNCHANGED <<indexVars, slotVars, prodVars, npc, cHead, cTail, cGen, evicted>>

\* Faulty: reader_active is left raised.
PopReleaseHeld ==
  /\ cpc = "release"
  /\ cpc' = "got"
  /\ UNCHANGED <<indexVars, slotVars, prodVars, npc, cHead, cTail, cGen, histVars>>

PopRelease ==
  /\ cpc = "release"
  /\ SetReaderActive(FALSE)
  /\ cpc' = "got"
  /\ UNCHANGED <<indexVars, slots, prodVars, npc, cHead, cTail, cGen, histVars>>

TryPop ==
  \/ PopCompare \/ PopAnnounce \/ PopClaim
  \/ PopRetract \/ PopRead \/ PopRelease

-----------------------------------------------------------------------------
(***************************************************************************)
(* wait_for_data().  The operands of `tail_.load() != head_.load()' are    *)
(* evaluated in an order C++ leaves open, hence both.                      *)
(***************************************************************************)
WaitCall ==
  \/ LoadHead("idle", "checkTail")
  \/ LoadTail("idle", "checkHead")

WaitCheck ==
  \/ CompareTail("checkTail", "snapshot", "woken")
  \/ CompareHead("checkHead", "snapshot", "woken")

\* Faulty: no second check after the generation is loaded.
WaitSnapshotLast ==
  /\ cpc = "snapshot"
  /\ cGen' = gen
  /\ cpc' = "wait"
  /\ UNCHANGED <<cHead, cTail, consOnly>>

\* The generation is loaded before the second check.
WaitSnapshot ==
  /\ cpc = "snapshot"
  /\ cGen' = gen
  /\ cpc' = "recheck"
  /\ UNCHANGED <<cHead, cTail, consOnly>>

WaitRecheck ==
  \/ LoadHead("recheck", "recheckTail")
  \/ LoadTail("recheck", "recheckHead")
  \/ CompareTail("recheckTail", "wait", "woken")
  \/ CompareHead("recheckHead", "wait", "woken")

\* atomic::wait(observed): return if the value differs, else sleep; the
\* comparison and falling asleep are one step, as in a futex.
WaitBlock ==
  /\ cpc = "wait"
  /\ cpc' = IF gen # cGen THEN "woken" ELSE "blocked"
  /\ UNCHANGED <<cHead, cTail, cGen, consOnly>>

\* The library may also leave the sleep unprompted; it then compares again.
WaitSpurious ==
  /\ cpc = "blocked"
  /\ cpc' = "wait"
  /\ UNCHANGED <<cHead, cTail, cGen, consOnly>>

WaitForData ==
  \/ WaitCheck \/ WaitSnapshot \/ WaitRecheck \/ WaitBlock

\* The caller takes the result of the call that returned.
TakeResult(result) ==
  /\ cpc = result
  /\ cpc' = "idle"
  /\ UNCHANGED <<cHead, cTail, cGen, consOnly>>

Consumer ==
  \/ PopCall \/ TryPop
  \/ WaitCall \/ WaitForData \/ WaitSpurious
  \/ \E r \in {"got", "empty", "woken"} : TakeResult(r)

-----------------------------------------------------------------------------
Next == Producer \/ Notifier \/ Consumer

Spec == Init /\ [][Next]_vars
-----------------------------------------------------------------------------
(***************************************************************************)
(* Properties.                                                             *)
(***************************************************************************)

\* Every variable holds a value of its C++ type, and the loaded copies are
\* values some index had.
TypeOK ==
  /\ tail \in Nat /\ head \in Nat /\ dropped \in Nat /\ gen \in Nat
  /\ slots \in [Slot -> Nat \cup {NoItem}]
  /\ readerActive \in [Slot -> BOOLEAN]
  /\ ppc \in ProducerLabel /\ pHead \in Nat
  /\ npc \in {"idle", "notify"}
  /\ cpc \in ConsumerLabel
  /\ cHead \in Nat /\ cTail \in Nat /\ cGen \in Nat
  /\ delivered \in Seq(Nat \cup {NoItem})
  /\ evicted \in SUBSET Nat

\* head_ never passes tail_ and never falls more than Capacity behind it,
\* whichever of push()'s eviction and try_pop()'s claim moves it.
Bounded == head <= tail /\ tail - head <= Capacity

\* push() is never storing a slot's value while try_pop() is loading it: both
\* are plain accesses, so this would be a data race.
NoSlotRace ==
  ~ (ppc = "write" /\ cpc = "read" /\ Idx(tail) = Idx(cHead))

Queued == head .. tail - 1
Claimed == IF cpc = "read" THEN {cHead} ELSE {}
Received == {delivered[k] : k \in 1 .. Len(delivered)}

\* Every item pushed meets one fate and no item meets two: it is still in the
\* queue, or a won claim is about to read it, or try_pop() handed it out, or
\* push() evicted it.  In particular nothing is both delivered and counted as
\* dropped, and what is delivered was pushed.
ExactlyOneFate ==
  /\ Queued \cup Claimed \cup Received \cup evicted = 0 .. tail - 1
  /\ Queued \cap Claimed = {} /\ Queued \cap Received = {}
  /\ Queued \cap evicted = {} /\ Claimed \cap Received = {}
  /\ Claimed \cap evicted = {} /\ Received \cap evicted = {}

\* try_pop() hands items out in the order they were pushed, each at most once,
\* however often slots are reused under it.
DeliveredInOrder ==
  \A j, k \in 1 .. Len(delivered) : j < k => delivered[j] < delivered[k]

\* dropped_updates_total() accounts for every pushed item that is not
\* delivered, being read or queued; the fetch_add follows the winning
\* compare_exchange by one step.
DropsCounted ==
  dropped + (IF ppc = "count" THEN 1 ELSE 0) + Len(delivered)
    + (IF cpc = "read" THEN 1 ELSE 0) + (tail - head) = tail

\* A consumer asleep in wait_for_data() while an item is queued is about to be
\* woken: the push that queued it has not finished notifying, or a
\* notify_waiters() call is about to wake it.
NoLostWakeup ==
  cpc = "blocked" /\ head # tail =>
    ppc \in {"bump", "notify"} \/ npc = "notify"

\* A consumer asleep with a generation that has moved on has its notification
\* still on the way: no increment of wake_generation_ goes unnoticed.
WakeSignalPending ==
  cpc = "blocked" /\ cGen # gen => ppc = "notify" \/ npc = "notify"

\* push() evicts an item only from a buffer that is full at that moment, not
\* one that was full when it loaded head_.
EvictsOnlyWhenFull ==
  [][evicted' # evicted => tail - head = Capacity]_vars

-----------------------------------------------------------------------------
(***************************************************************************)
(* The inductive invariant behind the properties above.                    *)
(***************************************************************************)

\* Past the overflow check there is room for one item, and push() evicts only
\* the transition it loaded.
ProducerInv ==
  /\ ppc = "evict" => pHead = tail - Capacity
  /\ ppc \in {"count", "spin", "write", "publish"} => tail - head < Capacity
  /\ ppc = "publish" => slots[Idx(tail)] = tail

\* Each queued item is in its slot.
SlotsInv == \A i \in Queued : slots[Idx(i)] = i

\* reader_active marks exactly the slot of a try_pop() between its announcement
\* and its release.
FlagInv ==
  \A s \in Slot :
    readerActive[s] <=> /\ cpc \in {"claim", "retract", "read", "release"}
                        /\ s = Idx(cHead)

\* What the consumer has loaded is out of date by a known amount.
GuessInv ==
  /\ cHead <= head /\ cTail <= tail /\ cGen <= gen
  /\ cpc = "popHead" => RelaxedGuess
  /\ cpc = "popHead" /\ head > cTail => tail - head >= Capacity - 1
  /\ cpc \in {"announce", "claim"} => cHead < tail

\* A won claim keeps the producer off its slot until the value is read.
ReadInv ==
  cpc = "read" =>
    /\ cHead < head
    /\ slots[Idx(cHead)] = cHead
    /\ tail <= cHead + Capacity
    /\ ppc \in {"write", "publish"} => tail < cHead + Capacity

\* What left the queue was delivered in order, is being read, or was evicted.
HistoryInv ==
  /\ Claimed \cup Received \cup evicted = 0 .. head - 1
  /\ Claimed \cap Received = {} /\ Claimed \cap evicted = {}
  /\ Received \cap evicted = {}
  /\ cpc = "read" => \A x \in Received : x < cHead

\* A consumer past its second check that has missed no generation has missed
\* at most the push that is about to increment it.
WakeInv ==
  /\ cpc = "recheckHead" /\ cGen = gen =>
       tail = cTail \/ (tail = cTail + 1 /\ ppc = "bump")
  /\ cpc \in {"wait", "blocked"} /\ cGen = gen => head = tail \/ ppc = "bump"
  /\ WakeSignalPending

\* Everything the proof of the properties rests on; push(), try_pop(),
\* wait_for_data() and notify_waiters() preserve it from any state.
RingInv ==
  /\ TypeOK /\ Bounded /\ ProducerInv /\ SlotsInv /\ FlagInv /\ GuessInv
  /\ ReadInv /\ HistoryInv /\ DeliveredInOrder /\ DropsCounted /\ WakeInv

-----------------------------------------------------------------------------
(***************************************************************************)
(* The drop-oldest queue this implements.  The compare_exchange of head_   *)
(* is the moment an item leaves the queue: an item being read has already  *)
(* been taken, and an eviction not yet added to the counter has happened.  *)
(***************************************************************************)
AbsQueue == [k \in 1 .. tail - head |-> head + k - 1]
AbsLost == dropped + (IF ppc = "count" THEN 1 ELSE 0)
AbsTaken == IF cpc = "read" THEN Append(delivered, cHead) ELSE delivered

Abstract == INSTANCE DropOldestQueue WITH
  queue <- AbsQueue, pushed <- tail, lost <- AbsLost, taken <- AbsTaken

\* Seen through that mapping push(), try_pop(), wait_for_data() and
\* notify_waiters() only ever append, drop the oldest of a full queue, or take
\* the oldest; in particular the value try_pop() copies out is the item its
\* compare_exchange claimed.
ImplementsDropOldest == Abstract!Spec
=============================================================================
