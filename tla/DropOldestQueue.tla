--------------------------- MODULE DropOldestQueue ---------------------------
(***************************************************************************)
(* What concurrency/spsc_ring_buffer.hpp promises its two threads, without *)
(* indices, slots or flags: a FIFO of at most Capacity items in which an   *)
(* item appended to a full queue costs the oldest one, every loss counted. *)
(* Items are numbered in the order they are pushed.                        *)
(***************************************************************************)
EXTENDS Naturals, Sequences

CONSTANT Capacity

VARIABLES queue,    \* the items held, oldest first
          pushed,   \* how many items have been pushed
          lost,     \* how many were dropped
          taken     \* the items handed to the consumer, in order

absVars == <<queue, pushed, lost, taken>>

Init == queue = <<>> /\ pushed = 0 /\ lost = 0 /\ taken = <<>>

\* Room is made only in a full queue, by giving up the oldest item.
DropOldest ==
  /\ Len(queue) = Capacity
  /\ queue' = Tail(queue)
  /\ lost' = lost + 1
  /\ UNCHANGED <<pushed, taken>>

Enqueue ==
  /\ Len(queue) < Capacity
  /\ queue' = Append(queue, pushed)
  /\ pushed' = pushed + 1
  /\ UNCHANGED <<lost, taken>>

Dequeue ==
  /\ queue # <<>>
  /\ taken' = Append(taken, Head(queue))
  /\ queue' = Tail(queue)
  /\ UNCHANGED <<pushed, lost>>

Next == DropOldest \/ Enqueue \/ Dequeue

Spec == Init /\ [][Next]_absVars
=============================================================================
