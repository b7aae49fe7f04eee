---------------------------- MODULE PipelineStage ----------------------------
(***************************************************************************)
(* One hop of the pipeline: a thread that pushes into a ring buffer and    *)
(* then announces that it is done, and the thread that drains the buffer   *)
(* and exits.  io/pipeline_runner.cpp has two hops of this shape in every  *)
(* shard: network I/O thread -> decoder (producer_done_, Shard::queue) and *)
(* decoder -> publisher (shard_decoder_done_[i], Shard::output_queue).     *)
(*                                                                         *)
(* Every step of the queue is a step of SpscRingBuffer; this module adds   *)
(* the order in which the two threads call it.                             *)
(***************************************************************************)
EXTENDS SpscRingBuffer

ASSUME OneNotification == MaxNotify = 1

VARIABLES feeder,   \* the pushing thread: "running", "signal", "waking", "exited"
          done,     \* producer_done_ / shard_decoder_done_[i]
          loop,     \* the draining thread: "drain", "check", "final", "wait", "exited"
          didWork   \* process_shard() / drain_publisher_queue(): something was popped

stageVars == <<feeder, done, loop, didWork>>
allVars == <<vars, stageVars>>

StageInit ==
  /\ Init
  /\ feeder = "running" /\ done = FALSE
  /\ loop = "drain" /\ didWork = FALSE

-----------------------------------------------------------------------------
(***************************************************************************)
(* The pushing thread.  It stops because the feed is exhausted or because  *)
(* stop() was requested, in either case between two pushes.                *)
(***************************************************************************)
Feed ==
  /\ feeder = "running"
  /\ Producer
  /\ UNCHANGED stageVars

StoreDone ==
  /\ feeder = "running" /\ ppc = "idle"
  /\ done' = TRUE
  /\ feeder' = "signal"
  /\ UNCHANGED <<vars, loop, didWork>>

\* The two steps of notify_waiters().
SignalWaiters ==
  /\ feeder = "signal"
  /\ WaitersBump
  /\ feeder' = "waking"
  /\ UNCHANGED <<done, loop, didWork>>

\* Faulty: the generation moves on but nobody is notified.
WakeNobody ==
  /\ feeder = "waking" /\ npc = "notify"
  /\ npc' = "idle"
  /\ feeder' = "exited"
  /\ UNCHANGED <<indexVars, slotVars, prodVars, consVars, histVars, done, loop, didWork>>

WakeWaiters ==
  /\ feeder = "waking"
  /\ WaitersNotify
  /\ feeder' = "exited"
  /\ UNCHANGED <<done, loop, didWork>>

FeederThread == Feed \/ StoreDone \/ SignalWaiters \/ WakeWaiters

-----------------------------------------------------------------------------
(***************************************************************************)
(* The draining thread.  process_shard() and drain_publisher_queue() pop   *)
(* until try_pop() fails and report whether they popped anything.          *)
(***************************************************************************)
PopNext ==
  /\ loop \in {"drain", "final"}
  /\ PopCall
  /\ UNCHANGED stageVars

PoppedOne ==
  /\ TakeResult("got")
  /\ didWork' = TRUE
  /\ UNCHANGED <<feeder, done, loop>>

\* The drain at the top of the loop came back.
DrainReturns ==
  /\ loop = "drain"
  /\ TakeResult("empty")
  /\ loop' = IF didWork THEN "drain" ELSE "check"
  /\ didWork' = FALSE
  /\ UNCHANGED <<feeder, done>>

\* Faulty: no drain between seeing the flag and exiting.
LoadDoneAndExit ==
  /\ loop = "check"
  /\ loop' = IF done THEN "exited" ELSE "wait"
  /\ UNCHANGED <<vars, feeder, done, didWork>>

LoadDone ==
  /\ loop = "check"
  /\ loop' = IF done THEN "final" ELSE "wait"
  /\ UNCHANGED <<vars, feeder, done, didWork>>

\* The one more drain after the flag was seen came back.
FinalDrainReturns ==
  /\ loop = "final"
  /\ TakeResult("empty")
  /\ loop' = IF didWork THEN "drain" ELSE "exited"
  /\ didWork' = FALSE
  /\ UNCHANGED <<feeder, done>>

CallWait ==
  /\ loop = "wait"
  /\ WaitCall
  /\ UNCHANGED stageVars

WaitReturns ==
  /\ loop = "wait"
  /\ TakeResult("woken")
  /\ loop' = "drain"
  /\ UNCHANGED <<feeder, done, didWork>>

InsideCall ==
  /\ TryPop \/ WaitForData
  /\ UNCHANGED stageVars

DrainThread ==
  \/ PopNext \/ PoppedOne \/ DrainReturns \/ LoadDone \/ FinalDrainReturns
  \/ CallWait \/ WaitReturns \/ InsideCall

SpuriousWake == WaitSpurious /\ UNCHANGED stageVars

StageNext == FeederThread \/ DrainThread \/ SpuriousWake

StageSpec == StageInit /\ [][StageNext]_allVars

\* The operating system keeps running a thread that is not asleep; it owes
\* nobody a spurious wake.
FairStageSpec ==
  StageSpec /\ WF_allVars(FeederThread) /\ WF_allVars(DrainThread)

-----------------------------------------------------------------------------
\* When the draining thread exits nothing is left behind: every item pushed
\* before the done flag was delivered or counted as dropped.
DrainedAtExit ==
  loop = "exited" => Received \cup evicted = 0 .. tail - 1

\* A queued item does not stay queued: it is claimed by try_pop() or evicted.
\* A consumer that went to sleep next to it would violate this.
ItemsMoveOn ==
  \A i \in 0 .. MaxPush - 1 : (i < tail) ~> (i < head)

\* The spin loop in push() ends: a reader cannot hold the slot forever.
PushReturns == (ppc = "spin") ~> (ppc = "idle")

\* A thread already asleep in wait_for_data() when the done flag's
\* notify_waiters() is called does wake up, drain and exit.
SleeperExits ==
  (feeder = "signal" /\ cpc = "blocked") ~> (loop = "exited")

\* Once the pushing thread is done, the draining thread exits: the join in
\* PipelineRunner::join() returns.
ShutdownCompletes == done ~> (loop = "exited")
=============================================================================
