---------------------------- MODULE PipelineRunner ----------------------------
(***************************************************************************)
(* io/pipeline_runner.{hpp,cpp} with the coroutine and the reactor of      *)
(* io/async_network_reader: the life of a pipeline's threads from start()  *)
(* to the destructor.  The owner creates the network I/O thread and, per   *)
(* shard, a decoder and a publisher thread; it may be thrown out of        *)
(* start() by a failing std::thread, may stop(), join() or just destroy    *)
(* the runner at any time.                                                 *)
(*                                                                         *)
(* A queue is its length: that a ring buffer keeps, delivers and counts    *)
(* its items, and never sleeps through a push, is SpscRingBuffer's, and    *)
(* what the messages do to the books is ShardedPipeline's.                 *)
(***************************************************************************)
EXTENDS Integers, FiniteSets

CONSTANTS NumShards,
          Capacity,     \* of each queue
          MaxPackets,   \* Config::message_count
          MaxDeltas     \* bound: deltas the decoders push

ASSUME RunnerAssumption ==
  NumShards \in 1 .. 16 /\ Capacity \in Nat \ {0} /\ MaxPackets \in Nat /\ MaxDeltas \in Nat

VARIABLES owner,          \* where the owner's thread is
          at,             \* threads created by start(), or joined by join()
          dying,          \* join() was called by the destructor
          started, joined, stopRequested,
          pc,             \* the threads; "none" if not created, "joined" if joined
          pending,        \* coroutines in Reactor::pending_
          packets,        \* packets the feed still has
          producerDone, decoderDone,
          notified,       \* shards whose queue the coroutine has notified
          queue,          \* lengths of Shard::queue and Shard::output_queue
          deltas,         \* deltas pushed so far
          late            \* packets read after stop() was called

ownerVars == <<owner, at, dying, started, joined, stopRequested>>
netVars == <<pending, packets, producerDone, notified, late>>
shardVars == <<decoderDone, queue, deltas>>
runnerVars == <<ownerVars, netVars, shardVars, pc>>

Shards == 0 .. NumShards - 1
Net == <<"network", 0>>
Consumers == {"decode", "publish"} \X Shards
RunnerThreads == {Net} \cup Consumers
LastThread == 2 * NumShards

\* The n-th thread start() creates, and the n-th join() waits for.
Created(n) == IF n = 0 THEN Net
              ELSE IF n % 2 = 1 THEN <<"decode", n \div 2>> ELSE <<"publish", n \div 2 - 1>>
JoinedAs(n) == IF n = 0 THEN Net
               ELSE IF n <= NumShards THEN <<"decode", n - 1>> ELSE <<"publish", n - 1 - NumShards>>

RunnerInit ==
  /\ owner = "built" /\ at = 0 /\ dying = FALSE
  /\ started = FALSE /\ joined = FALSE /\ stopRequested = FALSE
  /\ pc = [t \in RunnerThreads |-> "none"]
  /\ pending = 0 /\ packets = MaxPackets /\ producerDone = FALSE /\ notified = 0 /\ late = 0
  /\ decoderDone = [i \in Shards |-> FALSE]
  /\ queue = [c \in Consumers |-> 0] /\ deltas = 0

-----------------------------------------------------------------------------
(***************************************************************************)
(* The owner.                                                              *)
(***************************************************************************)
\* Faulty: started_ is set once every thread runs.
StartLate ==
  /\ owner = "built"
  /\ owner' = "starting"
  /\ UNCHANGED <<at, dying, started, joined, stopRequested, netVars, shardVars, pc>>

Start ==
  /\ owner = "built"
  /\ owner' = "starting" /\ started' = TRUE
  /\ UNCHANGED <<at, dying, joined, stopRequested, netVars, shardVars, pc>>

\* std::thread's constructor returns, or throws out of start().
CreateThread ==
  /\ owner = "starting"
  /\ pc' = [pc EXCEPT ![Created(at)] = IF at = 0 THEN "top" ELSE "drain"]
  /\ IF at = LastThread THEN owner' = "running" /\ at' = 0
                        ELSE owner' = owner /\ at' = at + 1
  /\ UNCHANGED <<dying, started, joined, stopRequested, netVars, shardVars>>

CreationFails ==
  /\ owner = "starting"
  /\ owner' = "unwinding" /\ at' = 0
  /\ UNCHANGED <<dying, started, joined, stopRequested, netVars, shardVars, pc>>

\* join(), called as such: it comes back at once when it did so before.
Join ==
  /\ owner = "running"
  /\ owner' = IF joined THEN owner ELSE "joining"
  /\ UNCHANGED <<at, dying, started, joined, stopRequested, netVars, shardVars, pc>>

Stop ==
  /\ owner = "running"
  /\ stopRequested' = TRUE
  /\ owner' = IF joined THEN owner ELSE "joining"
  /\ UNCHANGED <<at, dying, started, joined, netVars, shardVars, pc>>

\* Faulty: join() waits for the decoders and publishers only.
JoinOneNotNet ==
  /\ owner = "joining" /\ at <= LastThread
  /\ at = 0 \/ pc[JoinedAs(at)] \in {"none", "exited"}
  /\ pc' = [pc EXCEPT ![JoinedAs(at)] = IF at > 0 /\ @ = "exited" THEN "joined" ELSE @]
  /\ at' = at + 1
  /\ UNCHANGED <<owner, dying, started, joined, stopRequested, netVars, shardVars>>

\* t.join() for the next thread, if it is joinable().
JoinOne ==
  /\ owner = "joining" /\ at <= LastThread
  /\ pc[JoinedAs(at)] \in {"none", "exited"}
  /\ pc' = [pc EXCEPT ![JoinedAs(at)] = IF @ = "exited" THEN "joined" ELSE @]
  /\ at' = at + 1
  /\ UNCHANGED <<owner, dying, started, joined, stopRequested, netVars, shardVars>>

JoinReturns ==
  /\ owner = "joining" /\ at > LastThread
  /\ joined' = TRUE /\ at' = 0
  /\ owner' = IF dying THEN "members" ELSE "running"
  /\ UNCHANGED <<dying, started, stopRequested, netVars, shardVars, pc>>

\* ~PipelineRunner(), at the end of the scope or while start()'s exception
\* unwinds it.
Destructor ==
  /\ owner \in {"built", "running", "unwinding"}
  /\ dying' = TRUE
  /\ IF started /\ ~joined
       THEN owner' = "joining" /\ stopRequested' = TRUE
       ELSE owner' = "members" /\ UNCHANGED stopRequested
  /\ UNCHANGED <<at, started, joined, netVars, shardVars, pc>>

Joinable == {t \in RunnerThreads : pc[t] \notin {"none", "joined"}}

\* The members go: ~thread() of a joinable thread calls std::terminate().
DestroyMembers ==
  /\ owner = "members"
  /\ owner' = IF Joinable = {} THEN "destroyed" ELSE "terminated"
  /\ UNCHANGED <<at, dying, started, joined, stopRequested, netVars, shardVars, pc>>

OwnerThread ==
  \/ Start \/ CreateThread \/ CreationFails \/ Join \/ Stop \/ JoinOne \/ JoinReturns
  \/ Destructor \/ DestroyMembers

-----------------------------------------------------------------------------
(***************************************************************************)
(* The network I/O thread: read_packets_async() runs on it until its first *)
(* co_await, and then whenever run_until() resumes it.                     *)
(***************************************************************************)
GoTo(t, l) == pc' = [pc EXCEPT ![t] = l]

\* push() on the queue of consumer c: the oldest item makes room, and a thread
\* asleep in wait_for_data() wakes.
PushTo(c, pcs) ==
  /\ queue' = [queue EXCEPT ![c] = IF @ = Capacity THEN @ ELSE @ + 1]
  /\ pc' = [pcs EXCEPT ![c] = IF @ = "asleep" THEN "drain" ELSE @]

\* The loop's condition.
LoadStop ==
  /\ pc[Net] = "top"
  /\ GoTo(Net, IF stopRequested THEN "finish" ELSE "read")
  /\ UNCHANGED <<ownerVars, netVars, shardVars>>

\* feed.next() and what follows up to co_await WaitFor: a packet that was lost,
\* or that demux() rejects, is not pushed.
ReadPacket ==
  /\ pc[Net] = "read" /\ packets > 0
  /\ packets' = packets - 1 /\ pending' = pending + 1
  /\ late' = IF stopRequested THEN late + 1 ELSE late
  /\ \/ GoTo(Net, "suspended") /\ UNCHANGED queue
     \/ \E i \in Shards : PushTo(<<"decode", i>>, [pc EXCEPT ![Net] = "suspended"])
  /\ UNCHANGED <<ownerVars, producerDone, notified, decoderDone, deltas>>

FeedExhausted ==
  /\ pc[Net] = "read" /\ packets = 0
  /\ GoTo(Net, "finish")
  /\ UNCHANGED <<ownerVars, netVars, shardVars>>

\* Faulty: run_until() returns once should_stop() holds.
ResumeUnlessStopped ==
  /\ pc[Net] = "suspended" /\ pending > 0
  /\ IF stopRequested THEN GoTo(Net, "exited") /\ UNCHANGED pending
                      ELSE GoTo(Net, "top") /\ pending' = pending - 1
  /\ UNCHANGED <<ownerVars, packets, producerDone, notified, late, shardVars>>

\* Faulty: the coroutine does not look at the stop flag again.
ResumeToRead ==
  /\ pc[Net] = "suspended" /\ pending > 0
  /\ GoTo(Net, "read") /\ pending' = pending - 1
  /\ UNCHANGED <<ownerVars, packets, producerDone, notified, late, shardVars>>

\* run_until(): the coroutine is resumed at its time, or at once after stop().
Resume ==
  /\ pc[Net] = "suspended" /\ pending > 0
  /\ GoTo(Net, "top") /\ pending' = pending - 1
  /\ UNCHANGED <<ownerVars, packets, producerDone, notified, late, shardVars>>

StoreProducerDone ==
  /\ pc[Net] = "finish"
  /\ producerDone' = TRUE /\ GoTo(Net, "notify")
  /\ UNCHANGED <<ownerVars, pending, packets, notified, late, shardVars>>

\* notify_waiters() on the next shard's queue.  After the last the coroutine
\* ends, its frame is destroyed, run_until() finds pending_ empty and the
\* thread exits.
NotifyDecoder ==
  /\ pc[Net] = "notify"
  /\ notified' = notified + 1
  /\ pc' = [pc EXCEPT ![<<"decode", notified>>] = IF @ = "asleep" THEN "drain" ELSE @,
                      ![Net] = IF notified' < NumShards THEN "notify"
                               ELSE IF pending = 0 THEN "exited" ELSE "suspended"]
  /\ UNCHANGED <<ownerVars, pending, packets, producerDone, late, shardVars>>

NetworkThread ==
  LoadStop \/ ReadPacket \/ FeedExhausted \/ Resume \/ StoreProducerDone \/ NotifyDecoder

-----------------------------------------------------------------------------
(***************************************************************************)
(* The decoder and publisher loops.  process_shard() and                   *)
(* drain_publisher_queue() pop until the queue is empty; a drain that      *)
(* popped something is followed by another before the flag is looked at.   *)
(***************************************************************************)
Flag(c) == IF c[1] = "decode" THEN producerDone ELSE decoderDone[c[2]]

\* try_pop() gave an item: a message to apply, a delta for the sink.
Take(c) ==
  /\ pc[c] \in {"drain", "final"} /\ queue[c] > 0
  /\ queue' = [queue EXCEPT ![c] = @ - 1]
  /\ GoTo(c, IF c[1] = "decode" THEN "apply" ELSE "drain")
  /\ UNCHANGED <<ownerVars, netVars, decoderDone, deltas>>

\* process_shard() pushes a delta of the message it applies, or is done with it.
EmitDelta(i) ==
  /\ pc[<<"decode", i>>] = "apply" /\ deltas < MaxDeltas
  /\ deltas' = deltas + 1
  /\ PushTo(<<"publish", i>>, pc)
  /\ UNCHANGED <<ownerVars, netVars, decoderDone>>

Applied(i) ==
  /\ pc[<<"decode", i>>] = "apply"
  /\ GoTo(<<"decode", i>>, "drain")
  /\ UNCHANGED <<ownerVars, netVars, shardVars>>

FoundEmpty(c) ==
  /\ pc[c] = "drain" /\ queue[c] = 0
  /\ GoTo(c, "check")
  /\ UNCHANGED <<ownerVars, netVars, shardVars>>

\* Faulty: the thread leaves as soon as it sees the flag.
LoadFlagAndExit(c) ==
  /\ pc[c] = "check"
  /\ GoTo(c, IF ~Flag(c) THEN "wait" ELSE IF c[1] = "decode" THEN "announce" ELSE "exited")
  /\ UNCHANGED <<ownerVars, netVars, shardVars>>

LoadFlag(c) ==
  /\ pc[c] = "check"
  /\ GoTo(c, IF Flag(c) THEN "final" ELSE "wait")
  /\ UNCHANGED <<ownerVars, netVars, shardVars>>

\* wait_for_data(): back at once if something is queued.
Wait(c) ==
  /\ pc[c] = "wait"
  /\ GoTo(c, IF queue[c] > 0 THEN "drain" ELSE "asleep")
  /\ UNCHANGED <<ownerVars, netVars, shardVars>>

FinalFoundEmpty(c) ==
  /\ pc[c] = "final" /\ queue[c] = 0
  /\ GoTo(c, IF c[1] = "decode" THEN "announce" ELSE "exited")
  /\ UNCHANGED <<ownerVars, netVars, shardVars>>

StoreDecoderDone(i) ==
  /\ pc[<<"decode", i>>] = "announce"
  /\ decoderDone' = [decoderDone EXCEPT ![i] = TRUE]
  /\ GoTo(<<"decode", i>>, "notify")
  /\ UNCHANGED <<ownerVars, netVars, queue, deltas>>

NotifyPublisher(i) ==
  /\ pc[<<"decode", i>>] = "notify"
  /\ pc' = [pc EXCEPT ![<<"decode", i>>] = "exited",
                      ![<<"publish", i>>] = IF @ = "asleep" THEN "drain" ELSE @]
  /\ UNCHANGED <<ownerVars, netVars, shardVars>>

ConsumerThread(c) ==
  \/ Take(c) \/ FoundEmpty(c) \/ LoadFlag(c) \/ Wait(c) \/ FinalFoundEmpty(c)
  \/ c[1] = "decode" /\ (EmitDelta(c[2]) \/ Applied(c[2]) \/ StoreDecoderDone(c[2])
                         \/ NotifyPublisher(c[2]))

\* std::atomic::wait may return without a notification; nothing promises it will.
SpuriousWake(c) ==
  /\ pc[c] = "asleep"
  /\ GoTo(c, "drain")
  /\ UNCHANGED <<ownerVars, netVars, shardVars>>

RunnerNext ==
  \/ OwnerThread \/ NetworkThread
  \/ \E c \in Consumers : ConsumerThread(c) \/ SpuriousWake(c)

RunnerSpec == RunnerInit /\ [][RunnerNext]_runnerVars

\* Every thread that can go on is given the processor; the owner, once in a
\* call, goes on with it.
FairRunnerSpec ==
  /\ RunnerSpec
  /\ WF_runnerVars(NetworkThread)
  /\ \A c \in Consumers : WF_runnerVars(ConsumerThread(c))
  /\ WF_runnerVars(JoinOne \/ JoinReturns)

-----------------------------------------------------------------------------
NetLabels == {"none", "top", "read", "suspended", "finish", "notify", "exited", "joined"}
LoopLabels == {"none", "drain", "check", "final", "wait", "asleep", "exited", "joined"}
DecoderLabels == LoopLabels \cup {"apply", "announce", "notify"}

RunnerTypeOK ==
  /\ owner \in {"built", "starting", "unwinding", "running", "joining", "members", "destroyed"}
  /\ at \in 0 .. LastThread + 1
  /\ dying \in BOOLEAN /\ started \in BOOLEAN /\ joined \in BOOLEAN /\ stopRequested \in BOOLEAN
  /\ pc \in [RunnerThreads -> NetLabels \cup DecoderLabels]
  /\ pc[Net] \in NetLabels
  /\ \A i \in Shards : pc[<<"decode", i>>] \in DecoderLabels /\ pc[<<"publish", i>>] \in LoopLabels
  /\ pending \in Nat /\ packets \in Nat /\ late \in Nat /\ deltas \in Nat /\ notified \in Nat
  /\ producerDone \in BOOLEAN /\ decoderDone \in [Shards -> BOOLEAN]
  /\ queue \in [Consumers -> Nat]

AtRest(t) == pc[t] \in {"none", "joined"}

\* The owner knows of every thread: none before start(), those below at while
\* it creates them, and those at or above at while it joins them.
OwnerInv ==
  /\ owner = "built" => ~started /\ ~joined
  /\ ~started => \A t \in RunnerThreads : pc[t] = "none"
  /\ joined => \A t \in RunnerThreads : AtRest(t)
  /\ owner \in {"starting", "unwinding", "joining"} => started /\ ~joined
  /\ owner = "starting" => /\ at <= LastThread
                           /\ \A n \in at .. LastThread : pc[Created(n)] = "none"
  /\ owner = "joining" => \A n \in 0 .. LastThread : n < at => AtRest(JoinedAs(n))
  /\ owner \notin {"starting", "joining"} => at = 0
  /\ owner = "running" => started
  /\ owner \in {"members", "destroyed"} => \A t \in RunnerThreads : AtRest(t)

\* The coroutine is in pending_ exactly while it is suspended, its flag is the
\* last thing but the notifications, and a packet read after stop() is its last.
NetInv ==
  /\ pending = IF pc[Net] = "suspended" THEN 1 ELSE 0
  /\ producerDone <=> (pc[Net] \in {"notify", "exited", "joined"})
  /\ notified = NumShards \/ pc[Net] \notin {"exited", "joined"}
  /\ pc[Net] \notin {"exited", "joined"} => notified < NumShards
  /\ late > 0 => stopRequested /\ pc[Net] # "read"
  /\ late <= 1

\* A thread that saw its flag in vain has nothing more to come.
ShardInv(i) ==
  LET d == <<"decode", i>>
      p == <<"publish", i>>
  IN  /\ decoderDone[i] <=> (pc[d] \in {"notify", "exited", "joined"})
      /\ pc[d] \in {"final", "announce", "notify", "exited", "joined"} => producerDone
      /\ pc[d] \in {"announce", "notify", "exited", "joined"} => queue[d] = 0
      /\ pc[p] \in {"final", "exited", "joined"} => decoderDone[i]
      /\ pc[p] \in {"exited", "joined"} => queue[p] = 0

ConsumerInv == \A i \in Shards : ShardInv(i)

\* The inductive invariant behind the properties below: how far each thread is
\* decides which flags are set, which queues are empty and what the owner may
\* take for granted.
RunnerInv == RunnerTypeOK /\ OwnerInv /\ NetInv /\ ConsumerInv

\* The destructor "never leaves threads running, hanging, or a coroutine frame
\* orphaned": when the runner is gone every thread it created was joined, also
\* when start() threw half way, and the coroutine ran to its end.
NothingOutlives ==
  /\ owner # "terminated"
  /\ owner = "destroyed" => /\ \A t \in RunnerThreads : pc[t] \in {"none", "joined"}
                            /\ pending = 0 /\ (pc[Net] = "joined" => producerDone)

\* When join() has returned the pipeline is drained: no message and no delta is
\* left in a queue; only a queue whose thread start() failed to create may hold
\* anything.
JoinedMeansDrained ==
  joined => \A c \in Consumers : pc[c] # "none" => queue[c] = 0

\* The order of the joins is safe for the flags: by the time join() waits for a
\* decoder producer_done_ is set, by the time it waits for a publisher the
\* decoders have set theirs.
FlagsBeforeJoins ==
  owner = "joining" /\ pc[Net] # "none" =>
    /\ at > 0 => producerDone
    /\ at > NumShards => \A i \in Shards : pc[<<"decode", i>>] # "none" => decoderDone[i]

\* stop() takes effect at the coroutine's next check: at most the packet in
\* flight is still read.
StopIsPrompt == late <= 1

\* join() returns, unless a thread went to sleep past its done flag: a stop
\* request, a failed start() or an exhausted feed leaves nothing else to wait for.
JoinHangsOnlyAsleep ==
  (owner = "joining") ~>
    (joined \/ \E c \in Consumers : pc[c] = "asleep" /\ Flag(c))
=============================================================================
