------------------------- MODULE PipelineRunnerProofs -------------------------
(***************************************************************************)
(* The life of the threads, for any number of shards, packets and deltas   *)
(* and any queue capacity: RunnerInv is inductive and gives the safety     *)
(* properties of PipelineRunner.                                           *)
(***************************************************************************)
EXTENDS PipelineRunner, TLAPS

USE RunnerAssumption

\* Threads are told apart by their role and shard.
LEMMA ThreadFacts ==
  /\ Net \in RunnerThreads
  /\ \A c \in Consumers : c \in RunnerThreads /\ c # Net
  /\ \A i \in Shards : <<"decode", i>> \in Consumers /\ <<"publish", i>> \in Consumers
  /\ \A i, j \in Shards : /\ <<"decode", i>> # <<"publish", j>>
                          /\ i # j => <<"decode", i>> # <<"decode", j>>
                          /\ i # j => <<"publish", i>> # <<"publish", j>>
  /\ \A c \in Consumers : \E i \in Shards : c = <<"decode", i>> \/ c = <<"publish", i>>
BY DEF Net, Consumers, RunnerThreads

\* start() creates every thread once.
LEMMA CreatedFacts ==
  /\ LastThread \in Nat
  /\ \A n \in 0 .. LastThread : Created(n) \in RunnerThreads
  /\ \A m, n \in 0 .. LastThread : Created(m) = Created(n) => m = n
  /\ Created(0) = Net
  /\ \A n \in 1 .. LastThread : Created(n) \in Consumers
BY DEF Created, LastThread, Net, Consumers, RunnerThreads, Shards

\* join() waits for every thread: the network I/O thread first, then the
\* decoders, then the publishers.
LEMMA JoinedAsFacts ==
  /\ JoinedAs(0) = Net
  /\ \A n \in 0 .. LastThread : JoinedAs(n) \in RunnerThreads
  /\ \A t \in RunnerThreads : \E n \in 0 .. LastThread : JoinedAs(n) = t
  /\ \A i \in Shards : JoinedAs(i + 1) = <<"decode", i>>
<1>1. \A i \in Shards : /\ i + 1 \in 0 .. LastThread /\ JoinedAs(i + 1) = <<"decode", i>>
                        /\ i + 1 + NumShards \in 0 .. LastThread
                        /\ JoinedAs(i + 1 + NumShards) = <<"publish", i>>
  BY DEF JoinedAs, LastThread, Shards
<1>2. 0 \in 0 .. LastThread /\ JoinedAs(0) = Net
  BY DEF JoinedAs, LastThread
<1>3. \A n \in 0 .. LastThread : JoinedAs(n) \in RunnerThreads
  BY DEF JoinedAs, LastThread, Net, Consumers, RunnerThreads, Shards
<1>4. \A t \in RunnerThreads : \E n \in 0 .. LastThread : JoinedAs(n) = t
  BY <1>1, <1>2, ThreadFacts DEF RunnerThreads
<1> QED
  BY <1>1, <1>2, <1>3, <1>4

-----------------------------------------------------------------------------
\* Nothing runs, waits or is queued before start().
LEMMA InitEstablishes == RunnerInit => RunnerInv
<1> SUFFICES ASSUME RunnerInit PROVE RunnerInv
  OBVIOUS
<1> USE ThreadFacts, CreatedFacts DEF RunnerInit
<1>1. RunnerTypeOK
  <2>1. /\ pc \in [RunnerThreads -> NetLabels \cup DecoderLabels] /\ pc[Net] \in NetLabels
        /\ \A i \in Shards : pc[<<"decode", i>>] \in DecoderLabels /\ pc[<<"publish", i>>] \in LoopLabels
    BY DEF NetLabels, LoopLabels, DecoderLabels
  <2>2. queue \in [Consumers -> Nat] /\ decoderDone \in [Shards -> BOOLEAN]
    OBVIOUS
  <2>3. at \in 0 .. LastThread + 1
    OBVIOUS
  <2> QED
    BY <2>1, <2>2, <2>3, Zenon DEF RunnerTypeOK
<1>2. OwnerInv
  BY DEF OwnerInv
<1>3. NetInv
  BY DEF NetInv
<1>4. ConsumerInv
  BY Zenon DEF ConsumerInv, ShardInv
<1> QED
  BY <1>1, <1>2, <1>3, <1>4 DEF RunnerInv

\* The owner's steps.
LEMMA OwnerPreserves == RunnerInv /\ OwnerThread => RunnerInv'
<1> SUFFICES ASSUME RunnerInv, OwnerThread PROVE RunnerInv'
  OBVIOUS
<1> USE ThreadFacts, CreatedFacts, JoinedAsFacts DEF RunnerInv, ownerVars, netVars, shardVars
<1>1. CASE Start
  <2>1. RunnerTypeOK'
    BY <1>1 DEF Start, RunnerTypeOK
  <2>2. OwnerInv'
    BY <1>1 DEF Start, RunnerTypeOK, OwnerInv, AtRest
  <2>3. NetInv'
    BY <1>1 DEF Start, RunnerTypeOK, NetInv
  <2>4. ConsumerInv'
    BY <1>1, Zenon DEF Start, RunnerTypeOK, ConsumerInv, ShardInv
  <2> QED
    BY <2>1, <2>2, <2>3, <2>4
<1>2. CASE CreateThread
  <2>1. pc[Created(at)] = "none" /\ at \in 0 .. LastThread
    BY <1>2 DEF CreateThread, RunnerTypeOK, OwnerInv
  <2>2. RunnerTypeOK'
    BY <1>2, <2>1 DEF CreateThread, RunnerTypeOK, NetLabels, LoopLabels, DecoderLabels
  <2>3. OwnerInv'
    BY <1>2, <2>1 DEF CreateThread, RunnerTypeOK, OwnerInv, AtRest
  <2>4. NetInv'
    BY <1>2, <2>1 DEF CreateThread, RunnerTypeOK, NetInv
  <2>5. ConsumerInv'
    BY <1>2, <2>1, Zenon DEF CreateThread, RunnerTypeOK, ConsumerInv, ShardInv
  <2> QED
    BY <2>2, <2>3, <2>4, <2>5
<1>3. CASE CreationFails
  BY <1>3 DEF CreationFails, RunnerTypeOK, OwnerInv, NetInv, ConsumerInv, ShardInv, AtRest, LastThread
<1>4. CASE Join
  BY <1>4 DEF Join, RunnerTypeOK, OwnerInv, NetInv, ConsumerInv, ShardInv, AtRest
<1>5. CASE Stop
  BY <1>5 DEF Stop, RunnerTypeOK, OwnerInv, NetInv, ConsumerInv, ShardInv, AtRest
<1>6. CASE JoinOne
  <2>1. at \in 0 .. LastThread /\ JoinedAs(at) \in RunnerThreads
    BY <1>6 DEF JoinOne, RunnerTypeOK
  <2>2. RunnerTypeOK'
    BY <1>6, <2>1 DEF JoinOne, RunnerTypeOK, NetLabels, LoopLabels, DecoderLabels, LastThread
  <2>3. OwnerInv'
    BY <1>6, <2>1 DEF JoinOne, RunnerTypeOK, OwnerInv, AtRest
  <2>4. NetInv'
    BY <1>6, <2>1 DEF JoinOne, RunnerTypeOK, NetInv
  <2>5. ConsumerInv'
    BY <1>6, <2>1, Zenon DEF JoinOne, RunnerTypeOK, ConsumerInv, ShardInv
  <2> QED
    BY <2>2, <2>3, <2>4, <2>5
<1>7. CASE JoinReturns
  <2>1. \A t \in RunnerThreads : AtRest(t)
    BY <1>7 DEF JoinReturns, OwnerInv, RunnerTypeOK
  <2> QED
    BY <1>7, <2>1 DEF JoinReturns, RunnerTypeOK, OwnerInv, NetInv, ConsumerInv, ShardInv, AtRest, LastThread
<1>8. CASE Destructor
  <2>1. RunnerTypeOK'
    BY <1>8, Zenon DEF Destructor, RunnerTypeOK
  <2>2. OwnerInv'
    BY <1>8 DEF Destructor, RunnerTypeOK, OwnerInv, AtRest
  <2>3. NetInv'
    BY <1>8 DEF Destructor, RunnerTypeOK, NetInv
  <2>4. ConsumerInv'
    BY <1>8, Zenon DEF Destructor, RunnerTypeOK, ConsumerInv, ShardInv
  <2> QED
    BY <2>1, <2>2, <2>3, <2>4
<1>9. CASE DestroyMembers
  <2>1. Joinable = {}
    BY <1>9 DEF DestroyMembers, OwnerInv, AtRest, Joinable
  <2> QED
    BY <1>9, <2>1 DEF DestroyMembers, RunnerTypeOK, OwnerInv, NetInv, ConsumerInv, ShardInv, AtRest
<1> QED
  BY <1>1, <1>2, <1>3, <1>4, <1>5, <1>6, <1>7, <1>8, <1>9 DEF OwnerThread

\* Only threads that run change their place, and they keep running.
Runs(t) == pc'[t] = pc[t] \/ (~AtRest(t) /\ pc'[t] \notin {"none", "joined"})

\* The owner's knowledge does not depend on where a running thread is.
LEMMA OwnerUntouched ==
  ASSUME RunnerTypeOK, OwnerInv, UNCHANGED ownerVars, \A t \in RunnerThreads : Runs(t)
  PROVE  OwnerInv'
BY CreatedFacts, JoinedAsFacts DEF RunnerTypeOK, OwnerInv, AtRest, Runs, ownerVars

\* The network I/O thread's steps.
LEMMA NetworkPreserves == RunnerInv /\ NetworkThread => RunnerInv'
<1> SUFFICES ASSUME RunnerInv, NetworkThread PROVE RunnerInv'
  OBVIOUS
<1> USE ThreadFacts, CreatedFacts, JoinedAsFacts DEF RunnerInv, ownerVars, netVars, shardVars
<1>1. CASE LoadStop
  <2>1. RunnerTypeOK'
    BY <1>1 DEF LoadStop, GoTo, RunnerTypeOK, NetLabels, LoopLabels, DecoderLabels
  <2>2. OwnerInv'
    BY <1>1 DEF LoadStop, GoTo, RunnerTypeOK, OwnerInv, AtRest
  <2>3. NetInv'
    BY <1>1 DEF LoadStop, GoTo, RunnerTypeOK, NetInv, NetLabels
  <2>4. ConsumerInv'
    BY <1>1, Zenon DEF LoadStop, GoTo, RunnerTypeOK, NetInv, ConsumerInv, ShardInv
  <2> QED
    BY <2>1, <2>2, <2>3, <2>4
<1>2. CASE ReadPacket
  <2> DEFINE Suspends ==
        /\ pc[Net] = "read" /\ pc'[Net] = "suspended" /\ DOMAIN pc' = RunnerThreads
        /\ pc' \in [RunnerThreads -> NetLabels \cup DecoderLabels]
        /\ \A c \in Consumers : pc'[c] = pc[c] \/ (pc[c] = "asleep" /\ pc'[c] = "drain")
        /\ \A i \in Shards : pc'[<<"publish", i>>] = pc[<<"publish", i>>]
        /\ queue' \in [Consumers -> Nat]
        /\ \A i \in Shards : queue'[<<"publish", i>>] = queue[<<"publish", i>>]
  <2>1. Suspends
    <3>1. CASE GoTo(Net, "suspended") /\ UNCHANGED queue
      BY <1>2, <3>1 DEF ReadPacket, GoTo, RunnerTypeOK, NetLabels
    <3>2. ASSUME NEW i \in Shards, PushTo(<<"decode", i>>, [pc EXCEPT ![Net] = "suspended"])
          PROVE  Suspends
      <4>1. /\ queue' \in [Consumers -> Nat]
            /\ \A j \in Shards : queue'[<<"publish", j>>] = queue[<<"publish", j>>]
        <5>1. queue' = [queue EXCEPT ![<<"decode", i>>] = IF @ = Capacity THEN @ ELSE @ + 1]
          BY <3>2 DEF PushTo
        <5>2. \A c \in Consumers : queue[c] \in Nat /\ queue[c] + 1 \in Nat
          BY DEF RunnerTypeOK
        <5> QED
          BY <5>1, <5>2, Zenon DEF RunnerTypeOK
      <4>2. /\ pc' \in [RunnerThreads -> NetLabels \cup DecoderLabels] /\ pc'[Net] = "suspended"
            /\ \A c \in Consumers : pc'[c] = pc[c] \/ (pc[c] = "asleep" /\ pc'[c] = "drain")
        BY <3>2, Zenon DEF PushTo, RunnerTypeOK, NetLabels, LoopLabels, DecoderLabels
      <4>3. \A j \in Shards : pc'[<<"publish", j>>] = pc[<<"publish", j>>]
        BY <3>2, Zenon DEF PushTo, RunnerTypeOK
      <4> QED
        BY <1>2, <4>1, <4>2, <4>3 DEF ReadPacket
    <3> QED
      <4> HIDE DEF Suspends
      <4> QED
        BY <1>2, <3>1, <3>2, Zenon DEF ReadPacket
  <2>2. RunnerTypeOK'
    BY <1>2, <2>1 DEF ReadPacket, RunnerTypeOK, NetLabels, LoopLabels, DecoderLabels
  <2>3. OwnerInv'
    <3>1. \A t \in RunnerThreads : (pc'[t] = pc[t]) \/ (~AtRest(t) /\ pc'[t] \notin {"none", "joined"})
      BY <2>1 DEF RunnerThreads, AtRest
    <3> QED
      BY <1>2, <2>1, <3>1 DEF ReadPacket, RunnerTypeOK, OwnerInv, AtRest
  <2>4. NetInv'
    BY <1>2, <2>1 DEF ReadPacket, RunnerTypeOK, NetInv, NetLabels
  <2>5. ConsumerInv'
    BY <1>2, <2>1, Zenon DEF ReadPacket, RunnerTypeOK, NetInv, ConsumerInv, ShardInv
  <2> QED
    BY <2>2, <2>3, <2>4, <2>5
<1>3. CASE FeedExhausted
  <2>1. RunnerTypeOK'
    BY <1>3 DEF FeedExhausted, GoTo, RunnerTypeOK, NetLabels, LoopLabels, DecoderLabels
  <2>2. OwnerInv'
    BY <1>3 DEF FeedExhausted, GoTo, RunnerTypeOK, OwnerInv, AtRest
  <2>3. NetInv'
    BY <1>3 DEF FeedExhausted, GoTo, RunnerTypeOK, NetInv, NetLabels
  <2>4. ConsumerInv'
    BY <1>3, Zenon DEF FeedExhausted, GoTo, RunnerTypeOK, NetInv, ConsumerInv, ShardInv
  <2> QED
    BY <2>1, <2>2, <2>3, <2>4
<1>4. CASE Resume
  <2>1. RunnerTypeOK'
    BY <1>4 DEF Resume, GoTo, RunnerTypeOK, NetLabels, LoopLabels, DecoderLabels
  <2>2. OwnerInv'
    BY <1>4 DEF Resume, GoTo, RunnerTypeOK, OwnerInv, AtRest
  <2>3. NetInv'
    BY <1>4 DEF Resume, GoTo, RunnerTypeOK, NetInv, NetLabels
  <2>4. ConsumerInv'
    BY <1>4, Zenon DEF Resume, GoTo, RunnerTypeOK, NetInv, ConsumerInv, ShardInv
  <2> QED
    BY <2>1, <2>2, <2>3, <2>4
<1>5. CASE StoreProducerDone
  <2>1. RunnerTypeOK'
    BY <1>5 DEF StoreProducerDone, GoTo, RunnerTypeOK, NetLabels, LoopLabels, DecoderLabels
  <2>2. OwnerInv'
    BY <1>5 DEF StoreProducerDone, GoTo, RunnerTypeOK, OwnerInv, AtRest
  <2>3. NetInv'
    BY <1>5 DEF StoreProducerDone, GoTo, RunnerTypeOK, NetInv, NetLabels
  <2>4. ConsumerInv'
    BY <1>5, Zenon DEF StoreProducerDone, GoTo, RunnerTypeOK, NetInv, ConsumerInv, ShardInv
  <2> QED
    BY <2>1, <2>2, <2>3, <2>4
<1>6. CASE NotifyDecoder
  <2>1. /\ pc[Net] = "notify" /\ pc'[Net] \in {"notify", "exited"}
        /\ pc' \in [RunnerThreads -> NetLabels \cup DecoderLabels]
        /\ notified' = notified + 1 /\ notified < NumShards /\ pending = 0
        /\ pc'[Net] = IF notified' < NumShards THEN "notify" ELSE "exited"
        /\ \A c \in Consumers : pc'[c] = pc[c] \/ (pc[c] = "asleep" /\ pc'[c] = "drain")
        /\ UNCHANGED <<ownerVars, pending, packets, producerDone, late, shardVars>>
    <3>1. notified \in Shards
      BY <1>6 DEF NotifyDecoder, NetInv, RunnerTypeOK, Shards
    <3>2. <<"decode", notified>> \in Consumers
      BY <3>1, Zenon
    <3> QED
      BY <1>6, <3>2, Zenon DEF NotifyDecoder, RunnerTypeOK, NetInv, NetLabels, LoopLabels, DecoderLabels
  <2>2. RunnerTypeOK'
    BY <2>1 DEF RunnerTypeOK, NetLabels, LoopLabels, DecoderLabels
  <2>3. OwnerInv'
    <3>1. \A t \in RunnerThreads : (pc'[t] = pc[t]) \/ (~AtRest(t) /\ pc'[t] \notin {"none", "joined"})
      BY <2>1 DEF RunnerThreads, AtRest
    <3> QED
      BY <2>1, <3>1 DEF RunnerTypeOK, OwnerInv, AtRest
  <2>4. NetInv'
    BY <2>1 DEF RunnerTypeOK, NetInv, NetLabels
  <2>5. ConsumerInv'
    BY <2>1, Zenon DEF RunnerTypeOK, NetInv, ConsumerInv, ShardInv
  <2> QED
    BY <2>2, <2>3, <2>4, <2>5
<1> QED
  BY <1>1, <1>2, <1>3, <1>4, <1>5, <1>6 DEF NetworkThread

\* A step of one decoder or publisher thread that only moves it on, or takes
\* an item from its queue.
LEMMA LoopStepPreserves ==
  ASSUME RunnerInv, NEW c \in Consumers,
         Take(c) \/ FoundEmpty(c) \/ LoadFlag(c) \/ Wait(c) \/ FinalFoundEmpty(c) \/ SpuriousWake(c)
  PROVE  RunnerInv'
<1> USE ThreadFacts DEF RunnerInv
<1>1. PICK i \in Shards : c = <<"decode", i>> \/ c = <<"publish", i>>
  OBVIOUS
<1>2. UNCHANGED <<ownerVars, netVars, decoderDone, deltas>>
  BY DEF Take, FoundEmpty, LoadFlag, Wait, FinalFoundEmpty, SpuriousWake, shardVars
<1>3. /\ pc' = [pc EXCEPT ![c] = pc'[c]]
      /\ queue' = [queue EXCEPT ![c] = queue'[c]] /\ queue'[c] \in Nat
      /\ queue[c] = 0 => queue'[c] = 0
  BY DEF Take, FoundEmpty, LoadFlag, Wait, FinalFoundEmpty, SpuriousWake, GoTo, shardVars,
         RunnerTypeOK
<1>4. /\ pc[c] \in {"drain", "final", "check", "wait", "asleep"}
      /\ c[1] = "decode" => pc'[c] \in {"drain", "check", "apply", "wait", "asleep", "final", "announce"}
      /\ c[1] = "publish" => pc'[c] \in {"drain", "check", "wait", "asleep", "final", "exited"}
      /\ pc'[c] = "final" => Flag(c)
      /\ pc'[c] \in {"announce", "exited"} => pc[c] = "final" /\ queue'[c] = 0
  BY <1>1 DEF Take, FoundEmpty, LoadFlag, Wait, FinalFoundEmpty, SpuriousWake, GoTo, shardVars,
         RunnerTypeOK
<1>5. RunnerTypeOK'
  BY <1>1, <1>2, <1>3, <1>4 DEF RunnerTypeOK, ownerVars, netVars, NetLabels, LoopLabels, DecoderLabels
<1>6. OwnerInv'
  <2>1. \A t \in RunnerThreads : Runs(t)
    BY <1>1, <1>3, <1>4 DEF Runs, AtRest, RunnerTypeOK
  <2> QED
    BY <1>2, <2>1, OwnerUntouched
<1>7. NetInv'
  BY <1>2, <1>3 DEF NetInv, netVars, ownerVars, RunnerTypeOK
<1>8. ConsumerInv'
  <2> SUFFICES ASSUME NEW j \in Shards PROVE ShardInv(j)'
    BY Zenon DEF ConsumerInv, ShardInv
  <2>1. ShardInv(j)
    BY DEF ConsumerInv, ShardInv
  <2>2. CASE j # i
    BY <1>1, <1>2, <1>3, <2>1, <2>2 DEF ShardInv, netVars, RunnerTypeOK
  <2>3. CASE j = i /\ c = <<"decode", i>>
    <3>1. /\ pc'[<<"publish", i>>] = pc[<<"publish", i>>]
          /\ queue'[<<"publish", i>>] = queue[<<"publish", i>>]
      BY <1>3, <2>3 DEF RunnerTypeOK
    <3> QED
      BY <1>2, <1>4, <2>1, <2>3, <3>1 DEF ShardInv, netVars, Flag
  <2>4. CASE j = i /\ c = <<"publish", i>>
    <3>1. /\ pc'[<<"decode", i>>] = pc[<<"decode", i>>]
          /\ queue'[<<"decode", i>>] = queue[<<"decode", i>>]
      BY <1>3, <2>4 DEF RunnerTypeOK
    <3> QED
      BY <1>2, <1>4, <2>1, <2>4, <3>1 DEF ShardInv, netVars, Flag
  <2> QED
    BY <1>1, <2>2, <2>3, <2>4
<1> QED
  BY <1>5, <1>6, <1>7, <1>8

\* The steps only a decoder thread takes: it pushes deltas, and announces its
\* end to the publisher of its shard.
LEMMA DecoderStepPreserves ==
  ASSUME RunnerInv, NEW i \in Shards,
         EmitDelta(i) \/ Applied(i) \/ StoreDecoderDone(i) \/ NotifyPublisher(i)
  PROVE  RunnerInv'
<1> USE ThreadFacts DEF RunnerInv
<1> DEFINE d == <<"decode", i>>
           p == <<"publish", i>>
<1>1. /\ UNCHANGED <<ownerVars, netVars>>
      /\ deltas' \in Nat /\ decoderDone' = [decoderDone EXCEPT ![i] = decoderDone'[i]]
      /\ decoderDone' \in [Shards -> BOOLEAN]
  <2>1. CASE EmitDelta(i)
    BY <2>1 DEF EmitDelta, RunnerTypeOK
  <2>2. CASE Applied(i) \/ NotifyPublisher(i)
    BY <2>2 DEF Applied, NotifyPublisher, RunnerTypeOK, shardVars
  <2>3. CASE StoreDecoderDone(i)
    BY <2>3 DEF StoreDecoderDone, RunnerTypeOK
  <2> QED
    BY <2>1, <2>2, <2>3
<1>2. /\ queue' = [queue EXCEPT ![p] = queue'[p]] /\ queue'[p] \in Nat
      /\ pc[d] # "apply" => queue'[p] = queue[p]
  <2>1. CASE EmitDelta(i)
    <3>1. queue' = [queue EXCEPT ![p] = IF @ = Capacity THEN @ ELSE @ + 1] /\ pc[d] = "apply"
      BY <2>1 DEF EmitDelta, PushTo
    <3>2. \A c \in Consumers : queue[c] \in Nat /\ queue[c] + 1 \in Nat
      BY DEF RunnerTypeOK
    <3> QED
      BY <3>1, <3>2, Zenon DEF RunnerTypeOK
  <2>2. CASE Applied(i) \/ StoreDecoderDone(i) \/ NotifyPublisher(i)
    BY <2>2 DEF Applied, StoreDecoderDone, NotifyPublisher, RunnerTypeOK, shardVars
  <2> QED
    BY <2>1, <2>2
<1>3. /\ pc' = [pc EXCEPT ![d] = pc'[d], ![p] = pc'[p]]
      /\ pc'[p] = pc[p] \/ (pc[p] = "asleep" /\ pc'[p] = "drain")
      /\ <<pc[d], pc'[d]>> \in {<<"apply", "apply">>, <<"apply", "drain">>,
                                <<"announce", "notify">>, <<"notify", "exited">>}
      /\ decoderDone'[i] = (decoderDone[i] \/ pc[d] = "announce")
  <2>1. CASE EmitDelta(i)
    BY <2>1, Zenon DEF EmitDelta, PushTo, RunnerTypeOK
  <2>2. CASE Applied(i)
    BY <2>2, Zenon DEF Applied, GoTo, RunnerTypeOK, shardVars
  <2>3. CASE StoreDecoderDone(i)
    BY <2>3, Zenon DEF StoreDecoderDone, GoTo, RunnerTypeOK
  <2>4. CASE NotifyPublisher(i)
    BY <2>4, Zenon DEF NotifyPublisher, RunnerTypeOK, shardVars
  <2> QED
    BY <2>1, <2>2, <2>3, <2>4
<1>4. RunnerTypeOK'
  <2>1. pc' \in [RunnerThreads -> NetLabels \cup DecoderLabels] /\ pc'[Net] \in NetLabels
    BY <1>3 DEF RunnerTypeOK, LoopLabels, DecoderLabels
  <2>2. \A j \in Shards : pc'[<<"decode", j>>] \in DecoderLabels /\ pc'[<<"publish", j>>] \in LoopLabels
    BY <1>3, Zenon DEF RunnerTypeOK, LoopLabels, DecoderLabels
  <2>3. queue' \in [Consumers -> Nat]
    BY <1>2 DEF RunnerTypeOK
  <2> QED
    BY <1>1, <2>1, <2>2, <2>3 DEF RunnerTypeOK, ownerVars, netVars
<1>5. OwnerInv'
  <2>1. \A t \in RunnerThreads : Runs(t)
    BY <1>3 DEF Runs, AtRest, RunnerTypeOK
  <2> QED
    BY <1>1, <2>1, OwnerUntouched
<1>6. NetInv'
  BY <1>1, <1>3 DEF NetInv, netVars, ownerVars, RunnerTypeOK
<1>7. ConsumerInv'
  <2> SUFFICES ASSUME NEW j \in Shards PROVE ShardInv(j)'
    BY DEF ConsumerInv
  <2>1. ShardInv(j)
    BY DEF ConsumerInv
  <2>2. CASE j # i
    BY <1>1, <1>2, <1>3, <2>1, <2>2 DEF ShardInv, netVars, RunnerTypeOK
  <2>3. CASE j = i
    <3>1. queue'[d] = queue[d]
      BY <1>2 DEF RunnerTypeOK
    <3> QED
      BY <1>1, <1>2, <1>3, <2>1, <2>3, <3>1 DEF ShardInv, netVars, RunnerTypeOK
  <2> QED
    BY <2>2, <2>3
<1> QED
  BY <1>4, <1>5, <1>6, <1>7

\* RunnerInv survives every step.
LEMMA StepPreserves == RunnerInv /\ [RunnerNext]_runnerVars => RunnerInv'
<1> SUFFICES ASSUME RunnerInv, [RunnerNext]_runnerVars PROVE RunnerInv'
  OBVIOUS
<1>1. CASE UNCHANGED runnerVars
  BY <1>1 DEF runnerVars, ownerVars, netVars, shardVars, RunnerInv, RunnerTypeOK, OwnerInv, NetInv,
              ConsumerInv, ShardInv, AtRest
<1>2. ASSUME NEW c \in Consumers, ConsumerThread(c) \/ SpuriousWake(c)
      PROVE  RunnerInv'
  <2>1. c[1] = "decode" => c[2] \in Shards
    BY DEF Consumers
  <2> QED
    BY <1>2, <2>1, LoopStepPreserves, DecoderStepPreserves DEF ConsumerThread
<1> QED
  BY <1>1, <1>2, OwnerPreserves, NetworkPreserves DEF RunnerNext

-----------------------------------------------------------------------------
\* RunnerInv holds throughout, for any number of shards, packets and deltas.
THEOREM RunnerInvariance == RunnerSpec => []RunnerInv
<1>1. RunnerInit => RunnerInv
  BY InitEstablishes
<1>2. RunnerInv /\ [RunnerNext]_runnerVars => RunnerInv'
  BY StepPreserves
<1> QED
  BY <1>1, <1>2, PTL DEF RunnerSpec

\* The destructor leaves no thread and no coroutine behind, even after a start()
\* that threw.
THEOREM DestructorSafe == RunnerSpec => []NothingOutlives
<1>1. RunnerInv => NothingOutlives
  BY ThreadFacts DEF RunnerInv, RunnerTypeOK, OwnerInv, NetInv, AtRest, NothingOutlives
<1> QED
  BY <1>1, RunnerInvariance, PTL

\* join() returns a drained pipeline.
THEOREM JoinDrains == RunnerSpec => []JoinedMeansDrained
<1>1. RunnerInv => JoinedMeansDrained
  <2> SUFFICES ASSUME RunnerInv, joined, NEW c \in Consumers, pc[c] # "none" PROVE queue[c] = 0
    BY DEF JoinedMeansDrained
  <2>1. PICK i \in Shards : c = <<"decode", i>> \/ c = <<"publish", i>>
    BY ThreadFacts
  <2>2. pc[c] = "joined" /\ ShardInv(i)
    BY ThreadFacts DEF RunnerInv, OwnerInv, AtRest, ConsumerInv
  <2> QED
    BY <2>1, <2>2 DEF ShardInv
<1> QED
  BY <1>1, RunnerInvariance, PTL

\* The order of the joins follows the flags.
THEOREM JoinOrderSafe == RunnerSpec => []FlagsBeforeJoins
<1>1. RunnerInv => FlagsBeforeJoins
  <2> SUFFICES ASSUME RunnerInv, owner = "joining", pc[Net] # "none"
               PROVE  /\ at > 0 => producerDone
                      /\ at > NumShards => \A i \in Shards : pc[<<"decode", i>>] # "none" => decoderDone[i]
    BY DEF FlagsBeforeJoins
  <2>1. at > 0 => producerDone
    BY JoinedAsFacts, CreatedFacts DEF RunnerInv, RunnerTypeOK, OwnerInv, NetInv, AtRest
  <2>2. ASSUME at > NumShards, NEW i \in Shards, pc[<<"decode", i>>] # "none"
        PROVE  decoderDone[i]
    <3>1. i + 1 \in 0 .. LastThread /\ i + 1 < at
      BY <2>2 DEF Shards, LastThread, RunnerInv, RunnerTypeOK
    <3>2. AtRest(<<"decode", i>>)
      BY <3>1, JoinedAsFacts DEF RunnerInv, OwnerInv
    <3> QED
      BY <2>2, <3>2, Zenon DEF RunnerInv, ConsumerInv, ShardInv, AtRest
  <2> QED
    BY <2>1, <2>2
<1> QED
  BY <1>1, RunnerInvariance, PTL

\* stop() lets at most the packet in flight through.
THEOREM StopPrompt == RunnerSpec => []StopIsPrompt
<1>1. RunnerInv => StopIsPrompt
  BY DEF RunnerInv, NetInv, StopIsPrompt
<1> QED
  BY <1>1, RunnerInvariance, PTL
=============================================================================
