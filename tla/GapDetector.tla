----------------------------- MODULE GapDetector -----------------------------
(***************************************************************************)
(* concurrency/gap_detector.hpp: one shard's detector, written by its      *)
(* decoder thread (observe()) or after that thread has stopped (resync()), *)
(* and read meanwhile by any other thread.  A step is one access to one of *)
(* the atomics.                                                            *)
(*                                                                         *)
(* The writer finds its own newest values.  A reader may meet an older one *)
(* of each atomic, in any combination that the memory orders leave open:   *)
(* `numbers', `flags' and `states' list the stores made, the initial value *)
(* being store 0, and with a release store how many of the others a reader *)
(* who acquires it is sure to find.  `view' is what the reader is sure of. *)
(*                                                                         *)
(* Messages arrive in any order, repeatedly, or not at all.  Two histories *)
(* tell what the detector should know: `base', where tracking began, and   *)
(* `accepted', the numbers observe() moved on to since.                    *)
(***************************************************************************)
EXTENDS GapRules, Sequences

CONSTANTS MaxSeq,      \* bound: sequence numbers are 1 .. MaxSeq
          MaxResync    \* bound: resync() calls

ASSUME GapBounds == MaxSeq \in Nat /\ MaxResync \in Nat

VARIABLES has, last, state, gaps,   \* has_last_seq_num_, last_seq_num_, state_, sequence_gaps_total_
          wpc, wseq,                \* the writer: next store, and the number it is handling
          numbers, flags, states,   \* the stores to last_seq_num_, has_last_seq_num_ and state_
          rpc, view,                \* a reader: next load, and the stores it is sure to find
          rstate, rgaps, rseq,      \* what state(), sequence_gaps_total(), last_seq_num() gave it
          resyncs, base, accepted   \* resync() calls so far, and the histories

detectorVars == <<has, last, state, gaps, numbers, flags, states>>
writerVars == <<wpc, wseq, resyncs, base, accepted>>
readerVars == <<rpc, view, rstate, rgaps, rseq>>
gapVars == <<detectorVars, writerVars, readerVars>>

SeqNums == 1 .. MaxSeq
NoNumber == -1   \* last_seq_num() gave nullopt

\* What a release store takes along: the stores made before it.  A relaxed one
\* takes nothing along.
Written == [numbers |-> Len(numbers), flags |-> Len(flags), gaps |-> gaps]
Unordered == [numbers |-> 0, flags |-> 0, gaps |-> 0]

StoreNumber(seq) == last' = seq /\ numbers' = Append(numbers, seq)
StoreFlag(known) == has' = TRUE /\ flags' = Append(flags, known)
StoreState(s, known) == state' = s /\ states' = Append(states, [state |-> s, known |-> known])

GapInit ==
  /\ has = FALSE /\ last = 0 /\ state = "Live" /\ gaps = 0
  /\ wpc = "idle" /\ wseq = 0
  /\ numbers = <<>> /\ flags = <<>> /\ states = <<>>
  /\ rpc = "state" /\ view = Unordered /\ rstate = "Live" /\ rgaps = 0 /\ rseq = NoNumber
  /\ resyncs = 0 /\ base = 0 /\ accepted = {}

-----------------------------------------------------------------------------
(***************************************************************************)
(* observe().                                                              *)
(***************************************************************************)
ObserveCall(seq) ==
  /\ wpc = "idle"
  /\ wseq' = seq
  /\ wpc' = CASE Classify(has, last, seq) = "First"     -> "firstLast"
              [] Classify(has, last, seq) = "InOrder"   -> "last"
              [] Classify(has, last, seq) = "Duplicate" -> "idle"
              [] Classify(has, last, seq) = "Gap"       -> "count"
  /\ UNCHANGED <<detectorVars, readerVars, resyncs, base, accepted>>

\* Faulty: the flag is raised before the number is stored.
StoreFirstFlagEarly ==
  /\ wpc = "firstLast"
  /\ StoreFlag(Written)
  /\ wpc' = "last" /\ base' = wseq
  /\ UNCHANGED <<last, state, gaps, numbers, states, readerVars, wseq, resyncs, accepted>>

StoreFirst ==
  /\ wpc = "firstLast"
  /\ StoreNumber(wseq)
  /\ base' = wseq /\ accepted' = {wseq}
  /\ wpc' = "firstHas"
  /\ UNCHANGED <<has, state, gaps, flags, states, readerVars, wseq, resyncs>>

StoreHas ==
  /\ wpc = "firstHas"
  /\ StoreFlag(Written)
  /\ wpc' = "idle"
  /\ UNCHANGED <<last, state, gaps, numbers, states, readerVars, wseq, resyncs, base, accepted>>

CountGap ==
  /\ wpc = "count"
  /\ gaps' = gaps + 1
  /\ wpc' = "stale"
  /\ UNCHANGED <<has, last, state, numbers, flags, states, readerVars, wseq, resyncs, base, accepted>>

\* Faulty: STALE is stored relaxed.
MarkStaleRelaxed ==
  /\ wpc = "stale"
  /\ StoreState("Stale", Unordered)
  /\ wpc' = "last"
  /\ UNCHANGED <<has, last, gaps, numbers, flags, readerVars, wseq, resyncs, base, accepted>>

MarkStale ==
  /\ wpc = "stale"
  /\ StoreState("Stale", Written)
  /\ wpc' = "last"
  /\ UNCHANGED <<has, last, gaps, numbers, flags, readerVars, wseq, resyncs, base, accepted>>

\* The last store of an in-order and of a gap observation.
StoreLast ==
  /\ wpc = "last"
  /\ StoreNumber(wseq)
  /\ accepted' = accepted \cup {wseq}
  /\ wpc' = "idle"
  /\ UNCHANGED <<has, state, gaps, flags, states, readerVars, wseq, resyncs, base>>

Observe ==
  \/ \E seq \in SeqNums : ObserveCall(seq)
  \/ StoreFirst \/ StoreHas \/ CountGap \/ MarkStale \/ StoreLast

-----------------------------------------------------------------------------
(***************************************************************************)
(* resync().                                                               *)
(***************************************************************************)
ResyncCall(seq) ==
  /\ wpc = "idle"
  /\ resyncs < MaxResync
  /\ resyncs' = resyncs + 1
  /\ StoreNumber(seq)
  /\ base' = seq /\ accepted' = {seq}
  /\ wpc' = "resyncHas"
  /\ UNCHANGED <<has, state, gaps, flags, states, readerVars, wseq>>

ResyncHas ==
  /\ wpc = "resyncHas"
  /\ StoreFlag(Unordered)
  /\ wpc' = "resyncState"
  /\ UNCHANGED <<last, state, gaps, numbers, states, readerVars, wseq, resyncs, base, accepted>>

ResyncState ==
  /\ wpc = "resyncState"
  /\ StoreState("Live", Written)
  /\ wpc' = "idle"
  /\ UNCHANGED <<has, last, gaps, numbers, flags, readerVars, wseq, resyncs, base, accepted>>

Resync == (\E seq \in SeqNums : ResyncCall(seq)) \/ ResyncHas \/ ResyncState

-----------------------------------------------------------------------------
(***************************************************************************)
(* A reader on any thread: state(), sequence_gaps_total(), last_seq_num(). *)
(* It begins knowing nothing; a load returns the store it is sure of or a  *)
(* later one, and an acquire load adds to what it is sure of.              *)
(***************************************************************************)
ReadState ==
  /\ rpc \in {"state", "done"}
  /\ \/ rstate' = "Live" /\ view' = Unordered
     \/ \E k \in 1 .. Len(states) : rstate' = states[k].state /\ view' = states[k].known
  /\ rpc' = "gaps" /\ rgaps' = 0 /\ rseq' = NoNumber
  /\ UNCHANGED <<detectorVars, writerVars>>

ReadGaps ==
  /\ rpc = "gaps"
  /\ rgaps' \in view.gaps .. gaps
  /\ rpc' = "has"
  /\ UNCHANGED <<detectorVars, writerVars, view, rstate, rseq>>

ReadHas ==
  /\ rpc = "has"
  /\ \E k \in view.flags .. Len(flags) :
       IF k = 0 THEN rpc' = "done" /\ UNCHANGED view
       ELSE /\ rpc' = "number"
            /\ view' = [view EXCEPT !.numbers = IF @ < flags[k].numbers THEN flags[k].numbers ELSE @]
  /\ UNCHANGED <<detectorVars, writerVars, rstate, rgaps, rseq>>

ReadNumber ==
  /\ rpc = "number"
  /\ \E k \in view.numbers .. Len(numbers) : rseq' = IF k = 0 THEN 0 ELSE numbers[k]
  /\ rpc' = "done"
  /\ UNCHANGED <<detectorVars, writerVars, view, rstate, rgaps>>

Reader == ReadState \/ ReadGaps \/ ReadHas \/ ReadNumber

GapNext == Observe \/ Resync \/ Reader

GapSpec == GapInit /\ [][GapNext]_gapVars

-----------------------------------------------------------------------------
Hole == \E h \in base .. last : h \notin accepted

\* What the writer finds: the histories bounded by base and last_seq_num_, and
\* a hole, there or about to be, just when STALE.
WriterInv ==
  /\ has \in BOOLEAN /\ last \in 0 .. MaxSeq /\ state \in {"Live", "Stale"} /\ gaps \in Nat
  /\ wpc \in {"idle", "firstLast", "firstHas", "count", "stale", "last",
              "resyncHas", "resyncState"}
  /\ wseq \in 0 .. MaxSeq /\ resyncs \in 0 .. MaxResync
  /\ base \in 0 .. MaxSeq /\ accepted \subseteq SeqNums
  /\ base <= last /\ \A a \in accepted : a <= last
  /\ has \/ wpc \notin {"idle", "firstLast"} => base > 0 /\ last \in accepted
  /\ ~has /\ wpc \in {"idle", "firstLast"} => last = 0 /\ state = "Live"
  /\ wpc \in {"firstLast", "firstHas"} => ~has
  /\ wpc \in {"count", "stale", "last", "resyncState"} => has
  /\ wpc \notin {"idle", "resyncHas", "resyncState"} => wseq > 0
  /\ wpc \in {"firstHas", "resyncHas", "resyncState"} => base = last
  /\ wpc \in {"resyncHas", "resyncState"} => resyncs > 0
  /\ wpc = "firstHas" => state = "Live"
  /\ wpc \in {"count", "stale"} => wseq > last + 1
  /\ wpc = "stale" => gaps > 0
  /\ wpc = "last" => wseq = last + 1 \/ (wseq > last + 1 /\ state = "Stale")
  /\ state = "Live" => base .. last \subseteq accepted \cup {0}
  /\ state = "Stale" /\ wpc \notin {"resyncHas", "resyncState"} =>
       gaps > 0 /\ (Hole \/ (wpc = "last" /\ wseq > last + 1))

Views == [numbers : Nat, flags : Nat, gaps : Nat]

\* To be sure of a counted gap, of the flag and of a number.
Informed(v) == v.numbers > 0 /\ v.flags > 0 /\ v.gaps > 0

\* What the stores take along: STALE informs whoever acquires it, and the flag
\* leads to a number unless resync() stored it.
StoresInv ==
  /\ numbers \in Seq(SeqNums) /\ flags \in Seq(Views)
  /\ states \in Seq([state : {"Live", "Stale"}, known : Views])
  /\ has => flags # <<>>
  /\ has \/ wpc \notin {"idle", "firstLast"} => numbers # <<>>
  /\ \A k \in 1 .. Len(states) : states[k].state = "Stale" => Informed(states[k].known)
  /\ \A k \in 1 .. Len(flags) : flags[k].numbers > 0 \/ resyncs > 0

\* What a reader got and is sure of.
ReaderInv ==
  /\ rpc \in {"state", "gaps", "has", "number", "done"} /\ view \in Views
  /\ rstate \in {"Live", "Stale"} /\ rgaps \in Nat /\ rseq \in -1 .. MaxSeq
  /\ rpc # "state" /\ rstate = "Stale" => Informed(view)
  /\ rpc # "done" => rseq = NoNumber
  /\ rpc \in {"has", "number", "done"} /\ rstate = "Stale" => rgaps > 0
  /\ rpc = "number" => view.numbers > 0 \/ resyncs > 0
  /\ rpc = "done" => (rseq = 0 => resyncs > 0) /\ (rstate = "Stale" => rseq > 0)

\* The inductive invariant.
GapInv == WriterInv /\ StoresInv /\ ReaderInv

\* After every call of observe() or resync() the detector is STALE just when,
\* between where tracking began and last_seq_num_, there is a number that
\* observe() never moved on to: no gap is missed and no alarm is false.
StaleIffHole == wpc = "idle" /\ has => (state = "Stale" <=> Hole)

\* A reader that meets STALE while the writer goes on then finds the gap counted
\* and a number that was stored; one that goes by the flag alone never gets the
\* zero the detector starts with, before resync() is called.
ReaderInformed ==
  rpc = "done" => /\ rstate = "Stale" => rgaps > 0 /\ rseq > 0
                  /\ rseq = 0 => resyncs > 0

\* Only resync() moves last_seq_num_ back or clears STALE: a late or repeated
\* message does neither.
OnlyResyncRewinds ==
  [][(last' < last \/ (state = "Stale" /\ state' = "Live")) =>
       wpc = "resyncState" \/ resyncs' = resyncs + 1]_gapVars
=============================================================================
