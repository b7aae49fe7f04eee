------------------------------- MODULE GapRules -------------------------------
(***************************************************************************)
(* concurrency/gap_detector.hpp: how observe() judges a sequence number.   *)
(***************************************************************************)
EXTENDS Integers

\* Faulty: a skip of one message is taken for the next one.
ClassifyLoosely(has, last, seq) ==
  IF ~has THEN "First"
  ELSE IF seq = last + 1 \/ seq = last + 2 THEN "InOrder"
  ELSE IF seq < last + 1 THEN "Duplicate"
  ELSE "Gap"

\* Faulty: a repeated message is taken for a skip.
ClassifyRepeats(has, last, seq) ==
  IF ~has THEN "First"
  ELSE IF seq = last + 1 THEN "InOrder"
  ELSE IF seq < last THEN "Duplicate"
  ELSE "Gap"

\* Faulty: an old message is taken for the next one.
ClassifyOldAsNew(has, last, seq) ==
  IF ~has THEN "First" ELSE IF seq <= last + 1 THEN "InOrder" ELSE "Gap"

\* The first number is accepted whatever it is; observe() returns InOrder for it.
Classify(has, last, seq) ==
  IF ~has THEN "First"
  ELSE IF seq = last + 1 THEN "InOrder"
  ELSE IF seq < last + 1 THEN "Duplicate"
  ELSE "Gap"

NewDetector == [has |-> FALSE, last |-> 0, state |-> "Live", gaps |-> 0]

\* A whole observe(), for a model in which nobody looks at the detector meanwhile.
Observed(g, seq) ==
  LET verdict == Classify(g.has, g.last, seq)
  IN  [has   |-> TRUE,
       last  |-> IF verdict = "Duplicate" THEN g.last ELSE seq,
       state |-> IF verdict = "Gap" THEN "Stale" ELSE g.state,
       gaps  |-> IF verdict = "Gap" THEN g.gaps + 1 ELSE g.gaps]
=============================================================================
