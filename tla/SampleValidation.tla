--------------------------- MODULE SampleValidation ---------------------------
(***************************************************************************)
(* Which completed segments of a metric key count (assess_segment_sample). *)
(* A duration is compared with those accepted in the last hour, so what is *)
(* accepted now decides what will be.  A step is a cycle that measures     *)
(* some traversals of the segment; time passes in cycles.                  *)
(***************************************************************************)
EXTENDS Integers, FiniteSets, SequencesExt

CONSTANTS
  Measurements,  \* [duration : seconds, distance : metres]
  Hour,          \* completed_at > now - 1 hour, expires_at > now; in cycles
  MaxBatch       \* bound on the measurements of a cycle

VARIABLES
  accepted,      \* accepted[age]: the durations accepted age cycles ago
  verdicts,      \* of the measurements of the last cycle
  pace           \* history: since how many cycles only pace.only is measured

vars == <<accepted, verdicts, pace>>

Ages == 0..(Hour - 1)

Init ==
  /\ accepted = [age \in Ages |-> << >>]
  /\ verdicts = {}
  /\ pace = [only |-> CHOOSE m \in Measurements : TRUE, cycles |-> 0]

-----------------------------------------------------------------------------
Abs(n) == IF n < 0 THEN -n ELSE n

(* The value in place i of the sorted values: fewer than i are less than   *)
(* it, and at least i are no greater.                                      *)
Nth(values, i) ==
  CHOOSE v \in ToSet(values) :
    /\ Cardinality({k \in DOMAIN values : values[k] < v}) < i
    /\ Cardinality({k \in DOMAIN values : values[k] <= v}) >= i

(* References are a bag: their order is that of their values. *)
Sorted(values) == [i \in DOMAIN values |-> Nth(values, i)]

(* Twice statistics.median. *)
TwiceMedian(values) == Nth(values, (Len(values) + 1) \div 2) + Nth(values, Len(values) \div 2 + 1)

MinReferences == 5   \* MIN_MAD_REFERENCE_COUNT

(* More than 3.5 modified z-scores from the median; if the references do   *)
(* not deviate, more than five seconds and a tenth of the median.  Every   *)
(* median is doubled to remain an integer: mad and deviation are fourfold. *)
Outlier(duration, references) ==
  LET median == TwiceMedian(references)
      mad == TwiceMedian([i \in DOMAIN references |-> Abs(2 * references[i] - median)])
      deviation == 2 * Abs(2 * duration - median)
  IN IF mad = 0 THEN deviation > 4 * 5 /\ 5 * deviation > median
     ELSE 6745 * deviation > 35000 * mad

(* assess_segment_sample: 80 km/h is the limit, and with few references *)
(* every duration is accepted (with half the weight).                    *)
Assess(m, references) ==
  IF m.duration <= 0 \/ m.distance <= 0 THEN "invalid_measurement"
  ELSE IF 36 * m.distance > 800 * m.duration THEN "speed_over_80"
  ELSE IF Len(references) >= MinReferences /\ Outlier(m.duration, references) THEN "mad_outlier"
  ELSE "accepted"

-----------------------------------------------------------------------------
(* A batch in the order of completed_at: every duration that is accepted   *)
(* is a reference for the next.                                            *)
AssessedNext(so, m, references) ==
  LET verdict == Assess(m, references \o so.accepted)
  IN [verdicts |-> so.verdicts \cup {verdict},
      accepted |-> IF verdict = "accepted" THEN Append(so.accepted, m.duration)
                   ELSE so.accepted]

Assessed(batch, references) ==
  LET after[n \in 0..Len(batch)] ==
        IF n = 0 THEN [verdicts |-> {}, accepted |-> << >>]
        ELSE AssessedNext(after[n - 1], batch[n], references)
  IN after[Len(batch)]

(* Mutant of Aged: the rows expire, but the oldest are still there. *)
AgedWithoutExpiry ==
  [age \in Ages |-> IF age = 0 THEN << >>
                    ELSE IF age = Hour - 1 THEN Sorted(accepted[age - 1] \o accepted[age])
                    ELSE accepted[age - 1]]

(* An hour after its completion a measurement is no reference any more.    *)
Aged == [age \in Ages |-> IF age = 0 THEN << >> ELSE accepted[age - 1]]

(* The measurements are those of pace.only for one more cycle.             *)
Paced(batch) ==
  IF ToSet(batch) \subseteq {pace.only}
  THEN [pace EXCEPT !.cycles = IF @ < Hour THEN @ + 1 ELSE Hour]
  ELSE [only |-> Last(batch), cycles |-> IF ToSet(batch) = {Last(batch)} THEN 1 ELSE 0]

Cycle(batch) ==
  LET assessed == Assessed(batch, FlattenSeq([i \in 1..Hour |-> Aged[i - 1]]))
  IN /\ accepted' = [Aged EXCEPT ![0] = Sorted(assessed.accepted)]
     /\ verdicts' = assessed.verdicts
     /\ pace' = Paced(batch)

Next == \E n \in 0..MaxBatch : \E batch \in [1..n -> Measurements] : Cycle(batch)

Spec == Init /\ [][Next]_vars

-----------------------------------------------------------------------------
(* A lasting change of traffic is learned: a duration that has been the    *)
(* only one for an hour is not an outlier any more, whatever was accepted  *)
(* before and whichever of them were rejected in between.                  *)
NewPaceIsLearned == pace.cycles = Hour => "mad_outlier" \notin verdicts
=============================================================================
