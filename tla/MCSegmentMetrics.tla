-------------------------- MODULE MCSegmentMetrics --------------------------
(* Two segments whose metric keys are interchangeable, a window a day, and *)
(* profiles of the last two days.  Apart from them, the estimates alone:   *)
(* days of three slots, any rows, and trips that depart around midnight;   *)
(* and the validation alone, of measurements of a segment of 500 m.        *)
EXTENDS SegmentMetrics, TLC

KeySymmetry == Permutations(Keys)

(* The values of the parameters below: the catalog is loaded on date 2, a  *)
(* Sunday, after a Saturday.                                               *)
MCMeasurements == [duration : {60, 64, 90}, distance : {500}]
MCOffsets == <<0, -2, 2>>
MCLoaded == 12..17
MCLiveRows == {[start |-> s] : s \in {8, 12, 14}} \cup {NoRow}
Profile(type, slot, end) == [type |-> type, slot |-> slot, end |-> end]
MCProfiles == {Profile("saturday", 2, 1), Profile("sunday", 0, 1), Profile("sunday", 2, 1),
               Profile("sunday", 1, 0)}
Traversal(departure, dates) == [departure |-> departure, dates |-> dates]
MCTraversals == {Traversal(0, {2}), Traversal(3, {2, 3}), Traversal(5, {1}), Traversal(6, {1, 2}),
                 Traversal(7, {1, 2}), Traversal(9, {0, 1})}

CONSTANTS
  Measurements, Hour, MaxBatch,                              \* of the validation
  SlotLength, SlotsOfDay, FirstWeekday, Offsets, LiveMaxAge, \* of the estimates
  Loaded, LiveRows, Profiles, Traversals                     \* what a trial may read

Estimates == INSTANCE SegmentEstimates WITH
  SlotsPerDay <- SlotsOfDay, FirstDay <- FirstWeekday, None <- NoRow

ValidationSettings ==
  /\ Hour \in Nat \ {0} /\ MaxBatch \in Nat
  /\ Measurements # {} /\ \A m \in Measurements : m.duration \in Int

(* A day has whole slots, and offsets are whole slots of at most a day.    *)
EstimateSettings ==
  /\ SlotLength \in Nat \ {0} /\ SlotsOfDay \in Nat \ {0} /\ FirstWeekday \in Int
  /\ \A i \in DOMAIN Offsets :
       /\ Offsets[i] \in Int /\ Offsets[i] % SlotLength = 0
       /\ -Estimates!DayLength <= Offsets[i] /\ Offsets[i] <= Estimates!DayLength

(* A timetable whose departures end an offset before the second midnight.  *)
Timetable(schedule) ==
  \A t \in schedule :
    /\ t.departure \in Nat /\ t.departure < 2 * Estimates!DayLength
    /\ \A i \in DOMAIN Offsets : t.departure < 2 * Estimates!DayLength + Offsets[i]

ASSUME ValidationAssumption == ValidationSettings

ASSUME EstimatesAssumption ==
  /\ EstimateSettings /\ Timetable(Traversals)
  /\ Loaded \subseteq Int
  /\ \A row \in LiveRows : row # NoRow => row.start \in Int

VARIABLES
  trial,                      \* the rows of a trial, and when they were read
  accepted, verdicts, pace    \* of the validation

Validation == INSTANCE SampleValidation

judged == <<accepted, verdicts, pace>>

MCInit == Init /\ trial = <<>> /\ Validation!Init

Unjudged == pace.cycles = 0 /\ verdicts = {}
Unmeasured == now = 0 /\ observations = {} /\ claim = NoRow

Measure == Unjudged /\ Next /\ UNCHANGED <<trial, judged>>

Judge == Unmeasured /\ Validation!Next /\ UNCHANGED <<vars, trial>>

Try ==
  /\ Unmeasured /\ Unjudged
  /\ \E queried \in Loaded, row \in LiveRows,
        rows \in SUBSET Profiles, schedule \in SUBSET Traversals :
       trial' = <<queried, row, rows, schedule>>
  /\ UNCHANGED <<vars, judged>>

MCNext == trial = <<>> /\ (Measure \/ Judge \/ Try)

MCSpec == MCInit /\ [][MCNext]_<<vars, trial, judged>>

(* The worker's snapshots and the API agree: at every later instant of the *)
(* service date, a catalog gives the estimate a query of that instant      *)
(* gives, with trips of the day before that depart after midnight, and     *)
(* with slots across midnight; where the query has none, the catalog can   *)
(* only fall back on the duration in the vehicle's own trip.  (A row of a  *)
(* window that had not begun when the catalog was loaded is not in it.)    *)
CatalogAgreesWithQuery ==
  trial # <<>> => \A own \in {"own", NoRow} :
    Estimates!CatalogAgreesWithQuery(trial[1], trial[2], trial[3], trial[4], own)

NewPaceIsLearned == Validation!NewPaceIsLearned
=============================================================================
