---------------------------- MODULE VehicleWindow ----------------------------
(***************************************************************************)
(* One vehicle's row of realtime.vehicle_current_states as ingestion       *)
(* cycles move it (_upsert_current_states, _temporally_match_correlated_-  *)
(* vehicles, _process_boundary_crossings): a window of at most three       *)
(* samples, matched to the trip's shape, the last stop boundary crossed,   *)
(* and the segments completed between two boundaries.  A cycle is one      *)
(* transaction and the upsert locks the row until commit, so a cycle is    *)
(* one step of the row even with a second writer; a crash rolls it back.   *)
(* Rows of other vehicles take no part in any of these statements.         *)
(***************************************************************************)
EXTENDS Integers, Sequences, FiniteSets

CONSTANTS
  Trips,      \* trip_id values
  NoTrip,     \* the sample correlates with no active trip
  Nothing,    \* a NULL boundary
  Feeds,      \* how many GTFS feeds are published in turn
  ShapeOf,    \* ShapeOf[f][t]: the shape_id of trip t in feed f
  Stops,      \* Stops[f][t]: the boundaries of trip t in feed f
  Nears,      \* the sets of shape positions a sample can be close to
  MaxGap,     \* MAX_SAMPLE_GAP, and the INTERVAL '5 minutes' of the upsert
  Jitter,     \* MAX_REVERSE_JITTER_M
  MaxTime     \* bound on the time stamps of a behaviour

(* A boundary crossed, and when: last_boundary_* and the ends of segments. *)
Crossings ==
  [seq : Nat, previous : Nat \cup {-1}, progress : Nat,
   quality : {"valid", "reduced", "fallback_required"}, end : 1..MaxTime]

ASSUME WindowAssumption ==
  /\ NoTrip \notin Trips /\ Nothing \notin Nat \cup Crossings
  /\ Feeds \in Nat \ {0}
  /\ MaxGap \in Nat /\ Jitter \in Nat /\ MaxTime \in Nat
  /\ \A near \in Nears : near \subseteq Nat
  /\ \A f \in 1..Feeds, t \in Trips :
       /\ IsFiniteSet(Stops[f][t])
       /\ \A s \in Stops[f][t] :
            /\ s.seq \in Nat /\ s.previous \in -1..(s.seq - 1) /\ s.progress \in Nat
            /\ s.quality \in {"valid", "reduced", "fallback_required"}
       /\ \A s, z \in Stops[f][t] : s.seq = z.seq => s = z

VARIABLES
  feed,        \* the feed behind the cached active trip index
  window,      \* previous_state_2, previous_state_1 and the current sample
  last,        \* last_boundary_*: the boundary crossed last
  completed,   \* segments completed since the window was last reset
  opened,      \* time of the sample that reset the window
  slowSince,   \* low_speed_since
  outcome      \* how the last cycle over this row ended

vars == <<feed, window, last, completed, opened, slowSince, outcome>>

(* A parsed and correlated row.  near is empty when the row has no         *)
(* location, no source time stamp, or is over 50 m from the shape: none of *)
(* the three takes part in a match.  time is coalesce(source_timestamp,    *)
(* received_at); slow says that speed_kmh is known and below 1.             *)
Sample(time, trip, near, slow) ==
  [time |-> time, trip |-> trip, near |-> near, slow |-> slow,
   shape |-> IF trip = NoTrip THEN NoTrip ELSE ShapeOf[feed][trip]]

Init ==
  /\ feed = 1
  /\ window = << >>
  /\ last = Nothing
  /\ completed = {}
  /\ opened = 0
  /\ slowSince = Nothing
  /\ outcome = "ok"

-----------------------------------------------------------------------------
(* The stored state of the row: the youngest sample of its window. *)
Latest == window[Len(window)]

(* ON CONFLICT DO UPDATE ... WHERE incoming_is_newer: any other row is     *)
(* left as it is, and keeps its ingestion_run_id, so that the rest of the  *)
(* cycle does not see it either.                                           *)
IncomingIsNewer(time) == window # << >> => time > Latest.time

(* Mutant of WindowMustReset: only a change of trip resets. *)
ResetOnTripOnly(s) ==
  \/ window = << >>
  \/ Latest.trip # s.trip
  \/ Latest.shape # s.shape

WindowMustReset(s) ==
  \/ window = << >>
  \/ Latest.trip # s.trip
  \/ Latest.shape # s.shape
  \/ s.time - Latest.time > MaxGap

(* Mutant of BoundaryAfter: a reset of the window keeps the boundary. *)
BoundaryKept(s) == last

(* The last_boundary_* columns after the upsert. *)
BoundaryAfter(s) == IF WindowMustReset(s) THEN Nothing ELSE last

(* Mutant of LowSpeedSince: a reset of the window does not end a slow run. *)
LowSpeedAcrossReset(s) ==
  IF ~s.slow THEN Nothing
  ELSE IF window # << >> /\ Latest.slow THEN slowSince
  ELSE s.time

(* The CASE on speed_kmh: a slow run goes on, or starts with this sample. *)
LowSpeedSince(s) ==
  IF ~s.slow THEN Nothing
  ELSE IF ~WindowMustReset(s) /\ Latest.slow THEN slowSince
  ELSE s.time

(* Mutant of LastThree: the window keeps every sample. *)
LastOfAll(samples) == samples

LastThree(samples) ==
  IF Len(samples) <= 3 THEN samples ELSE SubSeq(samples, Len(samples) - 2, Len(samples))

(* match_three_samples: the paths of candidates along the shape that go    *)
(* back by no more than the jitter.  Which one is resolved, and whether    *)
(* any is, also depends on bearings and distances, which are left open.    *)
Paths(w) ==
  {<<a, b, c>> : a \in w[1].near, b \in w[2].near, c \in w[3].near}

MonotonePaths(w) ==
  {p \in Paths(w) : \A i \in 1..2 : p[i + 1] >= p[i] - Jitter}

(* A boundary passed between the two last positions of the matched path.   *)
(* Its crossing time is interpolated between their time stamps: it is      *)
(* known here by the later of them and by the progress made until then.    *)
Crossing(stop, time) ==
  [seq |-> stop.seq, previous |-> stop.previous, progress |-> stop.progress,
   quality |-> stop.quality, end |-> time]

Earlier(a, b) == a.end < b.end \/ (a.end = b.end /\ a.progress < b.progress)

Ahead(s, z) == s.progress < z.progress \/ (s.progress = z.progress /\ s.seq < z.seq)

(* interpolate_crossed_boundaries, over the boundaries the query selects   *)
(* and in the order it returns them.                                       *)
CrossedBoundaries(f, trip, path, time) ==
  LET passed == {s \in Stops[f][trip] : path[2] < s.progress /\ s.progress <= path[3]}
      nth(i) == CHOOSE s \in passed : Cardinality({z \in passed : Ahead(z, s)}) = i - 1
  IN [i \in 1..Cardinality(passed) |-> Crossing(nth(i), time)]

(* The origin while walking the crossings: it moves to a boundary of a     *)
(* higher sequence only, so it is the first of the highest sequence.       *)
Furthest(walk, n) ==
  CHOOSE c \in {walk[i] : i \in 1..n} :
    /\ \A i \in 1..n : walk[i].seq <= c.seq
    /\ \E i \in 1..n : walk[i] = c /\ \A j \in 1..(i - 1) : walk[j].seq < c.seq

(* Mutant of Origin: the origin moves to every boundary crossed. *)
LatestCrossed(walk, n) == walk[n]

Origin(walk, n) == Furthest(walk, n)

Usable(from, to) ==
  from.quality # "fallback_required" /\ to.quality # "fallback_required"

Confidence(from, to) ==
  IF from.end = to.end \/ "reduced" \in {from.quality, to.quality}
  THEN "reduced" ELSE "high"

(* complete_segments_from_crossings *)
CompletedSegments(walk) ==
  {[from |-> Origin(walk, n - 1), to |-> walk[n],
    confidence |-> Confidence(Origin(walk, n - 1), walk[n])] :
     n \in {m \in 2..Len(walk) :
              /\ walk[m].previous = Origin(walk, m - 1).seq
              /\ Usable(Origin(walk, m - 1), walk[m])
              /\ Earlier(Origin(walk, m - 1), walk[m])}}

(* ck_segment_completion_observations_measurements *)
Storable(segment) == segment.to.progress - segment.from.progress > 0

-----------------------------------------------------------------------------
(* A worker restart or a new service date loads the index of a new feed. *)
ReloadIndex ==
  /\ feed < Feeds
  /\ feed' = feed + 1
  /\ UNCHANGED <<window, last, completed, opened, slowSince, outcome>>

(* The cycle's upsert of s, and what it makes of the window. *)
Slide(s) ==
  /\ window' = IF WindowMustReset(s) THEN <<s>> ELSE LastThree(Append(window, s))
  /\ opened' = IF WindowMustReset(s) THEN s.time ELSE opened
  /\ slowSince' = LowSpeedSince(s)

(* No match, or no boundary between its last two positions. *)
Unresolved(s) ==
  /\ Slide(s)
  /\ last' = BoundaryAfter(s)
  /\ completed' = IF WindowMustReset(s) THEN {} ELSE completed
  /\ outcome' = "ok"
  /\ UNCHANGED feed

(* The match resolves to a path and boundaries are crossed on its last leg. *)
Cross(s, path) ==
  LET crossings == CrossedBoundaries(feed, s.trip, path, s.time)
      walk == IF last = Nothing THEN crossings ELSE <<last>> \o crossings
      segments == CompletedSegments(walk)
  IN /\ crossings # << >>
     /\ \/ /\ \A segment \in segments : Storable(segment)
           /\ Slide(s)
           /\ last' = Origin(walk, Len(walk))
           /\ completed' = completed \cup segments
           /\ outcome' = "ok"
        \* the INSERT fails a CHECK and the whole cycle is rolled back
        \/ /\ \E segment \in segments : ~Storable(segment)
           /\ outcome' = "constraint_violation"
           /\ UNCHANGED <<window, last, completed, opened, slowSince>>
     /\ UNCHANGED feed

Resolved(s) ==
  /\ ~WindowMustReset(s)
  /\ s.trip # NoTrip
  /\ Len(window) >= 2
  /\ \E path \in MonotonePaths(LastThree(Append(window, s))) : Cross(s, path)

(* One cycle whose answer has a row for this vehicle. *)
Cycle(time) ==
  /\ IncomingIsNewer(time)
  /\ \E trip \in Trips \cup {NoTrip}, near \in Nears, slow \in BOOLEAN :
       LET s == Sample(time, trip, near, slow) IN
       /\ trip = NoTrip => near = {}
       /\ Unresolved(s) \/ Resolved(s)

Next ==
  \/ ReloadIndex
  \/ \E time \in 1..MaxTime : Cycle(time)

Spec == Init /\ [][Next]_vars

-----------------------------------------------------------------------------
Samples ==
  [time : 1..MaxTime, trip : Trips \cup {NoTrip}, near : Nears, slow : BOOLEAN,
   shape : {NoTrip} \cup {ShapeOf[f][t] : f \in 1..Feeds, t \in Trips}]

WindowType ==
  /\ feed \in 1..Feeds
  /\ window \in Seq(Samples)
  /\ Len(window) <= 3

(* Types: however many cycles feed the row, its window never holds more    *)
(* than the three samples a match compares.                                *)
TypeOK ==
  /\ WindowType
  /\ last \in Crossings \cup {Nothing}
  /\ \A c \in completed :
       c.from \in Crossings /\ c.to \in Crossings /\ c.confidence \in {"high", "reduced"}
  /\ opened \in 0..MaxTime
  /\ slowSince \in 1..MaxTime \cup {Nothing}
  /\ outcome \in {"ok", "constraint_violation"}

(* The samples a match compares are in order, close in time and of one     *)
(* trip on one shape, whatever late, repeated or missing answers the       *)
(* source gave in between (MAX_SAMPLE_GAP is applied again by the match,   *)
(* and never has to reject a window the upsert let through).               *)
WindowContiguous ==
  \A i \in 1..(Len(window) - 1) :
    /\ window[i].time < window[i + 1].time
    /\ window[i + 1].time - window[i].time <= MaxGap
    /\ window[i].trip = window[i + 1].trip
    /\ window[i].shape = window[i + 1].shape

(* No duration is measured across a reset of the window: both ends of a    *)
(* completed segment were crossed after the sample that opened it.         *)
SegmentsInsideWindow ==
  \A c \in completed : opened < c.from.end /\ c.to.end <= Latest.time

(* Completed segments of a window follow one another: none overlaps        *)
(* another in time, none is measured twice, and later ones are further     *)
(* along the trip, although matched positions may jump back and forth and  *)
(* the same boundary be crossed again.                                     *)
SegmentsInOrder ==
  \A c, d \in completed :
    c # d =>
      \/ c.to.seq <= d.from.seq /\ ~Earlier(d.from, c.to)
      \/ d.to.seq <= c.from.seq /\ ~Earlier(c.from, d.to)

(* Low speed is reported since a moment of the current window, and every   *)
(* sample of the window from that moment on is slow.                       *)
SlowRunUnbroken ==
  /\ window # << >> => (slowSince # Nothing <=> Latest.slow)
  /\ slowSince # Nothing =>
       /\ opened <= slowSince
       /\ \A i \in 1..Len(window) : window[i].time >= slowSince => window[i].slow

(* The boundary a row remembers never moves back while its window lasts. *)
BoundaryNeverRecedes ==
  [][opened' = opened /\ last # Nothing
       => /\ last' # Nothing
          /\ last'.seq >= last.seq
          /\ ~Earlier(last', last)]_vars

(* "duration_seconds > 0 AND distance_m > 0 AND average_speed_kmh > 0":    *)
(* no cycle is lost to a measurement the table refuses.                    *)
MeasurementsStorable == outcome # "constraint_violation"

=============================================================================
