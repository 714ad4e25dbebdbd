--------------------------- MODULE StopProjection ---------------------------
(***************************************************************************)
(* Where the stops of a trip pattern lie along its shape                   *)
(* (monotonic_stop_projection).  A pattern is a sequence of windows, one   *)
(* per stop: the places on the shape, with their distance from the stop.   *)
(***************************************************************************)
EXTENDS Integers, Sequences, SequencesExt

NoPath == << >>

Reaches(path, candidate) == candidate.progress >= Last(path).progress

(* min over the cost, then over the progress of the last stop. *)
Cheapest(paths) ==
  CHOOSE p \in paths : \A q \in paths :
    \/ p.cost < q.cost
    \/ p.cost = q.cost /\ Last(p.path).progress <= Last(q.path).progress

(* Mutant of Extended: the path that is shortest so far, not the cheapest. *)
ExtendedGreedily(paths, window) ==
  {LET behind == {p \in paths : Reaches(p.path, c)}
       best == CHOOSE p \in behind :
                 \A q \in behind : Last(p.path).progress <= Last(q.path).progress
   IN [cost |-> best.cost + c.distance, path |-> Append(best.path, c)] :
     c \in {c \in window : \E p \in paths : Reaches(p.path, c)}}

(* The cheapest way to every candidate of the next window. *)
Extended(paths, window) ==
  {LET best == Cheapest({p \in paths : Reaches(p.path, c)})
   IN [cost |-> best.cost + c.distance, path |-> Append(best.path, c)] :
     c \in {c \in window : \E p \in paths : Reaches(p.path, c)}}

(* The cheapest way to every candidate of each window. *)
PathsTo(windows) ==
  LET paths[k \in 1..Len(windows)] ==
        IF k = 1 THEN {[cost |-> c.distance, path |-> <<c>>] : c \in windows[1]}
        ELSE Extended(paths[k - 1], windows[k])
  IN paths

SelectMonotonicStopPath(windows) ==
  LET paths == PathsTo(windows)
  IN IF windows = << >> \/ paths[Len(windows)] = {} THEN NoPath
     ELSE Cheapest(paths[Len(windows)]).path

-----------------------------------------------------------------------------
Reduced == 50

(* CANDIDATES_SQL: the places at most 50 m away, and the nearest one.  A   *)
(* stop without a location has no place at all.                            *)
Near(window) ==
  {c \in window : c.distance <= Reduced \/ \A d \in window : c.distance <= d.distance}

(* reproject_gtfs_stops_monotonically: a pattern with no path over the     *)
(* near places is tried again over all of them.                            *)
ProjectPattern(windows) ==
  LET near == SelectMonotonicStopPath([k \in DOMAIN windows |-> Near(windows[k])])
  IN IF near # NoPath THEN near ELSE SelectMonotonicStopPath(windows)

-----------------------------------------------------------------------------
Cost(path) ==
  LET sum[k \in 0..Len(path)] == IF k = 0 THEN 0 ELSE sum[k - 1] + path[k].distance
  IN sum[Len(path)]

Monotone(path) == \A k \in 2..Len(path) : path[k].progress >= path[k - 1].progress

(* A place for every stop, none behind that of the stop before. *)
MonotonePaths(windows) ==
  {path \in [DOMAIN windows -> UNION {windows[k] : k \in DOMAIN windows}] :
     Monotone(path) /\ \A k \in DOMAIN windows : path[k] \in windows[k]}

(* A pattern gets a path along which no stop lies behind the one before,   *)
(* and of these the cheapest; it gets none only if there is none           *)
(* ("selects globally best monotonic path instead of greedy dead end").    *)
PathIsCheapest(windows, path) ==
  IF path = NoPath THEN MonotonePaths(windows) = {}
  ELSE /\ path \in MonotonePaths(windows)
       /\ \A other \in MonotonePaths(windows) : Cost(path) <= Cost(other)
=============================================================================
