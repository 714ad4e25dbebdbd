----------------------------- MODULE MCGtfsFeeds -----------------------------
(* Three runs over two contents that can be stored and one that cannot.    *)
(* Apart from them, the projection alone, over every small trip pattern.   *)
EXTENDS GtfsFeeds, Sequences, TLC

CONSTANTS
  line, circle, backwards,  \* the contents
  StopPlaces, Patterns      \* the places and the patterns tried

Place(progress, distance) == [progress |-> progress, distance |-> distance]

(* The circle begins and ends at one stop: only the far place of its last  *)
(* stop, at the end of the shape, follows the others.  The third has no    *)
(* path.                                                                   *)
MCPatternOf ==
  (line :> <<{Place(0, 10)}, {Place(3, 10), Place(5, 40)}>>)
  @@ (circle :> <<{Place(0, 0)}, {Place(2, 0)}, {Place(0, 0), Place(4, 60)}>>)
  @@ (backwards :> <<{Place(2, 0)}, {Place(1, 0)}>>)

MCContents == {line, circle, backwards}
JobSymmetry == Permutations(Jobs)

(* Three stops with at most two places each: near, at 40 m and at 70 m.    *)
MCPlaces == {Place(progress, distance) : progress \in 0..2, distance \in {0, 40, 70}}
MCWindows == {w \in SUBSET MCPlaces : Cardinality(w) <= 2
                /\ \A c, d \in w : c.progress = d.progress => c = d}
MCPatterns == [1..3 -> MCWindows]

ASSUME PatternsAssumption ==
  /\ \A c \in StopPlaces : c.progress \in Nat /\ c.distance \in Nat
  /\ \A windows \in Patterns : windows \in Seq(SUBSET StopPlaces) /\ windows # <<>>

VARIABLES trial   \* the pattern tried and its path

MCInit == Init /\ trial = <<>>

Try ==
  /\ trial = <<>> /\ job = [j \in Jobs |-> [phase |-> "idle", content |-> Nothing,
                                            received |-> 0, finished |-> 0]]
  /\ clock = 1 /\ published = line /\ reading = Nothing
  /\ \E windows \in Patterns :
       trial' = <<windows, Projection!SelectMonotonicStopPath(windows)>>
  /\ UNCHANGED vars

MCNext == (Next /\ UNCHANGED trial /\ trial = <<>>) \/ Try

MCSpec == MCInit /\ [][MCNext]_<<vars, trial>>

(* The path chosen for a pattern is the cheapest of its monotone paths,    *)
(* and a pattern without one has none (select_monotonic_stop_path).        *)
PathIsCheapest == trial # <<>> => Projection!PathIsCheapest(trial[1], trial[2])
=============================================================================
