-------------------------- MODULE MCVehicleWindow --------------------------
(* A trip of four boundaries and a trip that changes shape with the feed.  *)
(* The second feed adds a stop at the start of the first trip: its other   *)
(* stops keep their places and move up one number.                         *)
EXTENDS VehicleWindow

CONSTANTS a, b

MCTrips == {a, b}

MCShapeOf == <<[t \in MCTrips |-> t], [t \in MCTrips |-> IF t = a THEN a ELSE NoTrip]>>

Stop(seq, progress, quality) ==
  [seq |-> seq, previous |-> seq - 1, progress |-> progress, quality |-> quality]

MCStops ==
  LET first == {Stop(1, 1, "valid"), Stop(2, 2, "valid"), Stop(3, 4, "reduced")}
      renumbered == {Stop(1, 0, "valid")}
                      \cup {Stop(s.seq + 1, s.progress, s.quality) : s \in first}
  IN <<[t \in MCTrips |-> first],
       [t \in MCTrips |-> IF t = a THEN renumbered ELSE {}]>>

(* No position, one position, or two where the shape passes twice. *)
MCNears == {{}, {0}, {2}, {4}, {1, 4}}

=============================================================================
