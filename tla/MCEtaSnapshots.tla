--------------------------- MODULE MCEtaSnapshots ---------------------------
(* Two vehicles: one changes between two trips, of which one has only      *)
(* planned ETAs, and the other stays on the trip that can be measured.     *)
EXTENDS EtaSnapshots, TLC

CONSTANTS v1, v2, t1, t2

MCVehicles == {v1, v2}
MCTrips == {t1, t2}
MCMeasurable == {t1}
MCTripsOf == (v1 :> {t1, t2}) @@ (v2 :> {t1})
=============================================================================
