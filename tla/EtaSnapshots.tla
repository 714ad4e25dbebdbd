---------------------------- MODULE EtaSnapshots ----------------------------
(***************************************************************************)
(* The ETA snapshots of a worker cycle (run_cittati_cycle).  A cycle reads *)
(* the clock once, commits the positions it ingested, and refreshes the    *)
(* snapshots in a second transaction: the enriched ones at most once per   *)
(* five-minute window, for every vehicle with a current segment, then the  *)
(* planned ones, for the vehicles that are left without a usable snapshot. *)
(* Time passes in units; every time stamp is kept as its age, and an age   *)
(* stops growing where nothing can tell it apart any more.                 *)
(***************************************************************************)
EXTENDS Integers

CONSTANTS
  Vehicles,
  Trips,
  TripsOf,       \* TripsOf[v]: the trips vehicle v is scheduled for
  NoTrip,        \* a position that correlates with no active trip
  NoSnapshot,    \* the vehicle has no row in vehicle_eta_snapshots
  Measurable,    \* trips whose remaining stop pairs all have usable progress
  Indexed,       \* trips with a complete entry in the active trip index
  Window,        \* length of five_minute_window
  StateFresh,    \* age of a position an enriched ETA may use: 5 minutes
  PlannedFresh,  \* age of a position a planned ETA may use: 60 seconds
  MaxAge,        \* _MAX_SNAPSHOT_AGE: 10 minutes
  MaxLag         \* bound on the length of a cycle, from its clock reading on

ASSUME SnapshotAssumption ==
  /\ NoTrip \notin Trips /\ Measurable \subseteq Trips /\ Indexed \subseteq Trips
  /\ TripsOf \in [Vehicles -> SUBSET Trips]
  /\ NoSnapshot \notin [trip : Trips, mode : {"enriched", "planned_baseline"}, age : Nat]
  /\ Window \in Nat \ {0} /\ MaxLag \in Nat /\ MaxLag <= Window
  /\ PlannedFresh \in Nat /\ StateFresh \in Nat /\ PlannedFresh <= StateFresh
  /\ MaxAge \in Nat /\ MaxAge >= 2 * Window - 1

VARIABLES
  phase,     \* units since the five-minute window opened
  cycle,     \* where the cycle stands: idle, ingesting or refreshing
  lag,       \* units since the cycle read its clock (evaluated_at)
  state,     \* vehicle_current_states
  snapshot   \* vehicle_eta_snapshots

vars == <<phase, cycle, lag, state, snapshot>>

OldestState == StateFresh + MaxLag + 1
OldestRow == MaxAge + MaxLag + 1

Positions ==   \* segment: on a known segment of its trip; covered: matched,
               \* between two known ones; lost: not resolved, or off them all
  {"segment", "covered", "lost"}
Modes == {"enriched", "planned_baseline"}

State == [trip : Trips \cup {NoTrip}, position : Positions, age : 0..OldestState]
Row == [trip : Trips, mode : Modes, age : 0..OldestRow]

Init ==
  /\ phase = 0 /\ cycle = "idle" /\ lag = 0
  /\ state = [v \in Vehicles |-> [trip |-> NoTrip, position |-> "lost", age |-> OldestState]]
  /\ snapshot = [v \in Vehicles |-> NoSnapshot]

-----------------------------------------------------------------------------
Older(age, oldest) == IF age < oldest THEN age + 1 ELSE oldest

(* A unit of time passes.  The time-outs of a cycle bound how far it can   *)
(* fall behind the clock it read.                                          *)
Tick ==
  /\ cycle = "idle" \/ lag < MaxLag
  /\ phase' = (phase + 1) % Window
  /\ lag' = IF cycle = "idle" THEN 0 ELSE lag + 1
  /\ state' = [v \in Vehicles |-> [state[v] EXCEPT !.age = Older(@, OldestState)]]
  /\ snapshot' = [v \in Vehicles |->
       IF snapshot[v] = NoSnapshot THEN NoSnapshot
       ELSE [snapshot[v] EXCEPT !.age = Older(@, OldestRow)]]
  /\ UNCHANGED cycle

(* The cycle reads the clock before it asks the source for positions. *)
Start ==
  /\ cycle = "idle"
  /\ cycle' = "ingesting" /\ lag' = 0
  /\ UNCHANGED <<phase, state, snapshot>>

Reports(v) == {[trip |-> NoTrip, position |-> "lost", age |-> 0]}
                \cup [trip : TripsOf[v], position : Positions, age : {0}]

(* The first transaction commits: some vehicles report a newer position.   *)
Ingest ==
  /\ cycle = "ingesting"
  /\ cycle' = "refreshing"
  /\ \E reported \in SUBSET {v \in Vehicles : state[v].age > 0} :
       \E new \in [reported -> UNION {Reports(v) : v \in reported}] :
         /\ \A v \in reported : new[v] \in Reports(v)
         /\ state' = [v \in Vehicles |-> IF v \in reported THEN new[v] ELSE state[v]]
  /\ UNCHANGED <<phase, lag, snapshot>>

-----------------------------------------------------------------------------
(* Ages relative to evaluated_at, the clock of the cycle. *)
Since(age) == age - lag

(* Units since the five-minute window of evaluated_at opened. *)
WindowAge == IF lag <= phase THEN phase ELSE phase + Window

Enriched(rows) == {v \in Vehicles : rows[v] # NoSnapshot /\ rows[v].mode = "enriched"}

(* Mutant of RefreshDue: the refresh at the opening second does not count. *)
RefreshDueStrict(rows) == ~ \E v \in Enriched(rows) : rows[v].age < WindowAge

(* latest_generated_at >= window_start, over the enriched rows only. *)
RefreshDue(rows) == ~ \E v \in Enriched(rows) : rows[v].age <= WindowAge

(* Mutant of Prepared: every fresh position, on a trip and segment or not. *)
PreparedAnywhere == {v \in Vehicles : Since(state[v].age) <= StateFresh}

(* Vehicles with a position, a segment and a trip whose remaining segments *)
(* build_remaining_trip_segments accepts.                                  *)
Prepared ==
  {v \in Vehicles : /\ state[v].trip \in Measurable
                    /\ state[v].position = "segment"
                    /\ Since(state[v].age) <= StateFresh}

Composed(rows, chosen, mode) ==
  [v \in Vehicles |-> IF v \in chosen
                      THEN [trip |-> state[v].trip, mode |-> mode, age |-> lag]
                      ELSE rows[v]]

(* refresh_vehicle_eta_snapshots *)
EnrichedRefresh(rows) ==
  IF RefreshDue(rows) THEN Composed(rows, Prepared, "enriched") ELSE rows

(* Mutant of Unserved: an old snapshot of the trip counts. *)
UnservedOnceOnly(rows) ==
  {v \in Vehicles : /\ state[v].trip # NoTrip /\ state[v].position # "lost"
                    /\ Since(state[v].age) <= PlannedFresh
                    /\ \/ rows[v] = NoSnapshot
                       \/ rows[v].trip # state[v].trip}

(* The SELECT of refresh_missing_planned_eta_snapshots: matched vehicles   *)
(* without a snapshot, with one of another trip, or with one too old.      *)
Unserved(rows) ==
  {v \in Vehicles : /\ state[v].trip # NoTrip /\ state[v].position # "lost"
                    /\ Since(state[v].age) <= PlannedFresh
                    /\ \/ rows[v] = NoSnapshot
                       \/ rows[v].trip # state[v].trip
                       \/ Since(rows[v].age) > MaxAge}

PlannedRefresh(rows) ==
  Composed(rows, {v \in Unserved(rows) : state[v].trip \in Indexed}, "planned_baseline")

(* Mutant of Refreshed: the planned statement does not see the rows the    *)
(* enriched one has just written.                                          *)
RefreshedApart(rows) ==
  Composed(EnrichedRefresh(rows),
           {v \in Unserved(rows) : state[v].trip \in Indexed}, "planned_baseline")

(* The planned statement runs in the transaction of the enriched one and   *)
(* reads what that one wrote.                                              *)
Refreshed(rows) == PlannedRefresh(EnrichedRefresh(rows))

(* The second transaction commits. *)
Refresh ==
  /\ cycle = "refreshing"
  /\ snapshot' = Refreshed(snapshot)
  /\ cycle' = "idle" /\ lag' = 0
  /\ UNCHANGED <<phase, state>>

(* An exception or a crash in either transaction: what it had written is   *)
(* rolled back, what the first one committed stays.                        *)
Abandon ==
  /\ cycle # "idle"
  /\ cycle' = "idle" /\ lag' = 0
  /\ UNCHANGED <<phase, state, snapshot>>

Next == Tick \/ Start \/ Ingest \/ Refresh \/ Abandon

(* However many cycles fail, some commit again and again: the worker loop  *)
(* tries them for ever (Recovers, in CittatiWorker).                       *)
Fairness == []<><<Refresh>>_vars

Spec == Init /\ [][Next]_vars /\ Fairness

-----------------------------------------------------------------------------
TypeOK ==
  /\ phase \in 0..(Window - 1)
  /\ cycle \in {"idle", "ingesting", "refreshing"}
  /\ lag \in 0..MaxLag
  /\ state \in [Vehicles -> State]
  /\ snapshot \in [Vehicles -> Row \cup {NoSnapshot}]

(* Of the window that is open and of the one before: 0 and 1. *)
InWindow(age, n) ==
  IF n = 0 THEN age <= phase ELSE phase < age /\ age <= phase + Window

(* Enriched ETAs are computed once per five-minute window: two enriched    *)
(* rows of one window are of one refresh, although a refresh may run late, *)
(* in the next window, although planned rows replace enriched ones and so  *)
(* may let a second refresh of the window run, and although vehicles join  *)
(* and leave in between.                                                   *)
OneRefreshPerWindow ==
  \A n \in {0, 1} : \A v, w \in Enriched(snapshot) :
    InWindow(snapshot[v].age, n) /\ InWindow(snapshot[w].age, n)
      => snapshot[v].age = snapshot[w].age

(* After a cycle committed, every vehicle whose position it could use, on  *)
(* a trip of the index, has an ETA of the very trip it runs, not older     *)
(* than ten minutes at the clock of the cycle; and what a due refresh      *)
(* computed from measurements is still there: the planned ETAs of the      *)
(* cycle fill in, they never replace it.                                   *)
CommitServesMatched ==
  [][Refresh =>
       /\ \A v \in Vehicles :
            /\ state[v].trip \in Indexed /\ state[v].position # "lost"
            /\ Since(state[v].age) <= PlannedFresh
            => /\ snapshot'[v] # NoSnapshot
               /\ snapshot'[v].trip = state[v].trip
               /\ Since(snapshot'[v].age) <= MaxAge
       /\ RefreshDue(snapshot) =>
            \A v \in Prepared : snapshot'[v].mode = "enriched" /\ snapshot'[v].age = lag]_vars

(* A row the API serves for the trip the vehicle runs: the join of         *)
(* query_vehicle_swap_prescriptions, and its limit of ten minutes.         *)
Shown(v) ==
  /\ snapshot[v] # NoSnapshot
  /\ snapshot[v].trip = state[v].trip
  /\ snapshot[v].age <= MaxAge

(* A vehicle that from some point on is matched on trips of the index      *)
(* whenever a cycle comes to refresh is shown again and again, whatever    *)
(* trips it takes and however many cycles fail in between.                 *)
MatchedVehiclesAreShown ==
  \A v \in Vehicles :
    <>[](cycle = "refreshing" =>
           /\ state[v].trip \in Indexed /\ state[v].position # "lost"
           /\ Since(state[v].age) <= PlannedFresh)
      => []<>Shown(v)
=============================================================================
