------------------------- MODULE EtaSnapshotsProofs -------------------------
(***************************************************************************)
(* For any vehicles, trips, window, freshness limits and length of a       *)
(* cycle: the enriched snapshots of a window are of one refresh, and a     *)
(* cycle that commits serves every vehicle it could.                       *)
(***************************************************************************)
EXTENDS EtaSnapshots, TLAPS

IInv == TypeOK /\ OneRefreshPerWindow

(* The clock within its window: it advances by one, or a window opens.     *)
LEMMA PhaseAdvances ==
  ASSUME NEW p \in 0..(Window - 1)
  PROVE  \/ p < Window - 1 /\ (p + 1) % Window = p + 1
         \/ p = Window - 1 /\ (p + 1) % Window = 0
<1>1. Window \in Nat \ {0} /\ p \in Nat
  BY SnapshotAssumption
<1>2. CASE p < Window - 1
  BY <1>1, <1>2
<1>3. CASE p = Window - 1
  BY <1>1, <1>3
<1> QED
  BY <1>1, <1>2, <1>3

(* A row composed for a chosen vehicle is of its trip and of this cycle,   *)
(* and every other row is left alone.                                      *)
LEMMA ComposedRows ==
  ASSUME TypeOK, NEW rows \in [Vehicles -> Row \cup {NoSnapshot}], NEW mode \in Modes,
         NEW chosen, \A v \in chosen : state[v].trip \in Trips
  PROVE  /\ Composed(rows, chosen, mode) \in [Vehicles -> Row \cup {NoSnapshot}]
         /\ \A v \in Vehicles : IF v \in chosen
              THEN /\ Composed(rows, chosen, mode)[v] = [trip |-> state[v].trip, mode |-> mode, age |-> lag]
                   /\ Composed(rows, chosen, mode)[v] # NoSnapshot
              ELSE Composed(rows, chosen, mode)[v] = rows[v]
<1>1. lag \in 0..OldestRow /\ lag \in Nat
  BY SnapshotAssumption DEF TypeOK, OldestRow
<1>2. ASSUME NEW v \in Vehicles, v \in chosen
      PROVE  /\ [trip |-> state[v].trip, mode |-> mode, age |-> lag] \in Row
             /\ [trip |-> state[v].trip, mode |-> mode, age |-> lag] # NoSnapshot
  BY <1>1, <1>2, SnapshotAssumption DEF Row, Modes
<1> QED
  BY <1>2 DEF Composed

(* The rows after the enriched statement: as before, or of this cycle.     *)
LEMMA EnrichedRows ==
  ASSUME TypeOK
  PROVE  /\ EnrichedRefresh(snapshot) \in [Vehicles -> Row \cup {NoSnapshot}]
         /\ \A v \in Vehicles :
              \/ EnrichedRefresh(snapshot)[v] = snapshot[v]
                 /\ ~(RefreshDue(snapshot) /\ v \in Prepared)
              \/ /\ RefreshDue(snapshot) /\ v \in Prepared
                 /\ EnrichedRefresh(snapshot)[v]
                      = [trip |-> state[v].trip, mode |-> "enriched", age |-> lag]
                 /\ EnrichedRefresh(snapshot)[v] # NoSnapshot
<1>1. \A v \in Prepared : state[v].trip \in Trips
  BY SnapshotAssumption DEF Prepared
<1>2. snapshot \in [Vehicles -> Row \cup {NoSnapshot}] /\ "enriched" \in Modes
  BY DEF TypeOK, Modes
<1> DEFINE composed == Composed(snapshot, Prepared, "enriched")
<1>3. /\ composed \in [Vehicles -> Row \cup {NoSnapshot}]
      /\ \A v \in Vehicles : IF v \in Prepared
           THEN /\ composed[v] = [trip |-> state[v].trip, mode |-> "enriched", age |-> lag]
                /\ composed[v] # NoSnapshot
           ELSE composed[v] = snapshot[v]
  BY <1>1, <1>2, ComposedRows
<1> HIDE DEF composed
<1>4. EnrichedRefresh(snapshot) = IF RefreshDue(snapshot) THEN composed ELSE snapshot
  BY DEF EnrichedRefresh, composed
<1> QED
  BY <1>2, <1>3, <1>4

(* The rows after the planned statement: those of the enriched one, or     *)
(* planned ones where that had left a vehicle unserved.                    *)
LEMMA RefreshedRows ==
  ASSUME TypeOK
  PROVE  /\ Refreshed(snapshot) \in [Vehicles -> Row \cup {NoSnapshot}]
         /\ \A v \in Vehicles :
              \/ /\ Refreshed(snapshot)[v] = EnrichedRefresh(snapshot)[v]
                 /\ ~(v \in Unserved(EnrichedRefresh(snapshot)) /\ state[v].trip \in Indexed)
              \/ /\ v \in Unserved(EnrichedRefresh(snapshot)) /\ state[v].trip \in Indexed
                 /\ Refreshed(snapshot)[v]
                      = [trip |-> state[v].trip, mode |-> "planned_baseline", age |-> lag]
                 /\ Refreshed(snapshot)[v] # NoSnapshot
<1> DEFINE rows == EnrichedRefresh(snapshot)
           chosen == {v \in Unserved(rows) : state[v].trip \in Indexed}
           composed == Composed(rows, chosen, "planned_baseline")
<1>1. rows \in [Vehicles -> Row \cup {NoSnapshot}] /\ "planned_baseline" \in Modes
  BY EnrichedRows DEF Modes
<1>2. \A v \in chosen : state[v].trip \in Trips
  BY SnapshotAssumption
<1>3. Refreshed(snapshot) = composed
  BY DEF Refreshed, PlannedRefresh
<1> HIDE DEF rows, composed
<1>4. /\ composed \in [Vehicles -> Row \cup {NoSnapshot}]
      /\ \A v \in Vehicles : IF v \in chosen
           THEN /\ composed[v] = [trip |-> state[v].trip, mode |-> "planned_baseline", age |-> lag]
                /\ composed[v] # NoSnapshot
           ELSE composed[v] = rows[v]
  <2> HIDE DEF chosen
  <2> QED
    BY <1>1, <1>2, ComposedRows DEF composed
<1> QED
  BY <1>3, <1>4 DEF rows

-----------------------------------------------------------------------------
LEMMA InitIInv == Init => IInv
<1> SUFFICES ASSUME Init PROVE IInv
  OBVIOUS
<1>1. TypeOK
  BY SnapshotAssumption DEF Init, TypeOK, State, Positions, OldestState
<1>2. Enriched(snapshot) = {}
  BY DEF Init, Enriched
<1> QED
  BY <1>1, <1>2 DEF IInv, OneRefreshPerWindow

LEMMA NextTypes == TypeOK /\ [Next]_vars => TypeOK'
<1> SUFFICES ASSUME TypeOK, [Next]_vars PROVE TypeOK'
  OBVIOUS
<1>1. CASE Tick
  <2>1. phase' \in 0..(Window - 1)
    BY <1>1, PhaseAdvances, SnapshotAssumption DEF Tick, TypeOK
  <2>2. lag' \in 0..MaxLag
    BY <1>1, SnapshotAssumption DEF Tick, TypeOK
  <2>3. state' \in [Vehicles -> State]
    <3>1. \A a \in 0..OldestState : Older(a, OldestState) \in 0..OldestState
      BY SnapshotAssumption DEF Older, OldestState
    <3>2. \A s \in State : [s EXCEPT !.age = Older(@, OldestState)] \in State
      BY <3>1 DEF State
    <3> QED
      BY <1>1, <3>2 DEF Tick, TypeOK
  <2>4. snapshot' \in [Vehicles -> Row \cup {NoSnapshot}]
    <3>1. \A a \in 0..OldestRow : Older(a, OldestRow) \in 0..OldestRow
      BY SnapshotAssumption DEF Older, OldestRow
    <3>2. \A s \in Row : [s EXCEPT !.age = Older(@, OldestRow)] \in Row
      BY <3>1 DEF Row
    <3> QED
      BY <1>1, <3>2 DEF Tick, TypeOK
  <2> QED
    BY <1>1, <2>1, <2>2, <2>3, <2>4 DEF Tick, TypeOK
<1>2. CASE Start
  BY <1>2, SnapshotAssumption DEF Start, TypeOK
<1>3. CASE Ingest
  <2>1. \A v \in Vehicles : Reports(v) \subseteq State
    BY SnapshotAssumption DEF Reports, State, Positions, OldestState
  <2>2. state' \in [Vehicles -> State]
    BY <1>3, <2>1 DEF Ingest, TypeOK
  <2> QED
    BY <1>3, <2>2 DEF Ingest, TypeOK
<1>4. CASE Refresh
  BY <1>4, RefreshedRows, SnapshotAssumption DEF Refresh, TypeOK
<1>5. CASE Abandon
  BY <1>5, SnapshotAssumption DEF Abandon, TypeOK
<1>6. CASE UNCHANGED vars
  BY <1>6 DEF vars, TypeOK
<1> QED
  BY <1>1, <1>2, <1>3, <1>4, <1>5, <1>6 DEF Next

(* A row older than its oldest age can be is of neither window.            *)
LEMMA Ages ==
  ASSUME TypeOK
  PROVE  /\ Window \in Nat \ {0} /\ OldestRow \in Nat /\ OldestRow >= 2 * Window
         /\ phase \in Nat /\ phase <= Window - 1
         /\ lag \in Nat /\ lag <= Window
         /\ \A v \in Enriched(snapshot) : v \in Vehicles /\ snapshot[v].age \in 0..OldestRow
  BY SnapshotAssumption DEF TypeOK, OldestRow, Enriched, Row

LEMMA TickKeepsWindows == TypeOK /\ OneRefreshPerWindow /\ Tick => OneRefreshPerWindow'
<1> SUFFICES ASSUME TypeOK, OneRefreshPerWindow, Tick,
                    NEW n \in {0, 1}, NEW v \in Enriched(snapshot)', NEW w \in Enriched(snapshot)',
                    InWindow(snapshot[v].age, n)', InWindow(snapshot[w].age, n)'
             PROVE  snapshot'[v].age = snapshot'[w].age
  BY DEF OneRefreshPerWindow
<1>1. ASSUME NEW u \in Vehicles, u \in Enriched(snapshot)'
      PROVE  /\ u \in Enriched(snapshot)
             /\ snapshot'[u].age = Older(snapshot[u].age, OldestRow)
  <2>1. /\ snapshot'[u] = IF snapshot[u] = NoSnapshot THEN NoSnapshot
                          ELSE [snapshot[u] EXCEPT !.age = Older(@, OldestRow)]
        /\ snapshot'[u] # NoSnapshot /\ snapshot'[u].mode = "enriched"
    BY <1>1 DEF Tick, Enriched
  <2>2. snapshot[u] # NoSnapshot /\ snapshot[u] \in Row
    BY <2>1 DEF TypeOK
  <2>3. /\ snapshot'[u].mode = snapshot[u].mode
        /\ snapshot'[u].age = Older(snapshot[u].age, OldestRow)
    BY <2>1, <2>2 DEF Row
  <2> QED
    BY <2>1, <2>2, <2>3 DEF Enriched
<1>2. /\ v \in Vehicles /\ w \in Vehicles
  BY DEF Enriched
<1>3. /\ v \in Enriched(snapshot) /\ snapshot'[v].age = Older(snapshot[v].age, OldestRow)
      /\ w \in Enriched(snapshot) /\ snapshot'[w].age = Older(snapshot[w].age, OldestRow)
  BY <1>1, <1>2
<1>4. phase' = (phase + 1) % Window /\ phase \in 0..(Window - 1)
  BY DEF Tick, TypeOK
<1>5. \/ phase' = 0 /\ phase = Window - 1
      \/ phase' = phase + 1 /\ phase < Window - 1
  <2>1. \/ phase < Window - 1 /\ (phase + 1) % Window = phase + 1
        \/ phase = Window - 1 /\ (phase + 1) % Window = 0
    BY <1>4, PhaseAdvances
  <2> QED
    BY <1>4, <2>1, Zenon
<1> DEFINE a == snapshot[v].age
           b == snapshot[w].age
<1>6. a \in 0..OldestRow /\ b \in 0..OldestRow
  BY <1>3, Ages
<1>7. /\ IF n = 0 THEN Older(a, OldestRow) <= phase'
         ELSE phase' < Older(a, OldestRow) /\ Older(a, OldestRow) <= phase' + Window
      /\ IF n = 0 THEN Older(b, OldestRow) <= phase'
         ELSE phase' < Older(b, OldestRow) /\ Older(b, OldestRow) <= phase' + Window
  BY <1>3 DEF InWindow
<1>8. \E m \in {0, 1} : InWindow(a, m) /\ InWindow(b, m)
  <2> HIDE DEF a, b
  <2>1. CASE phase' = 0 /\ phase = Window - 1
    <3>1. n = 1
      BY <1>6, <1>7, <2>1, Ages DEF Older
    <3>2. InWindow(a, 0) /\ InWindow(b, 0)
      BY <1>6, <1>7, <2>1, <3>1, Ages DEF Older, InWindow
    <3> QED
      BY <3>2
  <2>2. CASE phase' = phase + 1 /\ phase < Window - 1
    <3>1. InWindow(a, n) /\ InWindow(b, n)
      BY <1>6, <1>7, <2>2, Ages DEF Older, InWindow
    <3> QED
      BY <3>1
  <2> QED
    BY <1>5, <2>1, <2>2
<1>9. a = b
  BY <1>3, <1>8 DEF OneRefreshPerWindow
<1> QED
  BY <1>3, <1>9

(* A due refresh is the first of its window, and one that is not writes no *)
(* enriched row.                                                           *)
LEMMA RefreshKeepsWindows == TypeOK /\ OneRefreshPerWindow /\ Refresh => OneRefreshPerWindow'
<1> SUFFICES ASSUME TypeOK, OneRefreshPerWindow, Refresh,
                    NEW n \in {0, 1}, NEW v \in Enriched(snapshot)', NEW w \in Enriched(snapshot)',
                    InWindow(snapshot[v].age, n)', InWindow(snapshot[w].age, n)'
             PROVE  snapshot'[v].age = snapshot'[w].age
  BY DEF OneRefreshPerWindow
<1>1. snapshot' = Refreshed(snapshot) /\ phase' = phase
  BY DEF Refresh
<1>2. ASSUME NEW u \in Vehicles, u \in Enriched(snapshot)'
      PROVE  \/ /\ u \in Enriched(snapshot) /\ snapshot'[u].age = snapshot[u].age
             \/ /\ RefreshDue(snapshot) /\ snapshot'[u].age = lag
  <2>1. snapshot'[u] # NoSnapshot /\ snapshot'[u].mode = "enriched"
    BY <1>2 DEF Enriched
  <2>2. snapshot'[u] = EnrichedRefresh(snapshot)[u]
    BY <1>1, <2>1, RefreshedRows
  <2> QED
    BY <2>1, <2>2, EnrichedRows DEF Enriched
<1>3. /\ v \in Vehicles /\ w \in Vehicles
  BY DEF Enriched
<1>4. /\ InWindow(snapshot'[v].age, n) /\ InWindow(snapshot'[w].age, n)
  BY <1>1 DEF InWindow
<1>5. CASE ~RefreshDue(snapshot)
  BY <1>2, <1>3, <1>4, <1>5 DEF OneRefreshPerWindow
<1>6. CASE RefreshDue(snapshot)
  <2>1. \A u \in Enriched(snapshot) : ~(snapshot[u].age <= WindowAge)
    BY <1>6 DEF RefreshDue
  <2>2. \/ InWindow(lag, 0) /\ WindowAge = phase
        \/ InWindow(lag, 1) /\ WindowAge = phase + Window
    <3>1. CASE lag <= phase
      BY <3>1, Ages DEF InWindow, WindowAge
    <3>2. CASE ~(lag <= phase)
      BY <3>2, Ages DEF InWindow, WindowAge
    <3> QED
      BY <3>1, <3>2
  <2>3. ASSUME NEW u \in Enriched(snapshot), InWindow(lag, n)
        PROVE  ~InWindow(snapshot[u].age, n)
    BY <2>1, <2>2, <2>3, Ages DEF InWindow
  <2> QED
    BY <1>2, <1>3, <1>4, <2>3 DEF OneRefreshPerWindow
<1> QED
  BY <1>5, <1>6

LEMMA NextIInv == IInv /\ [Next]_vars => IInv'
<1> SUFFICES ASSUME IInv, [Next]_vars PROVE IInv'
  OBVIOUS
<1>1. TypeOK'
  BY NextTypes DEF IInv
<1>2. OneRefreshPerWindow'
  <2>1. CASE Tick
    BY <2>1, TickKeepsWindows DEF IInv
  <2>2. CASE Refresh
    BY <2>2, RefreshKeepsWindows DEF IInv
  <2>3. CASE UNCHANGED <<phase, snapshot>>
    BY <2>3 DEF IInv, OneRefreshPerWindow, Enriched, InWindow
  <2> QED
    BY <2>1, <2>2, <2>3 DEF Next, Start, Ingest, Abandon, vars
<1> QED
  BY <1>1, <1>2 DEF IInv

(* Types of the clock, the positions and the snapshots.                    *)
THEOREM SnapshotTypes == Spec => []TypeOK
<1>1. Spec => []IInv
  BY InitIInv, NextIInv, PTL DEF Spec
<1> QED
  BY <1>1, PTL DEF IInv

(* Two enriched snapshots of one five-minute window are of one refresh.    *)
THEOREM EnrichedOncePerWindow == Spec => []OneRefreshPerWindow
<1>1. Spec => []IInv
  BY InitIInv, NextIInv, PTL DEF Spec
<1> QED
  BY <1>1, PTL DEF IInv

-----------------------------------------------------------------------------
(* The step of CommitServesMatched. *)
Serves ==
  Refresh =>
    /\ \A v \in Vehicles :
         /\ state[v].trip \in Indexed /\ state[v].position # "lost"
         /\ Since(state[v].age) <= PlannedFresh
         => /\ snapshot'[v] # NoSnapshot
            /\ snapshot'[v].trip = state[v].trip
            /\ Since(snapshot'[v].age) <= MaxAge
    /\ RefreshDue(snapshot) =>
         \A v \in Prepared : snapshot'[v].mode = "enriched" /\ snapshot'[v].age = lag

LEMMA RefreshServes == TypeOK => Serves
<1> SUFFICES ASSUME TypeOK, Refresh PROVE Serves
  BY DEF Serves
<1> DEFINE rows == EnrichedRefresh(snapshot)
<1>1. snapshot' = Refreshed(snapshot)
  BY DEF Refresh
<1>2. Since(lag) = 0 /\ 0 <= MaxAge
  BY SnapshotAssumption DEF Since, TypeOK
<1>3. ASSUME NEW v \in Vehicles, state[v].trip \in Indexed, state[v].position # "lost",
             Since(state[v].age) <= PlannedFresh
      PROVE  /\ snapshot'[v] # NoSnapshot /\ snapshot'[v].trip = state[v].trip
             /\ Since(snapshot'[v].age) <= MaxAge
  <2>1. CASE v \in Unserved(rows)
    BY <1>1, <1>2, <1>3, <2>1, RefreshedRows
  <2>2. CASE v \notin Unserved(rows)
    <3>1. state[v].trip # NoTrip
      BY <1>3, SnapshotAssumption
    <3>2. rows[v] # NoSnapshot /\ rows[v].trip = state[v].trip /\ ~(Since(rows[v].age) > MaxAge)
      BY <1>3, <2>2, <3>1 DEF Unserved
    <3>3. snapshot'[v] = rows[v] /\ rows[v] \in Row
      BY <1>1, <2>2, <3>2, EnrichedRows, RefreshedRows
    <3>4. Since(rows[v].age) <= MaxAge
      BY <3>2, <3>3, SnapshotAssumption DEF Since, Row, TypeOK, OldestRow
    <3> QED
      BY <3>2, <3>3, <3>4
  <2> QED
    BY <2>1, <2>2
<1>4. ASSUME RefreshDue(snapshot), NEW v \in Prepared
      PROVE  snapshot'[v].mode = "enriched" /\ snapshot'[v].age = lag
  <2>1. v \in Vehicles
    BY DEF Prepared
  <2>2. rows[v] = [trip |-> state[v].trip, mode |-> "enriched", age |-> lag] /\ rows[v] # NoSnapshot
    BY <1>4, <2>1, EnrichedRows
  <2>3. v \notin Unserved(rows)
    BY <1>2, <2>2, SnapshotAssumption DEF Unserved
  <2>4. snapshot'[v] = rows[v]
    BY <1>1, <2>1, <2>3, RefreshedRows
  <2> QED
    BY <2>2, <2>4
<1> QED
  BY <1>3, <1>4 DEF Serves

(* After a cycle committed, every vehicle it could use is served, and what *)
(* a due refresh computed is still there.                                  *)
THEOREM CommitsServeMatched == Spec => CommitServesMatched
<1>1. Spec => []TypeOK
  BY SnapshotTypes
<1>2. TypeOK => [Serves]_vars
  BY RefreshServes
<1>3. CommitServesMatched <=> [][Serves]_vars
  BY DEF CommitServesMatched, Serves
<1> QED
  BY <1>1, <1>2, <1>3, PTL
=============================================================================
