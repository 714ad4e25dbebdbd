---------------------------- MODULE SwapOptimizer ----------------------------
(***************************************************************************)
(* The exchanges prescribed at one terminal (optimize_terminal_assignments,*)
(* _hungarian, _assignment_cost, build_exchange_groups): which vehicle     *)
(* should make which next departure, found by the Hungarian method over a  *)
(* single integer cost, and cut into groups that are decided separately.   *)
(* A behaviour is one call: the input is chosen once, every step is one    *)
(* turn of one of the loops of the code.                                   *)
(***************************************************************************)
EXTENDS Integers, SequencesExt

CONSTANTS
  VehicleCount,     \* the vehicles of the terminal, numbered by their prefix
  Arrivals,         \* arrival_at of the vehicles
  Departures,       \* departure_at of their next trips
  EvaluatedAt,      \* evaluated_at
  DelayThreshold,   \* delay_threshold
  ProtectedWindow,  \* protected_window
  MaxIdle,          \* 24 * 60 * 60
  Infinity,         \* 10**100
  NoPlan            \* optimize_terminal_assignments returned None

Vehicles == 1..VehicleCount

ASSUME OptimizerAssumption ==
  /\ VehicleCount \in Nat \ {0}
  /\ Arrivals \subseteq Nat /\ Departures \subseteq Nat /\ EvaluatedAt \in Nat
  /\ DelayThreshold \in Nat /\ ProtectedWindow \in Nat /\ MaxIdle \in Nat
  /\ Infinity \in Nat
  /\ NoPlan \notin [Vehicles -> Vehicles]

(* One second of delay outweighs every count of delayed trips, a delayed   *)
(* trip every count of exchanges, an exchange all idle time.               *)
Weighed(delay, changed, idle, size) ==
  LET maxIdleTotal == size * MaxIdle
      swapWeight == maxIdleTotal + 1
      delayedTripWeight == size * swapWeight + maxIdleTotal + 1
      delayWeight == size * delayedTripWeight + size * swapWeight + maxIdleTotal + 1
  IN delay * delayWeight
       + (IF delay > 0 THEN delayedTripWeight ELSE 0)
       + (IF changed THEN swapWeight ELSE 0)
       + idle

(* The search starts from a minimum that no reduced cost exceeds: it is at *)
(* most the sum of two costs.                                              *)
ASSUME InfinityAssumption ==
  \A a \in Arrivals, d \in Departures, size \in Vehicles :
    2 * Weighed(Max({0, a - d}), TRUE, MaxIdle, size) < Infinity

VARIABLES
  arrival, departure,   \* the commitments, by vehicle
  available,            \* available, sorted by vehicle_prefix
  costs,                \* the matrix given to _hungarian
  pc,                   \* where the call stands
  row,                  \* row_index: the rows assigned so far, and this one
  column,               \* current_column
  rowPotential, columnPotential, matchedRow, previousColumn, minimum, used,
  assigned,             \* the vehicle for the commitment of each vehicle
  unvisited,            \* the changed commitments not in a group yet
  groups                \* the groups built so far

problem == <<arrival, departure, available, costs>>
matrix == <<rowPotential, columnPotential, matchedRow>>
scratch == <<previousColumn, minimum, used>>
vars == <<problem, pc, row, column, matrix, scratch, assigned, unvisited, groups>>

-----------------------------------------------------------------------------
Delay(v, c) == Max({0, arrival[v] - departure[c]})
Idle(v, c) == Min({MaxIdle, Max({0, departure[c] - arrival[v]})})

(* A commitment about to be met in time is left alone. *)
Protected ==
  {c \in Vehicles : departure[c] - EvaluatedAt \in 0..ProtectedWindow /\ Delay(c, c) = 0}

(* available: the others, in the order of their prefixes.                  *)
Unprotected ==
  LET others == Vehicles \ Protected
  IN CHOOSE list \in [1..Cardinality(others) -> others] :
       \A i, j \in DOMAIN list : i < j => list[i] < list[j]

(* Mutant of AssignmentCost: delayed trips are not counted, only delay is. *)
UncountedCost(v, c, size) ==
  LET swapWeight == size * MaxIdle + 1
      delayWeight == size * swapWeight + size * MaxIdle + 1
  IN Delay(v, c) * delayWeight + (IF v # c THEN swapWeight ELSE 0) + Idle(v, c)

AssignmentCost(v, c, size) == Weighed(Delay(v, c), v # c, Idle(v, c), size)

(* Mutant of CostsOf: an exchange is not weighed. *)
CostsWithoutExchanges(list) ==
  [i \in DOMAIN list |-> [j \in DOMAIN list |->
     AssignmentCost(list[i], list[j], Len(list))
       - (IF i = j THEN 0 ELSE Len(list) * MaxIdle + 1)]]

(* a row for each vehicle, a column for each commitment *)
CostsOf(list) ==
  [i \in DOMAIN list |-> [j \in DOMAIN list |-> AssignmentCost(list[i], list[j], Len(list))]]

Size == Len(available)
Lines == 0..Size
Columns == 1..Size
Zeros(size) == [l \in 0..size |-> 0]

Init ==
  /\ arrival \in [Vehicles -> Arrivals]
  /\ departure \in [Vehicles -> Departures]
  /\ available = <<>> /\ costs = <<>>
  /\ pc = "start"
  /\ row = 0 /\ column = 0
  /\ rowPotential = Zeros(0) /\ columnPotential = Zeros(0)
  /\ matchedRow = Zeros(0) /\ previousColumn = Zeros(0)
  /\ minimum = Zeros(0) /\ used = {}
  /\ assigned = NoPlan
  /\ unvisited = {} /\ groups = <<>>

-----------------------------------------------------------------------------
(* Only a delay over the threshold makes the terminal worth a plan.        *)
Refuse ==
  /\ pc = "start"
  /\ \A c \in Vehicles : Delay(c, c) <= DelayThreshold
  /\ pc' = "done"
  /\ UNCHANGED <<problem, row, column, matrix, scratch, assigned, unvisited, groups>>

Start ==
  /\ pc = "start"
  /\ \E c \in Vehicles : Delay(c, c) > DelayThreshold
  /\ LET list == Unprotected
         zeros == Zeros(Len(list))
     IN /\ available' = list
        /\ costs' = CostsOf(list)
        /\ rowPotential' = zeros /\ columnPotential' = zeros
        /\ matchedRow' = zeros /\ previousColumn' = zeros /\ minimum' = zeros
  /\ pc' = "rows"
  /\ UNCHANGED <<arrival, departure, row, column, used, assigned, unvisited, groups>>

(* The head of _hungarian's outer loop. *)
NextRow ==
  /\ pc = "rows" /\ row < Size
  /\ row' = row + 1
  /\ matchedRow' = [matchedRow EXCEPT ![0] = row + 1]
  /\ column' = 0
  /\ minimum' = [l \in Lines |-> Infinity]
  /\ used' = {}
  /\ pc' = "search"
  /\ UNCHANGED <<problem, rowPotential, columnPotential, previousColumn,
                 assigned, unvisited, groups>>

ReducedCost(j) ==
  costs[matchedRow[column]][j] - rowPotential[matchedRow[column]] - columnPotential[j]

(* Columns that are reached more cheaply through the current one. *)
Cheaper(j) == j \in Columns \ used /\ j # column /\ ReducedCost(j) < minimum[j]

(* Mutant of Shift: the rows of the tree keep their potentials. *)
ShiftColumnsOnly(tree, delta) ==
  /\ rowPotential' = [rowPotential EXCEPT ![row] = @ + delta]
  /\ columnPotential' =
       [l \in Lines |-> IF l \in tree THEN columnPotential[l] - delta ELSE columnPotential[l]]

(* The potentials after the columns of the tree moved by delta. *)
Shift(tree, delta) ==
  /\ rowPotential' =
       [l \in Lines |-> IF \E j \in tree : matchedRow[j] = l
                        THEN rowPotential[l] + delta ELSE rowPotential[l]]
  /\ columnPotential' =
       [l \in Lines |-> IF l \in tree THEN columnPotential[l] - delta ELSE columnPotential[l]]

(* The open column nearest to the tree, the first one if several are, is  *)
(* the next; the walk down the tree ends at a column without a row.        *)
Grow(tree) ==
  LET open == Columns \ tree
      reached == [l \in Lines |-> IF Cheaper(l) THEN ReducedCost(l) ELSE minimum[l]]
      next == Min({j \in open : \A k \in open : reached[j] <= reached[k]})
  IN /\ Shift(tree, reached[next])
     /\ minimum' = [l \in Lines |-> IF l \in tree THEN reached[l] ELSE reached[l] - reached[next]]
     /\ previousColumn' = [l \in Lines |-> IF Cheaper(l) THEN column ELSE previousColumn[l]]
     /\ used' = tree
     /\ column' = next
     /\ pc' = IF matchedRow[next] = 0 THEN "augment" ELSE "search"

(* Mutant of Search: the current column is not marked as used. *)
SearchAgain ==
  /\ pc = "search"
  /\ Grow(used)
  /\ UNCHANGED <<problem, row, matchedRow, assigned, unvisited, groups>>

(* One turn of the inner loop: the current column joins the tree.          *)
Search ==
  /\ pc = "search"
  /\ Grow(used \cup {column})
  /\ UNCHANGED <<problem, row, matchedRow, assigned, unvisited, groups>>

(* Mutant of Augment: the walk back ends at the first column. *)
AugmentOnce ==
  /\ pc = "augment"
  /\ matchedRow' = [matchedRow EXCEPT ![column] = matchedRow[previousColumn[column]]]
  /\ column' = 0
  /\ pc' = "rows"
  /\ UNCHANGED <<problem, row, rowPotential, columnPotential, scratch, assigned, unvisited, groups>>

(* One turn of the walk back along previous_column. *)
Augment ==
  /\ pc = "augment"
  /\ matchedRow' = [matchedRow EXCEPT ![column] = matchedRow[previousColumn[column]]]
  /\ column' = previousColumn[column]
  /\ pc' = IF previousColumn[column] = 0 THEN "rows" ELSE "augment"
  /\ UNCHANGED <<problem, row, rowPotential, columnPotential, scratch, assigned, unvisited, groups>>

-----------------------------------------------------------------------------
(* selected_column, assigned_by_commitment and the protected commitments   *)
Chosen ==
  [c \in Vehicles |->
     IF \A j \in Columns : available[j] # c THEN c
     ELSE available[matchedRow[CHOOSE j \in Columns : available[j] = c]]]

Changed(plan) == {c \in Vehicles : plan[c] # c}
TotalDelay(plan, trips) == SumFunctionOnSet([c \in Vehicles |-> Delay(plan[c], c)], trips)
OnTime == [c \in Vehicles |-> c]    \* the baseline: every vehicle keeps its trip

(* A plan must save delay, and improve a commitment over the threshold.    *)
Worthwhile(plan) ==
  /\ TotalDelay(plan, Vehicles) < TotalDelay(OnTime, Vehicles)
  /\ \E c \in Changed(plan) : Delay(c, c) > DelayThreshold /\ Delay(plan[c], c) < Delay(c, c)

Decide ==
  /\ pc = "rows" /\ row = Size
  /\ IF Worthwhile(Chosen)
     THEN assigned' = Chosen /\ unvisited' = Changed(Chosen) /\ pc' = "groups"
     ELSE pc' = "done" /\ UNCHANGED <<assigned, unvisited>>
  /\ UNCHANGED <<problem, row, column, matrix, scratch, groups>>

(* The walk of build_exchange_groups from the least unvisited commitment.  *)
TakeGroup ==
  /\ pc = "groups" /\ unvisited # {}
  /\ LET walk[n \in Nat] == IF n = 0 THEN Min(unvisited) ELSE assigned[walk[n - 1]]
         seen(n) == {walk[k] : k \in 0..(n - 1)}
         length == Min({n \in 1..Cardinality(unvisited) : walk[n] \notin unvisited \ seen(n)})
     IN /\ unvisited' = unvisited \ seen(length)
        /\ IF walk[length] = walk[0]
           THEN groups' = Append(groups, [k \in 1..length |-> walk[k - 1]]) /\ UNCHANGED pc
           ELSE pc' = "error" /\ UNCHANGED groups
  /\ UNCHANGED <<problem, row, column, matrix, scratch, assigned>>

Return ==
  /\ pc = "groups" /\ unvisited = {}
  /\ pc' = "done"
  /\ UNCHANGED <<problem, row, column, matrix, scratch, assigned, unvisited, groups>>

Next == Refuse \/ Start \/ NextRow \/ Search \/ Augment \/ Decide \/ TakeGroup \/ Return

Spec == Init /\ [][Next]_vars /\ WF_vars(Next)

-----------------------------------------------------------------------------
(* Between two rows of _hungarian the potentials certify the matching: no  *)
(* row and column promise more than their cost, matched ones exactly it,   *)
(* and a column without a row has promised nothing.                        *)
PotentialsFeasible ==
  pc = "rows" =>
    /\ \A i \in 1..row, j \in Columns : rowPotential[i] + columnPotential[j] <= costs[i][j]
    /\ \A j \in Columns :
         IF matchedRow[j] = 0 THEN columnPotential[j] = 0
         ELSE rowPotential[matchedRow[j]] + columnPotential[j] = costs[matchedRow[j]][j]

(* What _assignment_cost is to express: less delay before fewer delayed    *)
(* trips before fewer exchanges before less idle time.                     *)
Merit(plan) ==
  <<TotalDelay(plan, Vehicles),
    Cardinality({c \in Vehicles : Delay(plan[c], c) > 0}),
    Cardinality(Changed(plan)),
    SumFunctionOnSet([c \in Vehicles |-> Idle(plan[c], c)], Vehicles \ Protected)>>

Better(m, n) == \E k \in 1..4 : m[k] < n[k] /\ \A l \in 1..(k - 1) : m[l] = n[l]

Assignments ==
  {plan \in [Vehicles -> Vehicles] :
     /\ \A c, d \in Vehicles : plan[c] = plan[d] => c = d
     /\ \A c \in Protected : plan[c] = c}

(* The one integer that stands for four goals orders assignments as the    *)
(* goals do: no assignment that leaves the protected trips alone is better *)
(* than the plan, and where no plan is returned there is a best one that   *)
(* saves no delay or improves no trip over the threshold.                  *)
PlanIsBest ==
  LET best(plan) ==
        LET merit == Merit(plan) IN \A other \in Assignments : ~Better(Merit(other), merit)
  IN /\ groups = <<>> /\ assigned # NoPlan => best(assigned)
     /\ pc = "done" /\ assigned = NoPlan =>
          \E plan \in Assignments : ~Worthwhile(plan) /\ best(plan)

Trips(group) == {group[k] : k \in 1..Len(group)}

(* Groups are decided one by one in the console. Each is worth its while   *)
(* alone: it saves delay, or as much delay falls on fewer trips.           *)
EveryGroupPays ==
  \A g \in 1..Len(groups) :
    LET trips == Trips(groups[g])
        late(plan) == Cardinality({c \in trips : Delay(plan[c], c) > 0})
    IN \/ TotalDelay(assigned, trips) < TotalDelay(OnTime, trips)
       \/ TotalDelay(assigned, trips) = TotalDelay(OnTime, trips) /\ late(assigned) < late(OnTime)

(* Where a commitment stands in the groups. *)
Places(c) ==
  {p \in {<<g, k>> : g \in 1..Len(groups), k \in 1..Size} :
     p[2] <= Len(groups[p[1]]) /\ groups[p[1]][p[2]] = c}

(* Carrying out any of the groups leaves every vehicle with one trip and   *)
(* every trip with one vehicle; a changed trip is in exactly one group; the*)
(* error of build_exchange_groups is never raised.                         *)
GroupsClosed ==
  /\ pc # "error"
  /\ \A g \in 1..Len(groups) :
       LET trips == Trips(groups[g])
       IN {assigned[c] : c \in trips} = trips /\ Cardinality(trips) = Len(groups[g])
  /\ pc = "done" /\ assigned # NoPlan =>
       \A c \in Vehicles :
         Cardinality(Places(c)) = IF assigned[c] # c THEN 1 ELSE 0

(* Every loop ends, whatever the input: the search at an open column, the  *)
(* walk back at column 0.                                                  *)
Terminates == <>(pc = "done")
=============================================================================
