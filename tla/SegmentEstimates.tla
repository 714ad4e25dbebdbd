-------------------------- MODULE SegmentEstimates --------------------------
(***************************************************************************)
(* How long a segment takes, by its live row, its profiles and the GTFS    *)
(* schedule (resolve_segment_estimate).  The API looks the rows up for one *)
(* segment and one instant (query_segment_estimates); the worker and the   *)
(* ETA queries load a catalog for many and resolve it at the instants a    *)
(* vehicle will get there (SegmentEstimateCatalog).  Rows are those of one *)
(* metric key.  Time is in ticks since the start of a first service date;  *)
(* a mean is represented by the departures it was computed from.  Stops    *)
(* are numbered without gaps: the catalog joins stop_sequence + 1, the     *)
(* query the next stop of the trip.                                        *)
(***************************************************************************)
EXTENDS Integers, Sequences

CONSTANTS
  SlotLength,    \* five minutes, in ticks
  SlotsPerDay,
  Offsets,       \* FALLBACK_SLOT_OFFSETS_MINUTES, in ticks
  LiveMaxAge,    \* _LIVE_MAX_AGE
  FirstDay,      \* day of the week of date 0, Monday is 0
  None           \* no row, no candidate

DayLength == SlotLength * SlotsPerDay
DateOf(at) == at \div DayLength
SlotOf(at) == (at % DayLength) \div SlotLength

DayType(date) ==
  LET weekday == (FirstDay + date) % 7
  IN IF weekday = 5 THEN "saturday" ELSE IF weekday = 6 THEN "sunday" ELSE "weekday"

Abs(n) == IF n < 0 THEN -n ELSE n
Unavailable == [source |-> "unavailable", of |-> None]

(* The candidate of the smallest offset, the earlier slot of two. *)
Nearest(historical) ==
  CHOOSE c \in historical : \A d \in historical :
    \/ Abs(c.offset) < Abs(d.offset)
    \/ Abs(c.offset) = Abs(d.offset) /\ c.offset <= d.offset

(* resolve_segment_estimate; the age of a window that is still open is 0. *)
Resolve(at, live, historical, planned) ==
  IF live # None /\ at - (live.start + SlotLength) <= LiveMaxAge
  THEN [source |-> "live", of |-> live]
  ELSE IF historical # {} THEN [source |-> "historical", of |-> Nearest(historical)]
  ELSE IF planned # None THEN [source |-> "gtfs_planned", of |-> planned]
  ELSE Unavailable

(* The SELECT of the live row, and that of the profiles of the seven days  *)
(* before the service date of the query.                                   *)
LiveRead(live, queried) ==
  IF live # None /\ live.start <= queried THEN live ELSE None

ProfilesRead(profiles, queried) == {p \in profiles : p.end = DateOf(queried) - 1}

(* historical_profile_slots: the slot, then the slots before and after it, *)
(* each with the type of its own day.                                      *)
Historical(at, profiles) ==
  {c \in [offset : {Offsets[i] : i \in DOMAIN Offsets}, of : profiles] :
     /\ c.of.type = DayType(DateOf(at + c.offset))
     /\ c.of.slot = SlotOf(at + c.offset)}

(* The departures of the first offset that has any. *)
FirstAvailable(departures) ==
  LET found == {i \in DOMAIN departures : departures[i] # {}}
  IN IF found = {} THEN None
     ELSE departures[CHOOSE i \in found : \A j \in found : i <= j]

-----------------------------------------------------------------------------
(* _query_gtfs_planned_candidates, of the slot of an instant: the trips of *)
(* its date that depart within the slot, and those of the date before that *)
(* depart within it after midnight.                                        *)
PlannedSlot(at, schedule) ==
  LET date == DateOf(at)
      start == SlotOf(at) * SlotLength
      within == start..(start + SlotLength - 1)
  IN {<<t, date>> : t \in {t \in schedule : date \in t.dates /\ t.departure \in within}}
     \cup
     {<<t, date - 1>> : t \in {t \in schedule : (date - 1) \in t.dates
                                                /\ t.departure - DayLength \in within}}

(* ... for every offset *)
PlannedQuery(at, schedule) ==
  FirstAvailable([i \in DOMAIN Offsets |-> PlannedSlot(at + Offsets[i], schedule)])

(* query_segment_estimates: the schedule is asked last, and only if there  *)
(* is nothing else.                                                        *)
QueryEstimate(at, live, profiles, schedule) ==
  LET historical == Historical(at, ProfilesRead(profiles, at))
      preliminary == Resolve(at, LiveRead(live, at), historical, None)
  IN IF preliminary # Unavailable THEN preliminary
     ELSE Resolve(at, None, historical, PlannedQuery(at, schedule))

-----------------------------------------------------------------------------
(* Mutant of PlannedGroup: departures are grouped by service date. *)
PlannedGroupOfService(queried, schedule, date, slot) ==
  {p \in schedule \X ((DateOf(queried) - 1)..(DateOf(queried) + 2)) :
     /\ p[2] \in p[1].dates
     /\ p[2] = date
     /\ SlotOf(p[1].departure) = slot}

(* The planned groups of a catalog: the departures of four service dates,  *)
(* by the date and the slot in which they take place.                      *)
PlannedGroup(queried, schedule, date, slot) ==
  {p \in schedule \X ((DateOf(queried) - 1)..(DateOf(queried) + 2)) :
     /\ p[2] \in p[1].dates
     /\ p[2] + DateOf(p[1].departure) = date
     /\ SlotOf(p[1].departure) = slot}

(* _planned_candidate; the duration in the trip itself is the last resort. *)
PlannedCandidate(queried, at, schedule, own) ==
  LET first == FirstAvailable([i \in DOMAIN Offsets |->
                 PlannedGroup(queried, schedule, DateOf(at + Offsets[i]), SlotOf(at + Offsets[i]))])
  IN IF first # None THEN first ELSE own

(* SegmentEstimateCatalog.resolve, at the instant at, of a catalog loaded  *)
(* at queried.                                                             *)
CatalogEstimate(queried, at, live, profiles, schedule, own) ==
  Resolve(at, LiveRead(live, queried), Historical(at, ProfilesRead(profiles, queried)),
          PlannedCandidate(queried, at, schedule, own))

-----------------------------------------------------------------------------
(* A catalog gives the estimate of a query of the instant itself, where    *)
(* there is one, and the duration in the vehicle's own trip where not.     *)
Agrees(queried, at, live, profiles, schedule, own) ==
  LET query == QueryEstimate(at, live, profiles, schedule)
      catalog == CatalogEstimate(queried, at, live, profiles, schedule, own)
  IN IF query # Unavailable THEN catalog = query ELSE catalog.of = own

(* It does so at every later instant of the service date, with trips of    *)
(* the day before that depart after midnight, and with slots across        *)
(* midnight.  A row of a window that had not begun when the catalog was    *)
(* loaded is not in it: the catalog then agrees as of its loading.         *)
CatalogAgreesWithQuery(queried, live, profiles, schedule, own) ==
  LET midnight == DayLength * (DateOf(queried) + 1)
      later == IF LiveRead(live, queried) = live THEN queried..(midnight - 1) ELSE {queried}
  IN \A at \in later : Agrees(queried, at, live, profiles, schedule, own)
=============================================================================
