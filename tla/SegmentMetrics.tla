---------------------------- MODULE SegmentMetrics ----------------------------
(***************************************************************************)
(* What becomes of the completed segments of a cycle: observations kept    *)
(* for an hour, one live row per metric key, one daily row per key and     *)
(* five-minute window, and the profiles of the last seven days             *)
(* (_process_boundary_crossings, _refresh_live_segment_metrics,            *)
(* _recover_unmaterialized_metric_windows, refresh_historical_profiles_-   *)
(* if_due).  A cycle is one transaction of the one ingestion worker, so it *)
(* is one step; a cycle that fails, or whose worker dies before its commit,*)
(* is none: it only lets time pass before the next.  A row of statistics   *)
(* is represented by the observations it was computed from.                *)
(***************************************************************************)
EXTENDS Integers, FiniteSets

CONSTANTS
  Keys,           \* metric_key values
  WindowTicks,    \* _WINDOW_SIZE, in ticks of the model's clock
  SlotsPerDay,    \* windows in a service date (288)
  Life,           \* expires_at - completed_at (an hour)
  Lookback,       \* _HISTORICAL_LOOKBACK in days (7)
  MaxLag,         \* how late the source may deliver a completed segment
  MaxPending,     \* bound on the observations of a cycle
  FirstDay,       \* day of the week at the start of a behaviour, Monday is 0
  MaxTime,        \* bound on the clock
  NoRow           \* a row that is not in its table

(* A segment delivered an hour late would count alone in its window, whose *)
(* other observations have expired: the source is assumed to be faster.    *)
ASSUME MetricsAssumption ==
  /\ WindowTicks \in Nat \ {0} /\ SlotsPerDay \in Nat \ {0} /\ Lookback \in Nat \ {0}
  /\ Life \in Nat /\ MaxLag \in Nat /\ MaxLag + WindowTicks <= Life
  /\ Life <= Lookback * SlotsPerDay * WindowTicks
  /\ MaxPending \in Nat /\ FirstDay \in 0..6 /\ MaxTime \in Nat
  /\ NoRow \notin Int
  /\ \A counted \in SUBSET [key : Keys, at : 0..MaxTime] : NoRow # counted
  /\ NoRow \notin [end : Int, counted : SUBSET [key : Keys, at : 0..MaxTime]]

VARIABLES
  now,            \* CURRENT_TIMESTAMP of the last cycle committed
  observations,   \* segment_completion_observations
  daily,          \* segment_daily_metrics_5m
  live,           \* segment_live_metrics_5m, by metric_key
  claim,          \* segment_profile_refresh_state.reference_end_date
  profiles,       \* segment_profiles_5m
  written         \* history: the last value of every daily row, purged or not

vars == <<now, observations, daily, live, claim, profiles, written>>

WindowOf(t) == t \div WindowTicks
DayOfWindow(w) == w \div SlotsPerDay
SlotOfWindow(w) == w % SlotsPerDay
ServiceDate(t) == DayOfWindow(WindowOf(t))

DayType(day) ==
  LET weekday == (FirstDay + day) % 7 IN
  CASE weekday = 5 -> "saturday"
    [] weekday = 6 -> "sunday"
    [] OTHER -> "weekday"

Windows == 0..WindowOf(MaxTime)
Observations == [key : Keys, at : 0..MaxTime]
ProfileKeys == [key : Keys, type : {"weekday", "saturday", "sunday"}, slot : 0..(SlotsPerDay - 1)]

Init ==
  /\ now = 0
  /\ observations = {}
  /\ daily = [k \in Keys |-> [w \in Windows |-> NoRow]]
  /\ live = [k \in Keys |-> NoRow]
  /\ claim = NoRow
  /\ profiles = [p \in ProfileKeys |-> NoRow]
  /\ written = daily

-----------------------------------------------------------------------------
(* DELETE ... WHERE expires_at <= CURRENT_TIMESTAMP *)
Unexpired(time) == {o \in observations : o.at + Life > time}

(* Mutant of RetentionStart: today counts as one of the seven days. *)
RetentionFromTomorrow(day) == day - Lookback + 1

RetentionStart(day) == day - Lookback

(* DELETE ... WHERE service_date < :oldest_service_date *)
Purged(table, day) ==
  [k \in Keys |-> [w \in Windows |->
     IF DayOfWindow(w) < RetentionStart(day) THEN NoRow ELSE table[k][w]]]

(* Mutant of TargetWindow: the first window of a key wins. *)
FirstWindow(batch, k) ==
  CHOOSE w \in {WindowOf(o.at) : o \in batch} :
    /\ \E o \in batch : o.key = k /\ WindowOf(o.at) = w
    /\ \A o \in batch : o.key = k => w <= WindowOf(o.at)

(* target_windows: the batch is sorted by completed_at, the last one wins. *)
TargetWindow(batch, k) ==
  CHOOSE w \in {WindowOf(o.at) : o \in batch} :
    /\ \E o \in batch : o.key = k /\ WindowOf(o.at) = w
    /\ \A o \in batch : o.key = k => WindowOf(o.at) <= w

(* Mutants of Refreshed: the observations are inserted after the query, or *)
(* the statistics are those of the batch alone.                            *)
RefreshedBeforeInsert(stored, batch) ==
  [k \in {o.key : o \in batch} |->
     LET w == TargetWindow(batch, k)
     IN [window |-> w,
         counted |-> {o \in stored \ batch : o.key = k /\ WindowOf(o.at) = w}]]

RefreshedFromBatch(stored, batch) ==
  [k \in {o.key : o \in batch} |->
     LET w == TargetWindow(batch, k)
     IN [window |-> w, counted |-> {o \in batch : o.key = k /\ WindowOf(o.at) = w}]]

(* The rows computed for the keys of a batch, from everything stored.      *)
Refreshed(stored, batch) ==
  [k \in {o.key : o \in batch} |->
     LET w == TargetWindow(batch, k)
     IN [window |-> w, counted |-> {o \in stored : o.key = k /\ WindowOf(o.at) = w}]]

(* Mutant of DailyUpsert: an existing daily row is left as it is. *)
DailyInsert(table, rows) ==
  [k \in Keys |-> [w \in Windows |->
     IF k \in DOMAIN rows /\ rows[k].window = w /\ table[k][w] = NoRow
     THEN rows[k].counted ELSE table[k][w]]]

(* INSERT ... ON CONFLICT (metric_key, service_date, slot_index) DO UPDATE *)
DailyUpsert(table, rows) ==
  [k \in Keys |-> [w \in Windows |->
     IF k \in DOMAIN rows /\ rows[k].window = w THEN rows[k].counted ELSE table[k][w]]]

(* INSERT ... ON CONFLICT (metric_key) DO UPDATE *)
LiveUpsert(rows) == [k \in Keys |-> IF k \in DOMAIN rows THEN rows[k] ELSE live[k]]

(* The observations without a daily row, latest first, one for each key.   *)
Unmaterialised(stored, table) ==
  {o \in stored : table[o.key][WindowOf(o.at)] = NoRow}

(* Without new observations a cycle recovers the latest missing windows.   *)
Batch(pending, stored, table) ==
  IF pending # {} THEN pending ELSE Unmaterialised(stored, table)

(* The INSERT ... SELECT of the profiles, from the rows of the reference.  *)
Combined(table, day) ==
  [p \in ProfileKeys |->
     LET eligible == {w \in Windows :
                        /\ DayOfWindow(w) \in (day - Lookback)..(day - 1)
                        /\ DayType(DayOfWindow(w)) = p.type
                        /\ SlotOfWindow(w) = p.slot
                        /\ table[p.key][w] # NoRow}
     IN IF eligible = {} THEN NoRow
        ELSE [end |-> day - 1, counted |-> UNION {table[p.key][w] : w \in eligible}]]

(* Rows of the reference replace the profiles they collide with only. *)
ProfileUpsert(table, day) ==
  LET combined == Combined(table, day)
  IN [p \in ProfileKeys |-> IF combined[p] = NoRow THEN profiles[p] ELSE combined[p]]

(* ... WHERE reference_end_date < EXCLUDED.reference_end_date *)
ClaimDue(day) == claim # NoRow => claim < day - 1

(* One cycle at time, with the observations of the segments it completed.  *)
Cycle(time, pending) ==
  LET day == ServiceDate(time)
      stored == Unexpired(time) \cup pending
      kept == Purged(daily, day)
      rows == Refreshed(stored, Batch(pending, stored, kept))
  IN /\ now' = time
     /\ observations' = stored
     /\ daily' = DailyUpsert(kept, rows)
     /\ live' = LiveUpsert(rows)
     /\ written' = [k \in Keys |-> [w \in Windows |->
                      IF daily'[k][w] = NoRow THEN written[k][w] ELSE daily'[k][w]]]
     /\ \/ /\ ClaimDue(day)
           /\ claim' = day - 1
           /\ profiles' = ProfileUpsert(daily', day)
        \/ /\ ~ClaimDue(day)
           /\ UNCHANGED <<claim, profiles>>

(* The segments a cycle can have completed: not measured before. *)
Completions(time) ==
  {o \in Observations : o.at <= time /\ o.at >= time - MaxLag /\ o \notin observations}

Next ==
  \E time \in now..MaxTime :
    \E pending \in SUBSET Completions(time) :
      Cardinality(pending) <= MaxPending /\ Cycle(time, pending)

Spec == Init /\ [][Next]_vars

-----------------------------------------------------------------------------
(* ck_segment_live_metrics_5m_has_samples: a row of statistics counts at least one sample. *)
Samples == (SUBSET Observations) \ {{}}

(* Types: in particular no row of statistics is ever written without       *)
(* samples, which ck_segment_live_metrics_5m_has_samples would refuse.     *)
TypeOK ==
  /\ now \in 0..MaxTime
  /\ observations \subseteq Observations
  /\ \A k \in Keys, w \in Windows :
       /\ daily[k][w] # NoRow => daily[k][w] \in Samples
       /\ written[k][w] # NoRow => written[k][w] \in Samples
  /\ \A k \in Keys :
       live[k] # NoRow => live[k].window \in Windows /\ live[k].counted \in Samples
  /\ claim \in -1..ServiceDate(MaxTime) \cup {NoRow}
  /\ \A p \in ProfileKeys :
       profiles[p] # NoRow => profiles[p].end \in -1..claim /\ profiles[p].counted \in Samples

(* An observation waits for its daily row only behind a row of a later     *)
(* window of its segment: what is left out is never the latest news, even  *)
(* when one cycle completes a segment in several windows, cycles fail, or  *)
(* segments are delivered late.                                            *)
MissingRowsAreOlder ==
  \A o \in observations :
    daily[o.key][WindowOf(o.at)] = NoRow
      => \E w \in Windows : w > WindowOf(o.at) /\ daily[o.key][w] # NoRow

(* The live row and the daily row of its window tell the same, until the   *)
(* daily row has been purged.                                              *)
LiveMirrorsDaily ==
  \A k \in Keys :
    live[k] # NoRow =>
      \/ daily[k][live[k].window] = live[k].counted
      \/ /\ daily[k][live[k].window] = NoRow
         /\ DayOfWindow(live[k].window) < ServiceDate(now) - Lookback

(* Computing a daily row again from the observations that have not expired *)
(* yet never loses a sample it had counted.                                *)
DailyRowsNeverShrink ==
  [][\A k \in Keys, w \in Windows :
       daily[k][w] # NoRow /\ daily'[k][w] # NoRow => daily[k][w] \subseteq daily'[k][w]]_vars

(* The windows of the seven days up to last that a profile is made of.     *)
WindowsUpTo(last, p, table) ==
  {w \in Windows : /\ DayOfWindow(w) > last - Lookback /\ DayOfWindow(w) <= last
                   /\ DayType(DayOfWindow(w)) = p.type /\ SlotOfWindow(w) = p.slot
                   /\ table[p.key][w] # NoRow}

(* A step that claims a day gives every profile with rows in the seven     *)
(* days up to it the samples of all of them.                               *)
ClaimCombinesAll ==
  claim' # claim =>
    \A p \in ProfileKeys :
      WindowsUpTo(claim', p, written') # {} =>
        profiles'[p] = [end |-> claim',
                        counted |-> UNION {written'[p.key][w] :
                                             w \in WindowsUpTo(claim', p, written')}]

(* When the profiles of a day are claimed they count every daily row of    *)
(* the seven days before it, the oldest of them included: the purge of the *)
(* same cycle has not reached them.                                        *)
ProfilesCountEveryDay == [][ClaimCombinesAll]_vars

=============================================================================
