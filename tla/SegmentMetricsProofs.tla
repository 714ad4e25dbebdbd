------------------------- MODULE SegmentMetricsProofs -------------------------
(***************************************************************************)
(* The rows of SegmentMetrics for any number of metric keys, any length of *)
(* windows and days, and any look-back.  All of it rests on what division  *)
(* by a window and by a day does to order: what is not yet an hour old     *)
(* lies in a window that has not been purged, and two observations of one  *)
(* window are less than a window apart.  Then the validation that chooses  *)
(* what the rows are computed from, and the estimates they are read for.   *)
(***************************************************************************)
EXTENDS MCSegmentMetrics, SequenceTheorems, FiniteSetTheorems, WellFoundedInduction,
        TLAPS

-----------------------------------------------------------------------------
(* Division by a length. *)
LEMMA DivFacts ==
  ASSUME NEW n \in Nat \ {0}, NEW a \in Int
  PROVE  /\ a \div n \in Int
         /\ n * (a \div n) \in Int
         /\ n * (a \div n) <= a
         /\ a < n * (a \div n) + n
  BY Z3

LEMMA TimesMonotone ==
  ASSUME NEW n \in Nat \ {0}, NEW p \in Int, NEW q \in Int, p < q
  PROVE  n * p + n <= n * q
<1>1. PICK d \in Nat : q = p + 1 + d
  BY q - p - 1 \in Nat, q = p + 1 + (q - p - 1)
<1>2. n * q = n * p + n + n * d
  BY <1>1, Z3
<1>3. n * d >= 0
  BY Z3
<1> QED
  BY <1>2, <1>3, n * p \in Int, n * d \in Int, n * q \in Int

LEMMA DivMonotone ==
  ASSUME NEW n \in Nat \ {0}, NEW a \in Int, NEW b \in Int, a <= b
  PROVE  a \div n <= b \div n
<1> SUFFICES ASSUME b \div n < a \div n PROVE FALSE
  BY DivFacts
<1>1. n * (b \div n) + n <= n * (a \div n)
  BY DivFacts, TimesMonotone
<1> QED
  BY <1>1, DivFacts

LEMMA DivNear ==
  ASSUME NEW n \in Nat \ {0}, NEW a \in Int, NEW b \in Int, a \div n = b \div n
  PROVE  a < b + n
  BY DivFacts

(* Going back by whole lengths goes back by as many quotients. *)
LEMMA DivBack ==
  ASSUME NEW n \in Nat \ {0}, NEW a \in Int, NEW b \in Int, NEW l \in Nat, a >= b - l * n
  PROVE  a \div n >= (b \div n) - l
<1> SUFFICES ASSUME a \div n < (b \div n) - l PROVE FALSE
  BY DivFacts
<1>1. n * (a \div n) + n <= n * ((b \div n) - l)
  BY DivFacts, TimesMonotone
<1>2. n * ((b \div n) - l) = n * (b \div n) - l * n
  BY DivFacts, Z3
<1>3. l * n \in Int
  BY Z3
<1> QED
  BY <1>1, <1>2, <1>3, DivFacts

LEMMA DivNatural ==
  ASSUME NEW n \in Nat \ {0}, NEW a \in Nat
  PROVE  a \div n \in Nat
<1>1. 0 \div n = 0
  BY DivFacts, DivMonotone, Z3
<1>2. 0 \div n <= a \div n
  BY DivMonotone
<1> QED
  BY <1>1, <1>2, DivFacts

-----------------------------------------------------------------------------
(* Windows and service dates of moments. *)
LEMMA WindowFacts ==
  ASSUME NEW t \in Nat
  PROVE  WindowOf(t) \in Nat /\ ServiceDate(t) \in Nat
  BY DivNatural, MetricsAssumption DEF WindowOf, ServiceDate, DayOfWindow

LEMMA WindowMonotone ==
  ASSUME NEW s \in Nat, NEW t \in Nat, s <= t
  PROVE  WindowOf(s) <= WindowOf(t)
<1>1. s \div WindowTicks <= t \div WindowTicks
  BY DivMonotone, MetricsAssumption, s \in Int, t \in Int, WindowTicks \in Nat \ {0}
<1> QED
  BY <1>1 DEF WindowOf

LEMMA WindowsOfTimes ==
  ASSUME NEW t \in 0..MaxTime
  PROVE  WindowOf(t) \in Windows
<1>1. MaxTime \in Nat /\ t \in Nat /\ t <= MaxTime
  BY MetricsAssumption
<1> QED
  BY <1>1, WindowMonotone, WindowFacts DEF Windows

LEMMA DateMonotone ==
  ASSUME NEW s \in Nat, NEW t \in Nat, s <= t
  PROVE  ServiceDate(s) <= ServiceDate(t)
<1>1. WindowOf(s) <= WindowOf(t) /\ WindowOf(s) \in Int /\ WindowOf(t) \in Int
  BY WindowMonotone, WindowFacts
<1>2. SlotsPerDay \in Nat \ {0}
  BY MetricsAssumption
<1>3. WindowOf(s) \div SlotsPerDay <= WindowOf(t) \div SlotsPerDay
  BY <1>1, <1>2, DivMonotone
<1> QED
  BY <1>3 DEF ServiceDate, DayOfWindow

LEMMA DayMonotone ==
  ASSUME NEW v \in Nat, NEW w \in Nat, v <= w
  PROVE  /\ DayOfWindow(v) <= DayOfWindow(w)
         /\ DayOfWindow(v) \in Int /\ DayOfWindow(w) \in Int
  BY DivMonotone, DivFacts, MetricsAssumption DEF DayOfWindow

(* The window of an observation that has not expired is not purged. *)
LEMMA UnexpiredIsKept ==
  ASSUME NEW at \in Nat, NEW time \in Nat, at + Life > time
  PROVE  DayOfWindow(WindowOf(at)) >= ServiceDate(time) - Lookback
<1> DEFINE back == Lookback * SlotsPerDay
<1>1. back \in Nat /\ back * WindowTicks \in Nat /\ Life <= back * WindowTicks
  BY MetricsAssumption, Z3
<1>2. at >= time - back * WindowTicks
  BY <1>1, MetricsAssumption
<1>3. WindowOf(at) >= WindowOf(time) - back
  BY <1>1, <1>2, DivBack, MetricsAssumption DEF WindowOf
<1>4. WindowOf(at) \in Int /\ WindowOf(time) \in Int
  BY WindowFacts
<1> QED
  BY <1>3, <1>4, DivBack, MetricsAssumption DEF ServiceDate, DayOfWindow

-----------------------------------------------------------------------------
(* The rows a cycle writes. *)
CountedRow(stored, k, w) == {o \in stored : o.key = k /\ WindowOf(o.at) = w}

KeptRow(time, k, w) ==
  IF DayOfWindow(w) < RetentionStart(ServiceDate(time)) THEN NoRow ELSE daily[k][w]

(* t is the last window of key k in a batch. *)
IsTarget(batch, k, t) ==
  /\ \E o \in batch : o.key = k /\ WindowOf(o.at) = t
  /\ \A o \in batch : o.key = k => WindowOf(o.at) <= t

LEMMA ObservationFacts ==
  ASSUME NEW o \in Observations
  PROVE  /\ o.key \in Keys /\ o.at \in Nat /\ o.at \in 0..MaxTime
         /\ WindowOf(o.at) \in Windows
  BY WindowsOfTimes, MetricsAssumption DEF Observations

LEMMA WindowsAreNatural == \A w \in Windows : w \in Nat
  BY WindowFacts, MetricsAssumption DEF Windows

(* target_windows has an entry for every key of the batch. *)
LEMMA TargetExists ==
  ASSUME NEW batch \in SUBSET Observations, NEW k, NEW own \in batch, own.key = k
  PROVE  TargetWindow(batch, k) \in Windows /\ IsTarget(batch, k, TargetWindow(batch, k))
<1> DEFINE mine == {o \in batch : o.key = k}
           gaps == {WindowOf(MaxTime) - WindowOf(o.at) : o \in mine}
<1>1. /\ WindowOf(MaxTime) \in Nat
      /\ \A o \in mine : WindowOf(o.at) \in 0..WindowOf(MaxTime)
  BY ObservationFacts, WindowFacts, MetricsAssumption DEF Windows
<1>2. gaps \subseteq Nat /\ gaps # {}
  BY <1>1
<1>3. PICK least \in gaps : \A gap \in gaps : ~(<<gap, least>> \in OpToRel(<, Nat))
  BY <1>2, NatLessThanWellFounded, WFMin
<1>4. \A gap \in gaps : ~(gap < least)
  BY <1>2, <1>3 DEF OpToRel
<1>5. PICK last \in mine : least = WindowOf(MaxTime) - WindowOf(last.at)
  BY <1>3
<1>6. \A o \in mine :
        ~(WindowOf(MaxTime) - WindowOf(o.at) < WindowOf(MaxTime) - WindowOf(last.at))
  BY <1>4, <1>5
<1>7. \A o \in mine : WindowOf(o.at) <= WindowOf(last.at)
  BY <1>1, <1>6
<1>8. IsTarget(batch, k, WindowOf(last.at))
  BY <1>7 DEF IsTarget
<1>9. /\ TargetWindow(batch, k) \in {WindowOf(o.at) : o \in batch}
      /\ IsTarget(batch, k, TargetWindow(batch, k))
  BY <1>5, <1>8 DEF TargetWindow, IsTarget
<1> QED
  BY <1>9, ObservationFacts

(* What a cycle does to the rows of key k: nothing but the purge, ...      *)
Untouched(batch, time, k) ==
  /\ \A o \in batch : o.key # k
  /\ live'[k] = live[k]
  /\ \A w \in Windows : daily'[k][w] = KeptRow(time, k, w)

(* ... or it computes the live and the daily row of its target window t.   *)
Materialised(batch, time, k, t) ==
  /\ IsTarget(batch, k, t)
  /\ live'[k] = [window |-> t, counted |-> CountedRow(observations', k, t)]
  /\ daily'[k][t] = CountedRow(observations', k, t)
  /\ \A w \in Windows : w # t => daily'[k][w] = KeptRow(time, k, w)

(* The batch is what the cycle observed, or else what lacks a daily row.   *)
IsBatch(batch, time, pending) ==
  /\ batch \subseteq observations'
  /\ pending # {} => batch = pending
  /\ pending = {} =>
       batch = {o \in observations' : KeptRow(time, o.key, WindowOf(o.at)) = NoRow}

LEMMA CycleFacts ==
  ASSUME TypeOK, NEW time \in now..MaxTime, NEW pending \in SUBSET Completions(time),
         Cycle(time, pending)
  PROVE  /\ now' = time /\ now \in Nat /\ time \in Nat /\ now <= time
         /\ observations' = Unexpired(time) \cup pending
         /\ observations' \subseteq Observations
         /\ \E batch : /\ IsBatch(batch, time, pending)
                       /\ \A k \in Keys :
                            \/ Untouched(batch, time, k)
                            \/ \E t \in Windows : Materialised(batch, time, k, t)
<1> DEFINE day == ServiceDate(time)
           stored == Unexpired(time) \cup pending
           kept == Purged(daily, day)
           batch == Batch(pending, stored, kept)
           rows == Refreshed(stored, batch)
<1>1. /\ now' = time /\ observations' = stored
      /\ daily' = DailyUpsert(kept, rows) /\ live' = LiveUpsert(rows)
  BY DEF Cycle
<1>2. now \in Nat /\ time \in Nat /\ now <= time
  BY MetricsAssumption DEF TypeOK
<1>3. stored \subseteq Observations
  BY DEF Unexpired, Completions, TypeOK
<1>4. \A k \in Keys, w \in Windows : kept[k][w] = KeptRow(time, k, w)
  BY DEF Purged, KeptRow
<1>5. IsBatch(batch, time, pending)
  BY <1>1, <1>3, <1>4, ObservationFacts DEF IsBatch, Batch, Unmaterialised
<1>6. \A k \in Keys :
        \/ Untouched(batch, time, k)
        \/ \E t \in Windows : Materialised(batch, time, k, t)
  <2> SUFFICES ASSUME NEW k \in Keys
               PROVE  \/ Untouched(batch, time, k)
                      \/ \E t \in Windows : Materialised(batch, time, k, t)
    OBVIOUS
  <2>1. DOMAIN rows = {o.key : o \in batch}
    BY DEF Refreshed
  <2> HIDE DEF batch, kept, stored, day
  <2>2. CASE k \notin DOMAIN rows
    <3>1. \A o \in batch : o.key # k
      BY <2>1, <2>2
    <3>2. live'[k] = live[k]
      BY <1>1, <2>2 DEF LiveUpsert
    <3>3. \A w \in Windows : daily'[k][w] = kept[k][w]
      BY <1>1, <2>2 DEF DailyUpsert
    <3> QED
      BY <3>1, <3>2, <3>3, <1>4 DEF Untouched
  <2>3. CASE k \in DOMAIN rows
    <3> DEFINE t == TargetWindow(batch, k)
    <3>1. batch \in SUBSET Observations
      BY <1>1, <1>3, <1>5 DEF IsBatch
    <3>2. t \in Windows /\ IsTarget(batch, k, t)
      BY <2>1, <2>3, <3>1, TargetExists
    <3>3. rows[k] = [window |-> t, counted |-> CountedRow(stored, k, t)]
      BY <2>1, <2>3 DEF Refreshed, CountedRow
    <3> HIDE DEF rows, t
    <3>4. live'[k] = rows[k]
      BY <1>1, <2>3 DEF LiveUpsert
    <3>5. \A w \in Windows :
            daily'[k][w] = IF rows[k].window = w THEN rows[k].counted ELSE kept[k][w]
      BY <1>1, <2>3 DEF DailyUpsert
    <3> QED
      BY <1>1, <1>4, <3>2, <3>3, <3>4, <3>5 DEF Materialised
  <2> QED
    BY <2>2, <2>3
<1> QED
  BY <1>1, <1>2, <1>3, <1>5, <1>6

-----------------------------------------------------------------------------
(* The samples of a daily row are of its key and window, and still stored  *)
(* unless they have expired.                                               *)
RowsHoldTheirOwn ==
  \A k \in Keys, w \in Windows :
    daily[k][w] # NoRow =>
      \A o \in daily[k][w] :
        /\ o.key = k /\ WindowOf(o.at) = w
        /\ o \in observations \/ o.at + Life <= now

(* Within the look-back nothing that was written is missing. *)
NothingPurgedEarly ==
  \A k \in Keys, w \in Windows :
    DayOfWindow(w) >= ServiceDate(now) - Lookback => written[k][w] = daily[k][w]

ProfilesAreClaimed ==
  claim = NoRow => \A p \in ProfileKeys : profiles[p] = NoRow

IInv ==
  /\ TypeOK
  /\ RowsHoldTheirOwn
  /\ NothingPurgedEarly
  /\ ProfilesAreClaimed
  /\ MissingRowsAreOlder
  /\ LiveMirrorsDaily

LEMMA SamplesAreRows == \A s \in Samples : s # NoRow /\ s # {} /\ s \subseteq Observations
<1>1. \A s \in SUBSET Observations : NoRow # s
  BY MetricsAssumption DEF Observations
<1> QED
  BY <1>1 DEF Samples

LEMMA CountedIsASample ==
  ASSUME NEW stored \in SUBSET Observations, NEW batch \in SUBSET stored, NEW k, NEW t,
         IsTarget(batch, k, t)
  PROVE  CountedRow(stored, k, t) \in Samples
<1>1. CountedRow(stored, k, t) \in SUBSET Observations
  BY DEF CountedRow
<1>2. CountedRow(stored, k, t) # {}
  BY DEF IsTarget, CountedRow
<1> QED
  BY <1>1, <1>2 DEF Samples

LEMMA InitIInv == Init => IInv
<1> SUFFICES ASSUME Init PROVE IInv
  OBVIOUS
<1>1. 0 \in 0..MaxTime
  BY MetricsAssumption
<1>2. TypeOK
  BY <1>1 DEF Init, TypeOK
<1>3. RowsHoldTheirOwn /\ NothingPurgedEarly /\ ProfilesAreClaimed
  BY DEF Init, RowsHoldTheirOwn, NothingPurgedEarly, ProfilesAreClaimed
<1>4. MissingRowsAreOlder /\ LiveMirrorsDaily
  BY DEF Init, MissingRowsAreOlder, LiveMirrorsDaily
<1> QED
  BY <1>2, <1>3, <1>4 DEF IInv

-----------------------------------------------------------------------------
(* An observation and one of the same window that a cycle has just got are *)
(* less than a window apart, and neither has expired.                      *)
LEMMA SameWindowIsStored ==
  ASSUME NEW o \in Observations, NEW new \in Observations, NEW time \in Nat,
         WindowOf(o.at) = WindowOf(new.at), new.at >= time - MaxLag
  PROVE  o.at + Life > time
<1>1. new.at < o.at + WindowTicks
  <2>1. o.at \in Int /\ new.at \in Int /\ WindowTicks \in Nat \ {0}
    BY ObservationFacts, MetricsAssumption
  <2>2. new.at \div WindowTicks = o.at \div WindowTicks
    BY DEF WindowOf
  <2> QED
    BY <2>1, <2>2, DivNear
<1> QED
  BY <1>1, ObservationFacts, MetricsAssumption

(* A daily row computed again contains the row it replaces. *)
LEMMA RowsGrow ==
  ASSUME IInv, NEW time \in now..MaxTime, NEW pending \in SUBSET Completions(time),
         Cycle(time, pending), NEW k \in Keys, NEW w \in Windows,
         daily[k][w] # NoRow, daily'[k][w] # NoRow
  PROVE  daily[k][w] \subseteq daily'[k][w]
<1>1. PICK batch : /\ IsBatch(batch, time, pending)
                   /\ \A key \in Keys :
                        \/ Untouched(batch, time, key)
                        \/ \E t \in Windows : Materialised(batch, time, key, t)
  BY CycleFacts DEF IInv
<1>2. CASE daily'[k][w] = KeptRow(time, k, w)
  BY <1>2 DEF KeptRow
<1>3. CASE daily'[k][w] # KeptRow(time, k, w)
  <2>1. IsTarget(batch, k, w) /\ daily'[k][w] = CountedRow(observations', k, w)
    BY <1>1, <1>3 DEF Untouched, Materialised
  <2>2. PICK new \in batch : new.key = k /\ WindowOf(new.at) = w
    BY <2>1 DEF IsTarget
  <2>3. new \in observations' /\ new \in Observations
    BY <1>1, <2>2, CycleFacts DEF IsBatch, IInv
  <2>4. time \in Nat /\ now \in Nat /\ now <= time /\ observations' = Unexpired(time) \cup pending
    BY CycleFacts DEF IInv
  <2>5. CASE pending # {}
    <3>1. new.at >= time - MaxLag
      BY <1>1, <2>2, <2>5 DEF IsBatch, Completions
    <3>2. SUFFICES ASSUME NEW o \in daily[k][w] PROVE o \in daily'[k][w]
      OBVIOUS
    <3>3. o \in Observations /\ o.at \in Nat
      BY SamplesAreRows, ObservationFacts DEF IInv, TypeOK
    <3>4. o.key = k /\ WindowOf(o.at) = w /\ (o \in observations \/ o.at + Life <= now)
      BY DEF IInv, RowsHoldTheirOwn
    <3>5. o.at + Life > time
      BY <2>2, <2>3, <2>4, <3>1, <3>3, <3>4, SameWindowIsStored
    <3>6. o \in observations'
      BY <2>4, <3>3, <3>4, <3>5, MetricsAssumption DEF Unexpired
    <3> QED
      BY <2>1, <3>4, <3>6 DEF CountedRow
  <2>6. CASE pending = {}
    <3>1. new.at + Life > time /\ new.at \in Nat
      BY <2>3, <2>4, <2>6, ObservationFacts DEF Unexpired
    <3>2. DayOfWindow(w) >= ServiceDate(time) - Lookback
      BY <2>2, <2>4, <3>1, UnexpiredIsKept
    <3>3. KeptRow(time, k, w) = NoRow
      BY <1>1, <2>2, <2>3, <2>6 DEF IsBatch
    <3>4. DayOfWindow(w) \in Int /\ ServiceDate(time) \in Int /\ Lookback \in Int
      BY <2>4, DayMonotone, WindowsAreNatural, WindowFacts, MetricsAssumption
    <3> QED
      BY <3>2, <3>3, <3>4 DEF KeptRow, RetentionStart
  <2> QED
    BY <2>5, <2>6
<1> QED
  BY <1>2, <1>3

-----------------------------------------------------------------------------
(* What is known of the step of a cycle, for the lemmas below.             *)
Step(time, pending) ==
  /\ IInv
  /\ time \in now..MaxTime
  /\ pending \in SUBSET Completions(time)
  /\ Cycle(time, pending)

(* A daily row after a cycle: counted by it, or what the purge left.       *)
LEMMA DailyStep ==
  ASSUME NEW time, NEW pending, Step(time, pending), NEW k \in Keys, NEW w \in Windows
  PROVE  \/ daily'[k][w] = KeptRow(time, k, w)
         \/ /\ daily'[k][w] = CountedRow(observations', k, w)
            /\ daily'[k][w] \in Samples
<1>1. PICK batch : /\ IsBatch(batch, time, pending)
                   /\ \A key \in Keys :
                        \/ Untouched(batch, time, key)
                        \/ \E t \in Windows : Materialised(batch, time, key, t)
  BY CycleFacts DEF Step, IInv
<1>2. SUFFICES ASSUME daily'[k][w] # KeptRow(time, k, w)
               PROVE  /\ daily'[k][w] = CountedRow(observations', k, w)
                      /\ daily'[k][w] \in Samples
  OBVIOUS
<1>3. IsTarget(batch, k, w) /\ daily'[k][w] = CountedRow(observations', k, w)
  BY <1>1, <1>2 DEF Untouched, Materialised
<1>4. observations' \in SUBSET Observations /\ batch \in SUBSET observations'
  BY <1>1, CycleFacts DEF Step, IInv, IsBatch
<1> QED
  BY <1>3, <1>4, CountedIsASample

(* A live row after a cycle: as it was, with its daily row at most purged, *)
(* or the same as the daily row of its window.                             *)
LEMMA LiveStep ==
  ASSUME NEW time, NEW pending, Step(time, pending), NEW k \in Keys
  PROVE  \/ /\ live'[k] = live[k]
            /\ \A w \in Windows : daily'[k][w] = KeptRow(time, k, w)
         \/ \E t \in Windows : /\ live'[k] = [window |-> t, counted |-> daily'[k][t]]
                               /\ daily'[k][t] \in Samples
<1>1. PICK batch : /\ IsBatch(batch, time, pending)
                   /\ \A key \in Keys :
                        \/ Untouched(batch, time, key)
                        \/ \E t \in Windows : Materialised(batch, time, key, t)
  BY CycleFacts DEF Step, IInv
<1>2. observations' \in SUBSET Observations /\ batch \in SUBSET observations'
  BY <1>1, CycleFacts DEF Step, IInv, IsBatch
<1>3. CASE Untouched(batch, time, k)
  BY <1>3 DEF Untouched
<1>4. ASSUME NEW t \in Windows, Materialised(batch, time, k, t)
      PROVE  live'[k] = [window |-> t, counted |-> daily'[k][t]] /\ daily'[k][t] \in Samples
  BY <1>2, <1>4, CountedIsASample DEF Materialised
<1> QED
  BY <1>1, <1>3, <1>4

(* The profiles of a cycle whose claim is due. *)
LEMMA ProfileStep ==
  ASSUME NEW time, NEW pending, Step(time, pending), NEW p \in ProfileKeys
  PROVE  \/ claim' = claim /\ profiles'[p] = profiles[p]
         \/ /\ claim' = ServiceDate(time) - 1
            /\ claim # NoRow => claim < claim'
            /\ profiles'[p] = IF Combined(daily', ServiceDate(time))[p] = NoRow
                              THEN profiles[p] ELSE Combined(daily', ServiceDate(time))[p]
  BY DEF Step, Cycle, ProfileUpsert, ClaimDue

LEMMA TimeFacts ==
  ASSUME NEW time, NEW pending, Step(time, pending)
  PROVE  /\ now' = time /\ now \in Nat /\ time \in Nat /\ now <= time /\ time \in 0..MaxTime
         /\ ServiceDate(now) \in Nat /\ ServiceDate(time) \in Nat
         /\ ServiceDate(now) <= ServiceDate(time)
         /\ ServiceDate(time) <= ServiceDate(MaxTime) /\ ServiceDate(MaxTime) \in Nat
<1>1. now' = time /\ now \in Nat /\ time \in Nat /\ now <= time /\ time <= MaxTime
  BY CycleFacts, MetricsAssumption DEF Step, IInv
<1> QED
  BY <1>1, DateMonotone, WindowFacts, MetricsAssumption

LEMMA DailyTypes ==
  ASSUME NEW time, NEW pending, Step(time, pending), NEW k \in Keys, NEW w \in Windows
  PROVE  /\ daily'[k][w] # NoRow => daily'[k][w] \in Samples
         /\ written'[k][w] # NoRow => written'[k][w] \in Samples
<1>1. daily'[k][w] # NoRow => daily'[k][w] \in Samples
  BY DailyStep DEF Step, KeptRow, IInv, TypeOK
<1>2. written'[k][w] = IF daily'[k][w] = NoRow THEN written[k][w] ELSE daily'[k][w]
  BY DEF Step, Cycle
<1> QED
  BY <1>1, <1>2 DEF Step, IInv, TypeOK

(* A profile is of the day claimed last, or of an earlier one.             *)
LEMMA ProfileTypes ==
  ASSUME NEW time, NEW pending, Step(time, pending), NEW p \in ProfileKeys,
         profiles'[p] # NoRow
  PROVE  profiles'[p].end \in -1..claim' /\ profiles'[p].counted \in Samples
<1> DEFINE day == ServiceDate(time)
           row == Combined(daily', day)[p]
<1>1. day \in Nat
  BY TimeFacts
<1>2. profiles[p] # NoRow => /\ claim # NoRow /\ claim \in Int
                             /\ profiles[p].end \in -1..claim
                             /\ profiles[p].counted \in Samples
  <2>1. profiles[p] # NoRow => claim # NoRow
    BY DEF Step, IInv, ProfilesAreClaimed
  <2>2. ServiceDate(MaxTime) \in Int
    BY TimeFacts
  <2>3. claim # NoRow => claim \in Int
    BY <2>2 DEF Step, IInv, TypeOK
  <2> QED
    BY <2>1, <2>3 DEF Step, IInv, TypeOK
<1>3. CASE claim' = claim /\ profiles'[p] = profiles[p]
  BY <1>2, <1>3
<1>4. CASE /\ claim' = day - 1
           /\ claim # NoRow => claim < claim'
           /\ profiles'[p] = IF row = NoRow THEN profiles[p] ELSE row
  <2>1. CASE row = NoRow
    BY <1>1, <1>2, <1>4, <2>1
  <2>2. CASE row # NoRow
    <3> DEFINE eligible == {w \in Windows :
                        /\ DayOfWindow(w) \in (day - Lookback)..(day - 1)
                        /\ DayType(DayOfWindow(w)) = p.type
                        /\ SlotOfWindow(w) = p.slot
                        /\ daily'[p.key][w] # NoRow}
    <3>1. eligible # {} /\ row = [end |-> day - 1, counted |-> UNION {daily'[p.key][w] : w \in eligible}]
      BY <2>2 DEF Combined
    <3>2. p.key \in Keys
      BY DEF ProfileKeys
    <3>3. \A w \in eligible : daily'[p.key][w] \in Samples
      BY <3>2, DailyTypes
    <3>4. \A w \in eligible : daily'[p.key][w] # {} /\ daily'[p.key][w] \subseteq Observations
      BY <3>3, SamplesAreRows
    <3>5. UNION {daily'[p.key][w] : w \in eligible} \in Samples
      <4> HIDE DEF eligible
      <4>1. UNION {daily'[p.key][w] : w \in eligible} \subseteq Observations
        BY <3>4
      <4>2. UNION {daily'[p.key][w] : w \in eligible} # {}
        BY <3>1, <3>4
      <4> QED
        BY <4>1, <4>2 DEF Samples
    <3> HIDE DEF row, eligible
    <3> QED
      BY <1>1, <1>4, <2>2, <3>1, <3>5
  <2> QED
    BY <2>1, <2>2
<1> QED
  BY <1>3, <1>4, ProfileStep

LEMMA TypesStep ==
  ASSUME NEW time, NEW pending, Step(time, pending)
  PROVE  TypeOK'
<1>1. now' \in 0..MaxTime
  BY TimeFacts
<1>2. observations' \subseteq Observations
  BY CycleFacts DEF Step, IInv
<1>3. \A k \in Keys, w \in Windows : /\ daily'[k][w] # NoRow => daily'[k][w] \in Samples
                                     /\ written'[k][w] # NoRow => written'[k][w] \in Samples
  BY DailyTypes
<1>4. \A k \in Keys : live'[k] # NoRow => live'[k].window \in Windows /\ live'[k].counted \in Samples
  <2> SUFFICES ASSUME NEW k \in Keys, live'[k] # NoRow
               PROVE  live'[k].window \in Windows /\ live'[k].counted \in Samples
    OBVIOUS
  <2>1. CASE live'[k] = live[k]
    BY <2>1 DEF Step, IInv, TypeOK
  <2>2. ASSUME NEW t \in Windows, live'[k] = [window |-> t, counted |-> daily'[k][t]],
               daily'[k][t] \in Samples
        PROVE  live'[k].window \in Windows /\ live'[k].counted \in Samples
    BY <2>2
  <2> QED
    BY <2>1, <2>2, LiveStep
<1>5. claim' \in -1..ServiceDate(MaxTime) \cup {NoRow}
  <2>1. claim' = claim \/ claim' = ServiceDate(time) - 1
    BY DEF Step, Cycle
  <2>2. ServiceDate(time) - 1 \in -1..ServiceDate(MaxTime)
    BY TimeFacts
  <2> QED
    BY <2>1, <2>2 DEF Step, IInv, TypeOK
<1>6. \A p \in ProfileKeys :
        profiles'[p] # NoRow => profiles'[p].end \in -1..claim' /\ profiles'[p].counted \in Samples
  BY ProfileTypes
<1> QED
  BY <1>1, <1>2, <1>3, <1>4, <1>5, <1>6 DEF TypeOK, Samples, Observations, Windows, ProfileKeys,
     WindowOf, ServiceDate, DayOfWindow

LEMMA OwnStep ==
  ASSUME NEW time, NEW pending, Step(time, pending)
  PROVE  RowsHoldTheirOwn'
<1> SUFFICES ASSUME NEW k \in Keys, NEW w \in Windows, daily'[k][w] # NoRow,
                    NEW o \in daily'[k][w]
             PROVE  /\ o.key = k /\ WindowOf(o.at) = w
                    /\ o \in observations' \/ o.at + Life <= now'
  BY DEF RowsHoldTheirOwn, Windows, WindowOf
<1>1. CASE daily'[k][w] = CountedRow(observations', k, w)
  BY <1>1 DEF CountedRow
<1>2. CASE daily'[k][w] = KeptRow(time, k, w)
  <2>1. daily'[k][w] = daily[k][w] /\ daily[k][w] # NoRow
    BY <1>2 DEF KeptRow
  <2>2. o.key = k /\ WindowOf(o.at) = w /\ (o \in observations \/ o.at + Life <= now)
    BY <2>1 DEF Step, IInv, RowsHoldTheirOwn
  <2>3. o.at \in Nat
    BY <2>1, SamplesAreRows, ObservationFacts DEF Step, IInv, TypeOK
  <2>4. observations' = Unexpired(time) \cup pending /\ Life \in Nat
    BY CycleFacts, MetricsAssumption DEF Step, IInv
  <2> QED
    BY <2>2, <2>3, <2>4, TimeFacts DEF Unexpired
<1> QED
  BY <1>1, <1>2, DailyStep

LEMMA PurgeStep ==
  ASSUME NEW time, NEW pending, Step(time, pending)
  PROVE  NothingPurgedEarly'
<1> SUFFICES ASSUME NEW k \in Keys, NEW w \in Windows,
                    DayOfWindow(w) >= ServiceDate(time) - Lookback
             PROVE  written'[k][w] = daily'[k][w]
  BY TimeFacts DEF NothingPurgedEarly, DayOfWindow, ServiceDate, WindowOf, Windows
<1>1. written'[k][w] = IF daily'[k][w] = NoRow THEN written[k][w] ELSE daily'[k][w]
  BY DEF Step, Cycle
<1>2. DayOfWindow(w) \in Int /\ Lookback \in Int
  BY DayMonotone, WindowsAreNatural, MetricsAssumption
<1>3. CASE daily'[k][w] = NoRow
  <2>1. daily'[k][w] = KeptRow(time, k, w)
    BY <1>3, DailyStep, SamplesAreRows
  <2>2. KeptRow(time, k, w) = daily[k][w]
    BY <1>2, TimeFacts DEF KeptRow, RetentionStart
  <2>3. DayOfWindow(w) >= ServiceDate(now) - Lookback
    BY <1>2, TimeFacts
  <2>4. written[k][w] = daily[k][w]
    BY <2>3 DEF Step, IInv, NothingPurgedEarly
  <2> QED
    BY <1>1, <1>3, <2>1, <2>2, <2>4
<1> QED
  BY <1>1, <1>3

LEMMA ClaimedStep ==
  ASSUME NEW time, NEW pending, Step(time, pending)
  PROVE  ProfilesAreClaimed'
<1> SUFFICES ASSUME claim' = NoRow, NEW p \in ProfileKeys PROVE profiles'[p] = NoRow
  BY DEF ProfilesAreClaimed, ProfileKeys
<1>1. ServiceDate(time) - 1 \in Int
  BY TimeFacts
<1>2. claim' # ServiceDate(time) - 1
  BY <1>1, MetricsAssumption
<1>3. claim' = claim /\ profiles'[p] = profiles[p]
  BY <1>2, ProfileStep
<1> QED
  BY <1>3 DEF Step, IInv, ProfilesAreClaimed

LEMMA MirrorStep ==
  ASSUME NEW time, NEW pending, Step(time, pending)
  PROVE  LiveMirrorsDaily'
<1> SUFFICES ASSUME NEW k \in Keys, live'[k] # NoRow
             PROVE  \/ daily'[k][live'[k].window] = live'[k].counted
                    \/ /\ daily'[k][live'[k].window] = NoRow
                       /\ DayOfWindow(live'[k].window) < ServiceDate(time) - Lookback
  BY TimeFacts DEF LiveMirrorsDaily, DayOfWindow, ServiceDate, WindowOf
<1>1. CASE /\ live'[k] = live[k]
           /\ \A w \in Windows : daily'[k][w] = KeptRow(time, k, w)
  <2> DEFINE w == live[k].window
  <2>1. w \in Windows
    BY <1>1 DEF Step, IInv, TypeOK
  <2>2. DayOfWindow(w) \in Int /\ Lookback \in Int
    BY <2>1, DayMonotone, WindowsAreNatural, MetricsAssumption
  <2>3. \/ daily[k][w] = live[k].counted
        \/ daily[k][w] = NoRow /\ DayOfWindow(w) < ServiceDate(now) - Lookback
    BY <1>1 DEF Step, IInv, LiveMirrorsDaily
  <2>4. daily'[k][w] = KeptRow(time, k, w)
    BY <1>1, <2>1
  <2> QED
    BY <1>1, <2>2, <2>3, <2>4, TimeFacts DEF KeptRow, RetentionStart
<1>2. CASE \E t \in Windows : /\ live'[k] = [window |-> t, counted |-> daily'[k][t]]
                             /\ daily'[k][t] \in Samples
  <2>1. daily'[k][live'[k].window] = live'[k].counted
    BY <1>2
  <2> QED
    BY <2>1
<1>3. \/ /\ live'[k] = live[k]
         /\ \A w \in Windows : daily'[k][w] = KeptRow(time, k, w)
      \/ \E t \in Windows : /\ live'[k] = [window |-> t, counted |-> daily'[k][t]]
                            /\ daily'[k][t] \in Samples
  BY LiveStep
<1> QED
  BY <1>1, <1>2, <1>3

(* Recovery leaves nothing behind the window it chose, and a row that is   *)
(* purged is older than anything still observed.                           *)
LEMMA MissingStep ==
  ASSUME NEW time, NEW pending, Step(time, pending)
  PROVE  MissingRowsAreOlder'
<1> SUFFICES ASSUME NEW o \in observations', daily'[o.key][WindowOf(o.at)] = NoRow
             PROVE  \E w \in Windows : w > WindowOf(o.at) /\ daily'[o.key][w] # NoRow
  BY DEF MissingRowsAreOlder, WindowOf, Windows
<1> DEFINE k == o.key
           v == WindowOf(o.at)
<1>1. PICK batch : /\ IsBatch(batch, time, pending)
                   /\ \A key \in Keys :
                        \/ Untouched(batch, time, key)
                        \/ \E t \in Windows : Materialised(batch, time, key, t)
  BY CycleFacts DEF Step, IInv
<1>2. /\ observations' \in SUBSET Observations /\ batch \in SUBSET observations'
      /\ observations' = Unexpired(time) \cup pending
  BY <1>1, CycleFacts DEF Step, IInv, IsBatch
<1>3. o \in Observations /\ k \in Keys /\ v \in Windows /\ v \in Nat /\ o.at \in Nat
  BY <1>2, ObservationFacts, WindowsAreNatural
<1>4. daily'[k][v] = KeptRow(time, k, v)
  BY <1>3, DailyStep, SamplesAreRows
<1>5. ASSUME NEW t \in Windows, Materialised(batch, time, k, t), v <= t
      PROVE  \E w \in Windows : w > v /\ daily'[k][w] # NoRow
  <2>1. daily'[k][t] \in Samples
    BY <1>2, <1>5, CountedIsASample DEF Materialised
  <2>2. daily'[k][t] # NoRow /\ t # v
    BY <2>1, SamplesAreRows
  <2> QED
    BY <1>3, <1>5, <2>2, WindowsAreNatural
<1>6. CASE o \in batch
  BY <1>1, <1>3, <1>5, <1>6 DEF Untouched, Materialised, IsTarget
<1>7. CASE o \notin batch
  <2>1. pending # {} /\ o \notin pending
    BY <1>1, <1>4, <1>7 DEF IsBatch
  <2>2. o \in observations /\ o.at + Life > time
    BY <1>2, <2>1 DEF Unexpired
  <2>3. DayOfWindow(v) >= ServiceDate(time) - Lookback
    BY <1>3, <2>2, TimeFacts, UnexpiredIsKept
  <2>4. \A w \in Windows : w >= v => KeptRow(time, k, w) = daily[k][w]
    <3> SUFFICES ASSUME NEW w \in Windows, w >= v PROVE KeptRow(time, k, w) = daily[k][w]
      OBVIOUS
    <3>1. DayOfWindow(v) <= DayOfWindow(w) /\ DayOfWindow(v) \in Int /\ DayOfWindow(w) \in Int
      BY <1>3, DayMonotone, WindowsAreNatural
    <3>2. ~(DayOfWindow(w) < ServiceDate(time) - Lookback)
      BY <2>3, <3>1, TimeFacts, MetricsAssumption
    <3> QED
      BY <3>2 DEF KeptRow, RetentionStart
  <2>5. daily[k][v] = NoRow
    BY <1>3, <1>4, <2>4
  <2>6. PICK w \in Windows : w > v /\ daily[k][w] # NoRow
    BY <2>2, <2>5 DEF Step, IInv, MissingRowsAreOlder
  <2>7. KeptRow(time, k, w) # NoRow
    BY <1>3, <2>4, <2>6, WindowsAreNatural
  <2>8. daily'[k][w] # NoRow
    BY <1>3, <2>7, DailyStep, SamplesAreRows
  <2> QED
    BY <2>6, <2>8
<1> QED
  BY <1>6, <1>7

-----------------------------------------------------------------------------
LEMMA NextSteps ==
  ASSUME IInv, Next
  PROVE  \E time, pending : Step(time, pending)
  BY DEF Next, Step

LEMMA NextIInv == IInv /\ [Next]_vars => IInv'
<1> SUFFICES ASSUME IInv, [Next]_vars PROVE IInv'
  OBVIOUS
<1>1. CASE Next
  <2>1. PICK time, pending : Step(time, pending)
    BY <1>1, NextSteps
  <2>2. TypeOK' /\ RowsHoldTheirOwn' /\ NothingPurgedEarly'
    BY <2>1, TypesStep, OwnStep, PurgeStep
  <2>3. ProfilesAreClaimed' /\ MissingRowsAreOlder' /\ LiveMirrorsDaily'
    BY <2>1, ClaimedStep, MissingStep, MirrorStep
  <2> QED
    BY <2>2, <2>3 DEF IInv
<1>2. CASE UNCHANGED vars
  <2> USE <1>2 DEF vars
  <2>1. TypeOK' /\ RowsHoldTheirOwn'
    BY DEF IInv, TypeOK, RowsHoldTheirOwn
  <2>2. NothingPurgedEarly' /\ ProfilesAreClaimed'
    BY DEF IInv, NothingPurgedEarly, ProfilesAreClaimed
  <2>3. MissingRowsAreOlder' /\ LiveMirrorsDaily'
    BY DEF IInv, MissingRowsAreOlder, LiveMirrorsDaily
  <2> QED
    BY <2>1, <2>2, <2>3 DEF IInv
<1> QED
  BY <1>1, <1>2

(* The rows a claimed refresh combines are all that were ever written for  *)
(* its seven days.                                                         *)
LEMMA ClaimCountsAll ==
  ASSUME NEW time, NEW pending, Step(time, pending), claim' # claim, NEW p \in ProfileKeys
  PROVE  WindowsUpTo(claim', p, written') # {} =>
           profiles'[p] = [end |-> claim',
                           counted |-> UNION {written'[p.key][w] :
                                                w \in WindowsUpTo(claim', p, written')}]
<1> DEFINE day == ServiceDate(time)
           rows == WindowsUpTo(claim', p, written')
           eligible == {w \in Windows :
                        /\ DayOfWindow(w) \in (day - Lookback)..(day - 1)
                        /\ DayType(DayOfWindow(w)) = p.type
                        /\ SlotOfWindow(w) = p.slot
                        /\ daily'[p.key][w] # NoRow}
           counted == UNION {daily'[p.key][w] : w \in eligible}
<1>1. claim' = day - 1 /\ day \in Nat /\ Lookback \in Int /\ p.key \in Keys
  BY ProfileStep, TimeFacts, MetricsAssumption DEF ProfileKeys
<1>2. \A w \in Windows : DayOfWindow(w) \in Int
  BY DayMonotone, WindowsAreNatural
<1>3. \A w \in Windows :
        DayOfWindow(w) >= day - Lookback => written'[p.key][w] = daily'[p.key][w]
  BY <1>1, PurgeStep, TimeFacts DEF NothingPurgedEarly, DayOfWindow, ServiceDate, WindowOf, Windows
<1>4. \A w \in Windows :
        (DayOfWindow(w) > claim' - Lookback /\ DayOfWindow(w) <= claim')
          <=> DayOfWindow(w) \in (day - Lookback)..(day - 1)
  BY <1>1, <1>2
<1>5. rows = eligible
  BY <1>1, <1>2, <1>3, <1>4 DEF WindowsUpTo
<1>6. UNION {written'[p.key][w] : w \in rows} = counted
  BY <1>1, <1>2, <1>3, <1>5
<1>7. Combined(daily', day)[p] =
        IF eligible = {} THEN NoRow ELSE [end |-> day - 1, counted |-> counted]
  BY DEF Combined
<1>8. eligible # {} => counted \in SUBSET Observations
  BY <1>1, DailyTypes, SamplesAreRows
<1>9. eligible # {} => Combined(daily', day)[p] # NoRow
  <2> HIDE DEF counted
  <2>1. day - 1 \in Int
    BY <1>1
  <2> QED
    BY <1>7, <1>8, <2>1, MetricsAssumption DEF Observations
<1>10. profiles'[p] = IF Combined(daily', day)[p] = NoRow THEN profiles[p] ELSE Combined(daily', day)[p]
  BY ProfileStep
<1> HIDE DEF rows, eligible, counted
<1> QED
  BY <1>1, <1>5, <1>6, <1>7, <1>9, <1>10 DEF rows

-----------------------------------------------------------------------------
(* Types of the tables: in particular no row of statistics is written      *)
(* without a sample, and no profile is of a day not claimed yet.           *)
THEOREM MetricsTypes == Spec => []TypeOK
<1>1. Spec => []IInv
  BY InitIInv, NextIInv, PTL DEF Spec
<1> QED
  BY <1>1, PTL DEF IInv

(* An observation lacks its daily row only behind a row of a later window  *)
(* of its segment.                                                         *)
THEOREM MissingAreOlder == Spec => []MissingRowsAreOlder
<1>1. Spec => []IInv
  BY InitIInv, NextIInv, PTL DEF Spec
<1> QED
  BY <1>1, PTL DEF IInv

(* The live and the daily row of a window tell the same, until the purge.  *)
THEOREM LiveAndDailyAgree == Spec => []LiveMirrorsDaily
<1>1. Spec => []IInv
  BY InitIInv, NextIInv, PTL DEF Spec
<1> QED
  BY <1>1, PTL DEF IInv

(* Computing a daily row again never loses a sample.                       *)
THEOREM RowsNeverShrink == Spec => DailyRowsNeverShrink
<1> DEFINE Kept == \A k \in Keys, w \in Windows :
         daily[k][w] # NoRow /\ daily'[k][w] # NoRow => daily[k][w] \subseteq daily'[k][w]
<1>1. Spec => []IInv
  BY InitIInv, NextIInv, PTL DEF Spec
<1>2. IInv /\ [Next]_vars => [Kept]_vars
  <2> SUFFICES ASSUME IInv, Next PROVE Kept
    OBVIOUS
  <2>1. PICK time, pending : Step(time, pending)
    BY NextSteps
  <2> QED
    BY <2>1, RowsGrow DEF Step
<1>3. Spec => [][Kept]_vars
  BY <1>1, <1>2, PTL DEF Spec
<1> QED
  BY <1>3 DEF DailyRowsNeverShrink

(* When the profiles of a day are claimed, they count every daily row ever *)
(* written for the seven days before it.                                   *)
THEOREM ProfilesComplete == Spec => ProfilesCountEveryDay
<1>1. Spec => []IInv
  BY InitIInv, NextIInv, PTL DEF Spec
<1>2. IInv /\ [Next]_vars => [ClaimCombinesAll]_vars
  <2> SUFFICES ASSUME IInv, Next PROVE ClaimCombinesAll
    OBVIOUS
  <2>1. PICK time, pending : Step(time, pending)
    BY NextSteps
  <2> QED
    BY <2>1, ClaimCountsAll DEF ClaimCombinesAll
<1>3. Spec => [][ClaimCombinesAll]_vars
  BY <1>1, <1>2, PTL DEF Spec
<1> QED
  BY <1>3 DEF ProfilesCountEveryDay

-----------------------------------------------------------------------------
(***************************************************************************)
(* The validation of samples, for any measurements and any length of the   *)
(* hour.                                                                   *)
(***************************************************************************)
LEMMA SameCardinality == ASSUME NEW S PROVE Validation!Cardinality(S) = Cardinality(S)
  BY DEF Validation!Cardinality, Cardinality

(* A sequence of equal values has them in every place once it is sorted.   *)
LEMMA NthOfAlike ==
  ASSUME NEW d \in Int, NEW q \in Seq({d}), NEW i \in 1..Len(q)
  PROVE  Validation!Nth(q, i) = d
<1>1. Len(q) \in Nat /\ DOMAIN q = 1..Len(q) /\ \A k \in 1..Len(q) : q[k] = d
  OBVIOUS
<1>2. Validation!ToSet(q) = {d}
  BY <1>1 DEF Validation!ToSet
<1>3. {k \in DOMAIN q : q[k] < d} = {} /\ {k \in DOMAIN q : q[k] <= d} = 1..Len(q)
  BY <1>1
<1>4. Cardinality({}) = 0 /\ Cardinality(1..Len(q)) = Len(q)
  <2>1. Cardinality({}) = 0
    BY FS_EmptySet
  <2> DEFINE n == Len(q)
  <2>2. n \in Nat /\ (IF 1 > n THEN 0 ELSE n - 1 + 1) = n
    BY <1>1
  <2> HIDE DEF n
  <2>3. Cardinality(1..n) = n
    BY <2>2, FS_Interval
  <2> QED
    BY <2>1, <2>3 DEF n
<1>5. /\ Validation!Cardinality({k \in DOMAIN q : q[k] < d}) = 0
      /\ Validation!Cardinality({k \in DOMAIN q : q[k] <= d}) = Len(q)
  BY <1>3, <1>4, SameCardinality
<1> DEFINE placed(v) == /\ Validation!Cardinality({k \in DOMAIN q : q[k] < v}) < i
                        /\ Validation!Cardinality({k \in DOMAIN q : q[k] <= v}) >= i
<1>6. Validation!Nth(q, i) = CHOOSE v \in Validation!ToSet(q) : placed(v)
  BY DEF Validation!Nth
<1>7. placed(d)
  <2>1. 0 < i /\ Len(q) >= i
    BY <1>1
  <2> QED
    BY <1>5, <2>1, Zenon
<1> HIDE DEF placed
<1>8. \E v \in {d} : placed(v)
  BY <1>7
<1> QED
  BY <1>2, <1>6, <1>8

LEMMA SortedOfAlike ==
  ASSUME NEW d \in Int, NEW q \in Seq({d})
  PROVE  Validation!Sorted(q) \in Seq({d})
<1>1. DOMAIN q = 1..Len(q) /\ Len(q) \in Nat
  OBVIOUS
<1>2. Validation!Sorted(q) = [i \in 1..Len(q) |-> Validation!Nth(q, i)]
  BY <1>1 DEF Validation!Sorted
<1>3. Validation!Sorted(q) \in [1..Len(q) -> {d}]
  BY <1>2, NthOfAlike
<1> QED
  BY <1>1, <1>3

LEMMA MedianOfAlike ==
  ASSUME NEW d \in Int, NEW q \in Seq({d}), Len(q) >= 1
  PROVE  Validation!TwiceMedian(q) = 2 * d
<1>1. Len(q) \in Nat
  OBVIOUS
<1>2. (Len(q) + 1) \div 2 \in 1..Len(q) /\ Len(q) \div 2 + 1 \in 1..Len(q)
  BY <1>1
<1> QED
  BY <1>2, NthOfAlike DEF Validation!TwiceMedian

(* Among equal durations none is an outlier, and neither is one more.      *)
LEMMA NoOutlier ==
  ASSUME NEW d \in Int, NEW q \in Seq({d}), Len(q) >= 1
  PROVE  ~Validation!Outlier(d, q)
<1> DEFINE deviations == [i \in DOMAIN q |-> Validation!Abs(2 * q[i] - Validation!TwiceMedian(q))]
<1>1. Validation!TwiceMedian(q) = 2 * d
  BY MedianOfAlike
<1>2. \A i \in DOMAIN q : q[i] = d
  OBVIOUS
<1>3. deviations \in Seq({0}) /\ Len(deviations) = Len(q)
  <2>1. DOMAIN q = 1..Len(q) /\ Len(q) \in Nat
    OBVIOUS
  <2>2. deviations \in [1..Len(q) -> {0}]
    BY <1>1, <1>2, <2>1 DEF Validation!Abs
  <2> QED
    BY <2>1, <2>2
<1> HIDE DEF deviations
<1>4. Validation!TwiceMedian(deviations) = 0
  BY <1>3, MedianOfAlike
<1>5. 2 * Validation!Abs(2 * d - Validation!TwiceMedian(q)) = 0
  BY <1>1 DEF Validation!Abs
<1> QED
  BY <1>4, <1>5 DEF Validation!Outlier, deviations

Verdicts == {"invalid_measurement", "speed_over_80", "mad_outlier", "accepted"}

LEMMA AssessFacts ==
  ASSUME NEW m, NEW references
  PROVE  /\ Validation!Assess(m, references) \in Verdicts
         /\ m.duration \in Int /\ references \in Seq({m.duration})
              => Validation!Assess(m, references) # "mad_outlier"
<1>1. Validation!Assess(m, references) \in Verdicts
  BY DEF Validation!Assess, Verdicts
<1>2. ASSUME m.duration \in Int, references \in Seq({m.duration})
      PROVE  Validation!Assess(m, references) # "mad_outlier"
  <2>1. Len(references) \in Nat /\ Validation!MinReferences = 5
    BY <1>2 DEF Validation!MinReferences
  <2>2. Len(references) >= 5 => ~Validation!Outlier(m.duration, references)
    BY <1>2, <2>1, NoOutlier
  <2> QED
    BY <2>1, <2>2 DEF Validation!Assess
<1> QED
  BY <1>1, <1>2

(* Induction over the numbers, for a property given as a set. *)
LEMMA Induction ==
  ASSUME NEW P \in SUBSET Nat, 0 \in P, \A n \in P : n + 1 \in P
  PROVE  P = Nat
<1> SUFFICES ASSUME Nat \ P # {} PROVE FALSE
  OBVIOUS
<1>1. PICK least \in Nat \ P : \A n \in Nat \ P : ~(<<n, least>> \in OpToRel(<, Nat))
  BY NatLessThanWellFounded, WFMin
<1>2. \A n \in Nat \ P : ~(n < least)
  BY <1>1 DEF OpToRel
<1>3. least # 0
  OBVIOUS
<1>4. least - 1 \in P
  BY <1>2, <1>3
<1>5. (least - 1) + 1 \in P
  BY <1>4
<1> QED
  BY <1>5

(* A function defined by recursion from 0 to N exists. *)
Recurs(f, N, start, step) == f[0] = start /\ \A n \in 1..N : f[n] = step[n][f[n - 1]]

LEMMA Recursion ==
  ASSUME NEW N \in Nat, NEW T, NEW start \in T, NEW step \in [1..N -> [T -> T]]
  PROVE  \E f \in [0..N -> T] : Recurs(f, N, start, step)
<1> DEFINE P == {m \in Nat : m <= N => \E f \in [0..m -> T] : Recurs(f, m, start, step)}
<1>1. 0 \in P
  <2>1. [n \in 0..0 |-> start] \in [0..0 -> T]
    OBVIOUS
  <2>2. Recurs([n \in 0..0 |-> start], 0, start, step)
    BY DEF Recurs
  <2> QED
    BY <2>1, <2>2
<1>2. ASSUME NEW m \in P PROVE m + 1 \in P
  <2> SUFFICES ASSUME m + 1 <= N
               PROVE  \E f \in [0..(m + 1) -> T] : Recurs(f, m + 1, start, step)
    OBVIOUS
  <2>1. PICK f \in [0..m -> T] : Recurs(f, m, start, step)
    OBVIOUS
  <2> DEFINE g == [n \in 0..(m + 1) |-> IF n = m + 1 THEN step[m + 1][f[m]] ELSE f[n]]
  <2>2. step[m + 1] \in [T -> T] /\ f[m] \in T
    OBVIOUS
  <2>3. step[m + 1][f[m]] \in T
    BY <2>2
  <2>4. g \in [0..(m + 1) -> T]
    <3>1. \A n \in 0..(m + 1) : n = m + 1 \/ n \in 0..m
      OBVIOUS
    <3>2. \A n \in 0..(m + 1) : g[n] \in T
      BY <2>3, <3>1
    <3> QED
      BY <3>2
  <2>5. Recurs(g, m + 1, start, step)
    <3>1. g[0] = start
      BY <2>1 DEF Recurs
    <3>2. ASSUME NEW n \in 1..(m + 1) PROVE g[n] = step[n][g[n - 1]]
      <4>1. CASE n = m + 1
        BY <4>1
      <4>2. CASE n \in 1..m
        <5>1. f[n] = step[n][f[n - 1]]
          BY <2>1, <4>2 DEF Recurs
        <5> QED
          BY <4>2, <5>1
      <4> QED
        BY <4>1, <4>2
    <3> QED
      BY <3>1, <3>2 DEF Recurs
  <2> HIDE DEF g
  <2> QED
    BY <2>4, <2>5
<1>3. N \in P
  <2>1. P \in SUBSET Nat
    OBVIOUS
  <2> HIDE DEF P
  <2> QED
    BY <1>1, <1>2, <2>1, Induction
<1> QED
  BY <1>3

(* Sequences of equal values, one after another. *)
LEMMA FlattenOfAlike ==
  ASSUME NEW d, NEW seqs \in Seq(Seq({d})), Len(seqs) >= 1
  PROVE  Validation!FlattenSeq(seqs) \in Seq({d})
<1> DEFINE N == Len(seqs) - 1
           T == Seq({d})
           step == [n \in 1..N |-> [q \in T |-> q \o seqs[n + 1]]]
           Flattens(g) == g = [i \in 1..Len(seqs) |-> IF i = 1 THEN seqs[i] ELSE g[i - 1] \o seqs[i]]
<1>1. Len(seqs) \in Nat /\ N \in Nat /\ \A i \in 1..Len(seqs) : seqs[i] \in T
  OBVIOUS
<1>2. step \in [1..N -> [T -> T]]
  <2>1. \A n \in 1..N : seqs[n + 1] \in T
    BY <1>1
  <2>2. \A n \in 1..N, q \in T : q \o seqs[n + 1] \in T
    BY <2>1
  <2> HIDE DEF T, N
  <2> QED
    BY <2>2
<1>3. seqs[1] \in T
  BY <1>1
<1>4. PICK f \in [0..N -> T] : Recurs(f, N, seqs[1], step)
  <2> HIDE DEF T, N, step
  <2> QED
    BY <1>1, <1>2, <1>3, Recursion
<1>5. Flattens([i \in 1..Len(seqs) |-> f[i - 1]])
  <2> DEFINE g == [i \in 1..Len(seqs) |-> f[i - 1]]
  <2>1. ASSUME NEW i \in 1..Len(seqs) PROVE g[i] = IF i = 1 THEN seqs[i] ELSE g[i - 1] \o seqs[i]
    <3>1. CASE i = 1
      BY <1>4, <3>1 DEF Recurs
    <3>2. CASE i # 1
      <4>1. i - 1 \in 1..N /\ i - 1 \in 1..Len(seqs) /\ (i - 1) - 1 \in 0..N /\ (i - 1) + 1 = i
        BY <1>1, <3>2
      <4>2. f[i - 1] = step[i - 1][f[(i - 1) - 1]]
        BY <1>4, <4>1 DEF Recurs
      <4>3. f[(i - 1) - 1] \in T
        BY <4>1
      <4>4. step[i - 1][f[(i - 1) - 1]] = f[(i - 1) - 1] \o seqs[i]
        BY <4>1, <4>3
      <4> HIDE DEF step
      <4> QED
        BY <3>2, <4>1, <4>2, <4>4
    <3> QED
      BY <3>1, <3>2
  <2>2. g = [i \in 1..Len(seqs) |-> g[i]]
    OBVIOUS
  <2> HIDE DEF g
  <2>3. Flattens(g)
    BY <2>1, <2>2
  <2> QED
    BY <2>3 DEF g
<1> DEFINE flatten == CHOOSE g : Flattens(g)
<1>6. Flattens(flatten)
  <2> HIDE DEF Flattens
  <2> QED
    BY <1>5
<1>7. Validation!FlattenSeq(seqs) = flatten[Len(seqs)]
  BY <1>1 DEF Validation!FlattenSeq
<1>8. flatten[1] = seqs[1] /\ \A i \in 2..Len(seqs) : flatten[i] = flatten[i - 1] \o seqs[i]
  <2> HIDE DEF flatten
  <2>1. \A i \in 1..Len(seqs) : flatten[i] = IF i = 1 THEN seqs[i] ELSE flatten[i - 1] \o seqs[i]
    BY <1>6, Zenon
  <2>2. 1 \in 1..Len(seqs) /\ \A i \in 2..Len(seqs) : i \in 1..Len(seqs) /\ i # 1
    BY <1>1
  <2> QED
    BY <2>1, <2>2
<1> HIDE DEF flatten
<1> DEFINE P == {m \in Nat : m + 1 <= Len(seqs) => flatten[m + 1] \in Seq({d})}
<1>9. 0 \in P
  BY <1>1, <1>8
<1>10. ASSUME NEW m \in P PROVE m + 1 \in P
  <2> SUFFICES ASSUME m + 2 <= Len(seqs) PROVE flatten[m + 2] \in Seq({d})
    OBVIOUS
  <2>1. flatten[m + 1] \in Seq({d})
    BY <1>1
  <2>2. m + 2 \in 2..Len(seqs) /\ (m + 2) - 1 = m + 1
    BY <1>1
  <2>3. flatten[m + 2] = flatten[m + 1] \o seqs[m + 2]
    BY <1>8, <2>2
  <2>4. seqs[m + 2] \in Seq({d})
    BY <1>1, <2>2
  <2> QED
    BY <2>1, <2>3, <2>4
<1>11. N \in P
  <2>1. P \in SUBSET Nat
    OBVIOUS
  <2> HIDE DEF P
  <2>2. P = Nat
    BY <1>9, <1>10, <2>1, Induction
  <2> QED
    BY <1>1, <2>2
<1> QED
  BY <1>1, <1>7, <1>11

(* What a batch of one measurement, repeated, leads to. *)
LEMMA AssessedOfAlike ==
  ASSUME NEW m, NEW batch \in Seq({m}), NEW references, NEW V,
         \A q \in Seq({m.duration}) : Validation!Assess(m, references \o q) \in V
  PROVE  Validation!Assessed(batch, references) \in [verdicts : SUBSET V, accepted : Seq({m.duration})]
<1> DEFINE N == Len(batch)
           T == [verdicts : SUBSET V, accepted : Seq({m.duration})]
           start == [verdicts |-> {}, accepted |-> << >>]
           next(so) == Validation!AssessedNext(so, m, references)
           step == [n \in 1..N |-> [so \in T |-> next(so)]]
           Assesses(g) == g = [n \in 0..Len(batch) |->
                                 IF n = 0 THEN [verdicts |-> {}, accepted |-> << >>]
                                 ELSE Validation!AssessedNext(g[n - 1], batch[n], references)]
<1>1. N \in Nat /\ \A n \in 1..N : batch[n] = m
  OBVIOUS
<1>2. start \in T
  OBVIOUS
<1>3. \A so \in T : next(so) \in T
  <2> SUFFICES ASSUME NEW so \in T PROVE next(so) \in T
    OBVIOUS
  <2>1. so.verdicts \in SUBSET V /\ so.accepted \in Seq({m.duration})
    OBVIOUS
  <2>2. Validation!Assess(m, references \o so.accepted) \in V
    BY <2>1
  <2>3. Append(so.accepted, m.duration) \in Seq({m.duration})
    BY <2>1
  <2> QED
    BY <2>1, <2>2, <2>3 DEF Validation!AssessedNext
<1>4. step \in [1..N -> [T -> T]]
  <2> HIDE DEF T, N, next
  <2> QED
    BY <1>3
<1>5. PICK f \in [0..N -> T] : Recurs(f, N, start, step)
  <2> HIDE DEF T, N, step, start
  <2> QED
    BY <1>1, <1>2, <1>4, Recursion
<1>6. Assesses(f)
  <2>1. ASSUME NEW n \in 0..N
        PROVE  f[n] = IF n = 0 THEN start ELSE Validation!AssessedNext(f[n - 1], batch[n], references)
    <3>1. CASE n = 0
      BY <1>5, <3>1 DEF Recurs
    <3>2. CASE n # 0
      <4>1. n \in 1..N /\ n - 1 \in 0..N
        BY <1>1, <3>2
      <4>2. f[n] = step[n][f[n - 1]] /\ f[n - 1] \in T
        BY <1>5, <4>1 DEF Recurs
      <4> HIDE DEF T
      <4>3. f[n] = next(f[n - 1])
        BY <4>1, <4>2
      <4> QED
        BY <1>1, <3>2, <4>1, <4>3
    <3> QED
      BY <3>1, <3>2
  <2>2. f = [n \in 0..N |-> f[n]]
    OBVIOUS
  <2> HIDE DEF T
  <2> QED
    BY <2>1, <2>2, Zenon
<1> DEFINE after == CHOOSE g : Assesses(g)
<1>7. Assesses(after)
  <2> HIDE DEF Assesses
  <2> QED
    BY <1>6
<1>8. Validation!Assessed(batch, references) = after[Len(batch)]
  BY DEF Validation!Assessed
<1>9. after[0] = start /\ \A n \in 1..N : after[n] = next(after[n - 1])
  <2> HIDE DEF after
  <2>1. \A n \in 0..N : after[n] = IF n = 0 THEN start
                                   ELSE Validation!AssessedNext(after[n - 1], batch[n], references)
    BY <1>7, Zenon
  <2>2. 0 \in 0..N /\ \A n \in 1..N : n \in 0..N /\ n # 0 /\ batch[n] = m
    BY <1>1
  <2> QED
    BY <2>1, <2>2, Zenon
<1> HIDE DEF after, next, start, T, N
<1> DEFINE P == {n \in Nat : n <= N => after[n] \in T}
<1>10. 0 \in P
  BY <1>2, <1>9
<1>11. ASSUME NEW n \in P PROVE n + 1 \in P
  <2> SUFFICES ASSUME n + 1 <= N PROVE after[n + 1] \in T
    OBVIOUS
  <2>1. after[n] \in T /\ n + 1 \in 1..N /\ (n + 1) - 1 = n
    BY <1>1
  <2> QED
    BY <1>3, <1>9, <2>1
<1>12. N \in P
  <2>1. P \in SUBSET Nat
    OBVIOUS
  <2> HIDE DEF P
  <2> QED
    BY <1>1, <1>10, <1>11, <2>1, Induction
<1>13. after[N] \in T
  BY <1>1, <1>12
<1> QED
  BY <1>8, <1>13 DEF N, T

(* As far back as only one measurement was made, its durations alone have  *)
(* been accepted.                                                          *)
PaceInv ==
  /\ pace \in [only : Measurements, cycles : 0..Hour]
  /\ \A age \in Validation!Ages :
       age < pace.cycles => accepted[age] \in Seq({pace.only.duration})
  /\ Validation!NewPaceIsLearned

LEMMA PaceInit == ValidationSettings /\ Validation!Init => PaceInv
<1> SUFFICES ASSUME ValidationSettings, Validation!Init PROVE PaceInv
  OBVIOUS
<1>1. (CHOOSE m \in Measurements : TRUE) \in Measurements
  BY DEF ValidationSettings
<1>2. pace \in [only : Measurements, cycles : 0..Hour] /\ pace.cycles = 0
  BY <1>1 DEF Validation!Init, ValidationSettings
<1>3. \A age \in Validation!Ages : ~(age < 0)
  BY DEF Validation!Ages, ValidationSettings
<1>4. Hour # 0
  BY DEF ValidationSettings
<1> QED
  BY <1>2, <1>3, <1>4 DEF PaceInv, Validation!NewPaceIsLearned

(* A cycle of a single measurement. *)
LEMMA AlikeCycle ==
  ASSUME ValidationSettings, NEW m \in Measurements, NEW batch \in Seq({m}), NEW cycles \in 0..Hour,
         \A age \in Validation!Ages :
           age # 0 /\ age < cycles => accepted[age - 1] \in Seq({m.duration}),
         Validation!Cycle(batch), pace' = [only |-> m, cycles |-> cycles]
  PROVE  PaceInv'
<1> DEFINE d == m.duration
           aged == [i \in 1..Hour |-> Validation!Aged[i - 1]]
           references == Validation!FlattenSeq(aged)
           assessed == Validation!Assessed(batch, references)
<1>1. d \in Int /\ Hour \in Nat \ {0} /\ 0 \in Validation!Ages
  BY DEF ValidationSettings, Validation!Ages
<1>2. /\ accepted' = [Validation!Aged EXCEPT ![0] = Validation!Sorted(assessed.accepted)]
      /\ verdicts' = assessed.verdicts
  BY DEF Validation!Cycle
<1>3. assessed \in [verdicts : SUBSET Verdicts, accepted : Seq({d})]
  BY AssessFacts, AssessedOfAlike
<1>4. Validation!Sorted(assessed.accepted) \in Seq({d})
  <2>1. assessed.accepted \in Seq({d})
    BY <1>3
  <2> HIDE DEF assessed, d
  <2> QED
    BY <1>1, <2>1, SortedOfAlike
<1>5. \A age \in Validation!Ages : age < cycles => Validation!Aged[age] \in Seq({d})
  BY DEF Validation!Aged
<1>6. \A age \in Validation!Ages : age < cycles => accepted'[age] \in Seq({d})
  <2> SUFFICES ASSUME NEW age \in Validation!Ages, age < cycles PROVE accepted'[age] \in Seq({d})
    OBVIOUS
  <2>1. DOMAIN Validation!Aged = Validation!Ages
    BY DEF Validation!Aged
  <2> HIDE DEF assessed, d
  <2>2. CASE age = 0
    BY <1>1, <1>2, <1>4, <2>1, <2>2
  <2>3. CASE age # 0
    <3>1. accepted'[age] = Validation!Aged[age]
      BY <1>2, <2>1, <2>3
    <3> QED
      BY <1>5, <3>1
  <2> QED
    BY <2>2, <2>3
<1>7. ASSUME cycles = Hour PROVE "mad_outlier" \notin verdicts'
  <2>1. \A i \in 1..Hour : Validation!Aged[i - 1] \in Seq({d})
    BY <1>1, <1>5, <1>7 DEF Validation!Ages
  <2>2. aged \in Seq(Seq({d})) /\ Len(aged) = Hour
    <3> HIDE DEF d
    <3>1. aged \in [1..Hour -> Seq({d})]
      BY <2>1
    <3> HIDE DEF aged
    <3> QED
      BY <1>1, <3>1
  <2>3. references \in Seq({d})
    <3>1. Len(aged) >= 1
      BY <1>1, <2>2
    <3> HIDE DEF d, aged
    <3> QED
      BY <2>2, <3>1, FlattenOfAlike, Zenon
  <2> HIDE DEF references
  <2>4. \A q \in Seq({d}) : references \o q \in Seq({d})
    BY <2>3
  <2>5. \A q \in Seq({d}) : Validation!Assess(m, references \o q) \in Verdicts \ {"mad_outlier"}
    BY <1>1, <2>4, AssessFacts
  <2>6. assessed \in [verdicts : SUBSET (Verdicts \ {"mad_outlier"}), accepted : Seq({d})]
    <3> DEFINE V == Verdicts \ {"mad_outlier"}
    <3>1. \A q \in Seq({m.duration}) : Validation!Assess(m, references \o q) \in V
      BY <2>5
    <3> HIDE DEF V
    <3>2. assessed \in [verdicts : SUBSET V, accepted : Seq({d})]
      BY <3>1, AssessedOfAlike
    <3> QED
      BY <3>2 DEF V
  <2> HIDE DEF assessed
  <2> QED
    BY <1>2, <2>6
<1>8. pace' \in [only : Measurements, cycles : 0..Hour] /\ pace'.only = m /\ pace'.cycles = cycles
  OBVIOUS
<1>9. (Validation!Ages)' = Validation!Ages
  BY DEF Validation!Ages
<1> HIDE DEF d
<1> QED
  BY <1>6, <1>7, <1>8, <1>9 DEF PaceInv, Validation!NewPaceIsLearned, d

LEMMA CycleKeepsPace ==
  ASSUME ValidationSettings, PaceInv, NEW batch \in Seq(Measurements), Validation!Cycle(batch)
  PROVE  PaceInv'
<1>1. /\ Hour \in Nat \ {0} /\ pace.only \in Measurements /\ pace.cycles \in 0..Hour
      /\ pace = [only |-> pace.only, cycles |-> pace.cycles]
  BY DEF PaceInv, ValidationSettings
<1>2. pace' = Validation!Paced(batch)
  BY DEF Validation!Cycle
<1>3. \A m : Validation!ToSet(batch) \subseteq {m} => batch \in Seq({m})
  <2> SUFFICES ASSUME NEW m, Validation!ToSet(batch) \subseteq {m} PROVE batch \in Seq({m})
    OBVIOUS
  <2>1. Len(batch) \in Nat /\ DOMAIN batch = 1..Len(batch) /\ batch \in [1..Len(batch) -> Measurements]
    OBVIOUS
  <2>2. \A i \in 1..Len(batch) : batch[i] \in {m}
    BY <2>1 DEF Validation!ToSet
  <2>3. batch \in [1..Len(batch) -> {m}]
    BY <2>1, <2>2
  <2> QED
    BY <2>1, <2>3
<1>4. CASE Validation!ToSet(batch) \subseteq {pace.only}
  <2> DEFINE cycles == IF pace.cycles < Hour THEN pace.cycles + 1 ELSE Hour
  <2>1. pace' = [only |-> pace.only, cycles |-> cycles]
    BY <1>1, <1>2, <1>4 DEF Validation!Paced
  <2>2. cycles \in 0..Hour
    BY <1>1
  <2>3. \A age \in Validation!Ages :
          age # 0 /\ age < cycles => accepted[age - 1] \in Seq({pace.only.duration})
    <3>1. \A age \in Validation!Ages :
            age # 0 /\ age < cycles => age - 1 \in Validation!Ages /\ age - 1 < pace.cycles
      BY <1>1 DEF Validation!Ages
    <3> HIDE DEF cycles
    <3> QED
      BY <3>1 DEF PaceInv
  <2> HIDE DEF cycles
  <2> QED
    BY <1>1, <1>3, <1>4, <2>1, <2>2, <2>3, AlikeCycle
<1>5. CASE ~(Validation!ToSet(batch) \subseteq {pace.only})
  <2> DEFINE m == Validation!Last(batch)
  <2>1. m \in Measurements
    <3>1. Len(batch) # 0
      BY <1>5 DEF Validation!ToSet
    <3> QED
      BY <3>1 DEF Validation!Last
  <2>2. CASE Validation!ToSet(batch) = {m}
    <3>1. pace' = [only |-> m, cycles |-> 1] /\ 1 \in 0..Hour
      BY <1>1, <1>2, <1>5, <2>2 DEF Validation!Paced
    <3>2. \A age \in Validation!Ages : ~(age # 0 /\ age < 1)
      BY <1>1 DEF Validation!Ages
    <3> HIDE DEF m
    <3> QED
      BY <1>3, <2>1, <2>2, <3>1, <3>2, AlikeCycle
  <2>3. CASE Validation!ToSet(batch) # {m}
    <3>1. pace' = [only |-> m, cycles |-> 0] /\ 0 \in 0..Hour
      BY <1>1, <1>2, <1>5, <2>3 DEF Validation!Paced
    <3>2. \A age \in Validation!Ages : ~(age < 0)
      BY <1>1 DEF Validation!Ages
    <3>3. (Validation!Ages)' = Validation!Ages
      BY DEF Validation!Ages
    <3> HIDE DEF m
    <3> QED
      BY <1>1, <2>1, <3>1, <3>2, <3>3 DEF PaceInv, Validation!NewPaceIsLearned
  <2> QED
    BY <2>2, <2>3
<1> QED
  BY <1>4, <1>5

LEMMA PaceStep == ValidationSettings /\ PaceInv /\ [Validation!Next]_(Validation!vars) => PaceInv'
<1> SUFFICES ASSUME ValidationSettings, PaceInv, [Validation!Next]_(Validation!vars) PROVE PaceInv'
  OBVIOUS
<1>1. CASE Validation!Next
  <2>1. PICK n \in 0..MaxBatch : \E batch \in [1..n -> Measurements] : Validation!Cycle(batch)
    BY <1>1 DEF Validation!Next
  <2>2. PICK batch \in [1..n -> Measurements] : Validation!Cycle(batch)
    BY <2>1
  <2>3. batch \in Seq(Measurements)
    BY DEF ValidationSettings
  <2> QED
    BY <2>2, <2>3, CycleKeepsPace
<1>2. CASE UNCHANGED Validation!vars
  BY <1>2 DEF Validation!vars, PaceInv, Validation!NewPaceIsLearned, Validation!Ages
<1> QED
  BY <1>1, <1>2

(* A lasting change of traffic is learned, whatever the durations, however *)
(* long the hour and whatever was accepted before: once a duration has     *)
(* been the only one for an hour, it is not an outlier.                    *)
THEOREM PaceIsLearned == MCSpec => []NewPaceIsLearned
<1>1. MCInit => PaceInv
  BY PaceInit, ValidationAssumption DEF MCInit
<1>2. ASSUME PaceInv, [MCNext]_<<vars, trial, judged>> PROVE PaceInv'
  <2>1. [Validation!Next]_(Validation!vars)
    BY <1>2 DEF MCNext, Measure, Judge, Try, judged, Validation!vars
  <2> QED
    BY <1>2, <2>1, PaceStep, ValidationAssumption
<1>3. PaceInv => NewPaceIsLearned
  BY DEF PaceInv, NewPaceIsLearned
<1> QED
  BY <1>1, <1>2, <1>3, PTL DEF MCSpec

-----------------------------------------------------------------------------
(***************************************************************************)
(* The estimates, for any slots, offsets and schedules.                    *)
(***************************************************************************)
LEMMA QuotientIs ==
  ASSUME NEW n \in Nat \ {0}, NEW a \in Int, NEW q \in Int, n * q <= a, a < n * q + n
  PROVE  a \div n = q
<1>1. a \div n \in Int /\ n * (a \div n) \in Int /\ n * (a \div n) <= a /\ a < n * (a \div n) + n
  BY DivFacts
<1>2. n * q \in Int
  BY Z3
<1>3. CASE a \div n < q
  BY <1>1, <1>2, <1>3, TimesMonotone
<1>4. CASE q < a \div n
  BY <1>1, <1>2, <1>4, TimesMonotone
<1> QED
  BY <1>1, <1>3, <1>4

LEMMA ModFacts ==
  ASSUME NEW n \in Nat \ {0}, NEW a \in Int
  PROVE  a % n \in 0..(n - 1) /\ a = n * (a \div n) + (a % n)
  BY Z3

LEMMA DayFacts ==
  ASSUME EstimateSettings, NEW a \in Int
  PROVE  LET L == Estimates!DayLength  r == a % Estimates!DayLength
         IN /\ L \in Nat \ {0} /\ L = SlotLength * SlotsOfDay
            /\ Estimates!DateOf(a) \in Int /\ L * Estimates!DateOf(a) \in Int
            /\ r \in 0..(L - 1) /\ a = L * Estimates!DateOf(a) + r
            /\ Estimates!SlotOf(a) \in Int /\ SlotLength * Estimates!SlotOf(a) \in Int
            /\ SlotLength * Estimates!SlotOf(a) = Estimates!SlotOf(a) * SlotLength
            /\ SlotLength * Estimates!SlotOf(a) <= r /\ r < SlotLength * Estimates!SlotOf(a) + SlotLength
<1> DEFINE L == Estimates!DayLength
           r == a % L
<1>1. SlotLength \in Nat \ {0} /\ SlotsOfDay \in Nat \ {0}
  BY DEF EstimateSettings
<1>2. L = SlotLength * SlotsOfDay /\ L \in Nat \ {0}
  BY <1>1, Z3 DEF Estimates!DayLength
<1> HIDE DEF L
<1>3. /\ a \div L \in Int /\ L * (a \div L) \in Int
      /\ a % L \in 0..(L - 1) /\ a = L * (a \div L) + (a % L)
  BY <1>2, DivFacts, ModFacts
<1> HIDE DEF r
<1>r. r \in Int
  BY <1>2, <1>3 DEF r
<1>4. /\ r \div SlotLength \in Int /\ SlotLength * (r \div SlotLength) \in Int
      /\ SlotLength * (r \div SlotLength) <= r /\ r < SlotLength * (r \div SlotLength) + SlotLength
  BY <1>1, <1>r, DivFacts
<1>5. SlotLength * (r \div SlotLength) = (r \div SlotLength) * SlotLength
  BY <1>1, <1>4, Z3
<1> QED
  BY <1>2, <1>3, <1>4, <1>5 DEF Estimates!DateOf, Estimates!SlotOf, L, r

(* Where an instant and its slot lie in a day. *)
LEMMA SlotBounds ==
  ASSUME EstimateSettings, NEW a \in Int
  PROVE  /\ 0 <= SlotLength * Estimates!SlotOf(a)
         /\ SlotLength * Estimates!SlotOf(a) + SlotLength <= Estimates!DayLength
<1> DEFINE L == Estimates!DayLength
           r == a % L
           s == Estimates!SlotOf(a)
<1>1. /\ L \in Nat \ {0} /\ L = SlotLength * SlotsOfDay /\ r \in 0..(L - 1)
      /\ s \in Int /\ SlotLength * s \in Int /\ SlotLength * s <= r /\ r < SlotLength * s + SlotLength
  BY DayFacts
<1>2. SlotLength \in Nat \ {0} /\ SlotsOfDay \in Int
  BY DEF EstimateSettings
<1> HIDE DEF L, r, s
<1>3. SlotLength * 0 = 0
  BY <1>2, Z3
<1>4. ~(s < 0)
  <2> SUFFICES ASSUME s < 0 PROVE FALSE
    OBVIOUS
  <2>1. SlotLength * s + SlotLength <= SlotLength * 0
    BY <1>1, <1>2, TimesMonotone
  <2> QED
    BY <1>1, <1>2, <1>3, <2>1
<1>5. 0 <= SlotLength * s
  <2>1. CASE s = 0
    BY <1>3, <2>1
  <2>2. CASE 0 < s
    <3>1. SlotLength * 0 + SlotLength <= SlotLength * s
      BY <1>1, <1>2, <2>2, TimesMonotone
    <3> QED
      BY <1>1, <1>2, <1>3, <3>1
  <2> QED
    BY <1>1, <1>4, <2>1, <2>2
<1>6. s < SlotsOfDay
  <2> SUFFICES ASSUME ~(s < SlotsOfDay) PROVE FALSE
    OBVIOUS
  <2>1. CASE s = SlotsOfDay
    BY <1>1, <2>1
  <2>2. CASE SlotsOfDay < s
    <3>1. L + SlotLength <= SlotLength * s
      BY <1>1, <1>2, <2>2, TimesMonotone
    <3> QED
      BY <1>1, <1>2, <3>1
  <2> QED
    BY <1>1, <1>2, <2>1, <2>2
<1>7. SlotLength * s + SlotLength <= L
  BY <1>1, <1>2, <1>6, TimesMonotone
<1> QED
  BY <1>5, <1>7 DEF s, L

(* A departure of a service day lies in the slot of an instant if it is    *)
(* within it by the clock, on that day or after midnight.                  *)
LEMMA DepartureSlot ==
  ASSUME EstimateSettings, NEW a \in Int, NEW departure \in Nat,
         departure < 2 * Estimates!DayLength
  PROVE  LET L == Estimates!DayLength
             start == Estimates!SlotOf(a) * SlotLength
             day == IF departure < L THEN 0 ELSE 1
         IN /\ Estimates!DateOf(departure) = day
            /\ Estimates!SlotOf(departure) = Estimates!SlotOf(a)
                 <=> departure - day * L \in start..(start + SlotLength - 1)
<1> DEFINE L == Estimates!DayLength
           s == Estimates!SlotOf(a)
           start == s * SlotLength
           day == IF departure < L THEN 0 ELSE 1
           r == departure - day * L
<1>1. /\ L \in Nat \ {0} /\ s \in Int /\ SlotLength * s \in Int /\ SlotLength * s = start
  BY DayFacts
<1>2. SlotLength \in Nat \ {0}
  BY DEF EstimateSettings
<1> HIDE DEF L, s, start
<1>3. day \in Int /\ L * day = day * L /\ L * day \in Int /\ r \in 0..(L - 1)
  <2>1. L * 0 = 0 /\ L * 1 = L /\ 0 * L = 0 /\ 1 * L = L
    BY <1>1, Z3
  <2> QED
    BY <1>1, <2>1 DEF L
<1> HIDE DEF day
<1>4. departure \div L = day
  <2>1. L * day <= departure /\ departure < L * day + L
    BY <1>1, <1>3
  <2> QED
    BY <1>1, <1>3, <2>1, QuotientIs
<1>5. departure % L = r
  <2>1. departure = L * (departure \div L) + (departure % L) /\ departure % L \in 0..(L - 1)
    BY <1>1, ModFacts
  <2> QED
    BY <1>1, <1>3, <1>4, <2>1
<1>6. Estimates!DateOf(departure) = day /\ Estimates!SlotOf(departure) = r \div SlotLength
  BY <1>4, <1>5 DEF Estimates!DateOf, Estimates!SlotOf, L
<1>7. r \in Int
  BY <1>3
<1> HIDE DEF r
<1>8. /\ r \div SlotLength \in Int /\ SlotLength * (r \div SlotLength) \in Int
      /\ SlotLength * (r \div SlotLength) <= r
      /\ r < SlotLength * (r \div SlotLength) + SlotLength
  BY <1>2, <1>7, DivFacts
<1>9. ASSUME r \div SlotLength = s PROVE r \in start..(start + SlotLength - 1)
  BY <1>1, <1>2, <1>7, <1>8, <1>9
<1>10. ASSUME r \in start..(start + SlotLength - 1) PROVE r \div SlotLength = s
  <2>1. SlotLength * s <= r /\ r < SlotLength * s + SlotLength
    BY <1>1, <1>2, <1>7, <1>10
  <2> QED
    BY <1>1, <1>2, <1>7, <2>1, QuotientIs
<1> QED
  BY <1>6, <1>9, <1>10 DEF L, s, start, day, r

(* The dates an offset can lead to, and that none departs late enough to   *)
(* be looked for two days before.                                          *)
LEMMA OffsetDates ==
  ASSUME EstimateSettings, NEW at \in Int, NEW i \in DOMAIN Offsets,
         NEW departure \in Nat, departure < 2 * Estimates!DayLength + Offsets[i]
  PROVE  LET L == Estimates!DayLength
             x == at + Offsets[i]
             start == Estimates!SlotOf(x) * SlotLength
         IN /\ x \in Int
            /\ Estimates!DateOf(x) \in (Estimates!DateOf(at) - 1)..(Estimates!DateOf(at) + 1)
            /\ Estimates!DateOf(x) < Estimates!DateOf(at) => departure - L < start
<1> DEFINE L == Estimates!DayLength
           x == at + Offsets[i]
           d == Estimates!DateOf(at)
           e == Estimates!DateOf(x)
           s == Estimates!SlotOf(x)
           start == s * SlotLength
           r == at % L
           q == x % L
<1>1. PICK k \in Int : Offsets[i] = SlotLength * k
  <2>1. SlotLength \in Nat \ {0} /\ Offsets[i] \in Int /\ Offsets[i] % SlotLength = 0
    BY DEF EstimateSettings
  <2>2. Offsets[i] \div SlotLength \in Int
    BY <2>1, DivFacts
  <2>3. Offsets[i] = SlotLength * (Offsets[i] \div SlotLength) + (Offsets[i] % SlotLength)
    BY <2>1, ModFacts
  <2>4. SlotLength * (Offsets[i] \div SlotLength) \in Int
    BY <2>1, DivFacts
  <2>5. Offsets[i] = SlotLength * (Offsets[i] \div SlotLength)
    BY <2>1, <2>3, <2>4
  <2> QED
    BY <2>2, <2>5
<1>2. SlotLength \in Nat \ {0} /\ SlotsOfDay \in Nat \ {0} /\ -L <= Offsets[i] /\ Offsets[i] <= L
  BY DEF EstimateSettings
<1>3. Offsets[i] \in Int /\ x \in Int
  BY <1>1, <1>2, Z3
<1>4. /\ L \in Nat \ {0} /\ L = SlotLength * SlotsOfDay
      /\ d \in Int /\ L * d \in Int /\ r \in 0..(L - 1) /\ at = L * d + r
  BY DayFacts
<1>5. /\ e \in Int /\ L * e \in Int /\ q \in 0..(L - 1) /\ x = L * e + q
      /\ s \in Int /\ SlotLength * s \in Int /\ SlotLength * s = start
      /\ SlotLength * s <= q /\ q < SlotLength * s + SlotLength
  BY <1>3, DayFacts
<1> DEFINE o == Offsets[i]
<1>6. o \in Int /\ o = SlotLength * k /\ x = at + o /\ -L <= o /\ o <= L /\ departure < 2 * L + o
  BY <1>1, <1>2, <1>3
<1> HIDE DEF L, x, d, e, s, start, r, q, o
<1>7. L * (d + 1) = L * d + L /\ L * (d - 1) = L * d - L
  BY <1>4, Z3
<1>8. ~(e < d - 1)
  <2> SUFFICES ASSUME e < d - 1 PROVE FALSE
    OBVIOUS
  <2>1. L * e + L <= L * (d - 1)
    BY <1>4, <1>5, TimesMonotone
  <2> QED
    BY <1>4, <1>5, <1>6, <1>7, <2>1
<1>9. ~(d + 1 < e)
  <2> SUFFICES ASSUME d + 1 < e PROVE FALSE
    OBVIOUS
  <2>1. L * (d + 1) + L <= L * e
    BY <1>4, <1>5, TimesMonotone
  <2> QED
    BY <1>4, <1>5, <1>6, <1>7, <2>1
<1>10. ASSUME e < d PROVE departure - L < start
  <2>1. e = d - 1
    BY <1>4, <1>5, <1>8, <1>10
  <2>2. q >= L + o
    BY <1>4, <1>5, <1>6, <1>7, <2>1
  <2>3. SlotLength * (SlotsOfDay + k) = L + o /\ SlotsOfDay + k \in Int
    BY <1>2, <1>4, <1>6, Z3
  <2>4. ~(s < SlotsOfDay + k)
    <3> SUFFICES ASSUME s < SlotsOfDay + k PROVE FALSE
      OBVIOUS
    <3>1. SlotLength * s + SlotLength <= SlotLength * (SlotsOfDay + k)
      BY <1>2, <1>5, <2>3, TimesMonotone
    <3> QED
      BY <1>2, <1>4, <1>5, <1>6, <2>2, <2>3, <3>1
  <2>c. s = SlotsOfDay + k \/ SlotsOfDay + k < s
    BY <1>2, <1>5, <2>4, k \in Int, SlotsOfDay \in Int
  <2>5. SlotLength * s >= L + o
    <3>1. CASE s = SlotsOfDay + k
      <4>1. SlotLength * s = L + o
        BY <2>3, <3>1
      <4>2. L \in Int /\ o \in Int
        BY <1>4, <1>6
      <4> QED
        BY <4>1, <4>2
    <3>2. CASE SlotsOfDay + k < s
      <4>1. SlotLength * (SlotsOfDay + k) + SlotLength <= SlotLength * s
        BY <1>2, <1>5, <2>3, <3>2, TimesMonotone
      <4>2. L + o \in Int /\ SlotLength * s \in Int /\ SlotLength \in Nat
        BY <1>2, <1>4, <1>5, <1>6
      <4>3. L + o + SlotLength <= SlotLength * s
        BY <2>3, <4>1
      <4> QED
        BY <4>2, <4>3
    <3> QED
      BY <2>c, <3>1, <3>2
  <2> QED
    BY <1>4, <1>5, <1>6, <2>5
<1>11. e \in (d - 1)..(d + 1)
  BY <1>4, <1>5, <1>8, <1>9
<1> QED
  BY <1>3, <1>10, <1>11 DEF L, x, d, e, s, start

(* The catalog groups the departures of a slot as the query selects them.  *)
LEMMA SlotAgrees ==
  ASSUME EstimateSettings, NEW schedule, Timetable(schedule), NEW queried \in Int, NEW at \in Int,
         Estimates!DateOf(at) = Estimates!DateOf(queried), NEW i \in DOMAIN Offsets
  PROVE  Estimates!PlannedSlot(at + Offsets[i], schedule) =
           Estimates!PlannedGroup(queried, schedule, Estimates!DateOf(at + Offsets[i]),
                                  Estimates!SlotOf(at + Offsets[i]))
<1> DEFINE L == Estimates!DayLength
           D == Estimates!DateOf(queried)
           x == at + Offsets[i]
           date == Estimates!DateOf(x)
           slot == Estimates!SlotOf(x)
           start == slot * SlotLength
           within == start..(start + SlotLength - 1)
           Today == {<<t, date>> : t \in {t \in schedule : date \in t.dates /\ t.departure \in within}}
           Late == {<<t, date - 1>> : t \in {t \in schedule : (date - 1) \in t.dates
                                                             /\ t.departure - L \in within}}
           Group == {p \in schedule \X ((D - 1)..(D + 2)) :
                       /\ p[2] \in p[1].dates
                       /\ p[2] + Estimates!DateOf(p[1].departure) = date
                       /\ Estimates!SlotOf(p[1].departure) = slot}
<1>1. L \in Nat \ {0} /\ D \in Int /\ SlotLength \in Nat \ {0}
  BY DayFacts DEF EstimateSettings
<1>2. x \in Int
  BY DEF EstimateSettings
<1>3. /\ date \in Int /\ slot \in Int /\ start \in Int
      /\ 0 <= start /\ start + SlotLength <= L
  BY <1>2, DayFacts, SlotBounds
<1>4. ASSUME NEW t \in schedule
      PROVE  /\ t.departure \in Nat /\ t.departure < 2 * L
             /\ date \in (D - 1)..(D + 1)
             /\ date < D => t.departure - L < start
             /\ Estimates!DateOf(t.departure) = IF t.departure < L THEN 0 ELSE 1
             /\ Estimates!SlotOf(t.departure) = slot
                  <=> t.departure - (IF t.departure < L THEN 0 ELSE 1) * L \in within
  <2>1. /\ t.departure \in Nat /\ t.departure < 2 * L /\ t.departure < 2 * L + Offsets[i]
    BY DEF Timetable
  <2>2. date \in (D - 1)..(D + 1) /\ (date < D => t.departure - L < start)
    BY <2>1, OffsetDates
  <2>3. /\ Estimates!DateOf(t.departure) = IF t.departure < L THEN 0 ELSE 1
        /\ Estimates!SlotOf(t.departure) = slot
             <=> t.departure - (IF t.departure < L THEN 0 ELSE 1) * L \in within
    BY <1>2, <2>1, DepartureSlot
  <2> QED
    BY <2>1, <2>2, <2>3
<1> HIDE DEF L, D, x, date, slot, start
<1>5. 0 * L = 0 /\ 1 * L = L
  BY <1>1, Z3
<1>6. ASSUME NEW t \in schedule
      PROVE  /\ Estimates!DateOf(t.departure) \in {0, 1}
             /\ t.departure \in within <=>
                  Estimates!DateOf(t.departure) = 0 /\ Estimates!SlotOf(t.departure) = slot
             /\ t.departure - L \in within <=>
                  Estimates!DateOf(t.departure) = 1 /\ Estimates!SlotOf(t.departure) = slot
             /\ date \in (D - 1)..(D + 1)
             /\ t.departure - L \in within => D <= date
  <2>1. CASE t.departure < L
    BY <1>1, <1>3, <1>4, <1>5, <2>1
  <2>2. CASE ~(t.departure < L)
    BY <1>1, <1>3, <1>4, <1>5, <2>2
  <2> QED
    BY <2>1, <2>2
<1> HIDE DEF within
<1>7. ASSUME NEW p \in Today PROVE p \in Group
  <2>1. PICK t \in schedule : p = <<t, date>> /\ date \in t.dates /\ t.departure \in within
    OBVIOUS
  <2>2. Estimates!DateOf(t.departure) = 0 /\ Estimates!SlotOf(t.departure) = slot
    BY <1>6, <2>1
  <2>3. date \in (D - 1)..(D + 2)
    BY <1>1, <1>3, <1>6
  <2> QED
    BY <1>3, <2>1, <2>2, <2>3
<1>8. ASSUME NEW p \in Late PROVE p \in Group
  <2>1. PICK t \in schedule : p = <<t, date - 1>> /\ (date - 1) \in t.dates
                              /\ t.departure - L \in within
    OBVIOUS
  <2>2. Estimates!DateOf(t.departure) = 1 /\ Estimates!SlotOf(t.departure) = slot
    BY <1>6, <2>1
  <2>3. date - 1 \in (D - 1)..(D + 2) /\ date - 1 + 1 = date
    BY <1>1, <1>3, <1>6, <2>1
  <2> QED
    BY <2>1, <2>2, <2>3
<1>9. ASSUME NEW p \in Group PROVE p \in Today \cup Late
  <2>1. PICK t \in schedule, e \in (D - 1)..(D + 2) : p = <<t, e>>
    OBVIOUS
  <2>2. /\ e \in t.dates /\ e + Estimates!DateOf(t.departure) = date
        /\ Estimates!SlotOf(t.departure) = slot
    BY <2>1
  <2>3. e \in Int
    BY <1>1
  <2>4. CASE Estimates!DateOf(t.departure) = 0
    <3>1. e = date
      BY <2>2, <2>3, <2>4
    <3>2. t.departure \in within
      BY <1>6, <2>2, <2>4
    <3> QED
      BY <2>1, <2>2, <3>1, <3>2
  <2>5. CASE Estimates!DateOf(t.departure) = 1
    <3>1. e = date - 1
      BY <2>2, <2>3, <2>5
    <3>2. t.departure - L \in within
      BY <1>6, <2>2, <2>5
    <3> QED
      BY <2>1, <2>2, <3>1, <3>2
  <2> QED
    BY <1>6, <2>4, <2>5
<1>10. Today \cup Late = Group
  BY <1>7, <1>8, <1>9
<1> QED
  BY <1>10 DEF Estimates!PlannedSlot, Estimates!PlannedGroup, L, D, x, date, slot, start, within

(* What a catalog and a query give at an instant, if they read the same    *)
(* live row.                                                               *)
LEMMA AgreesAt ==
  ASSUME EstimateSettings, NEW schedule, Timetable(schedule), NEW rows, NEW own,
         NEW row, row # NoRow => row.start \in Int,
         NEW queried \in Int, NEW at \in Int, queried <= at,
         Estimates!DateOf(at) = Estimates!DateOf(queried),
         at = queried \/ Estimates!LiveRead(row, queried) = row
  PROVE  Estimates!Agrees(queried, at, row, rows, schedule, own)
<1> DEFINE history == Estimates!Historical(at, Estimates!ProfilesRead(rows, at))
           read == Estimates!LiveRead(row, at)
           fresh == read # NoRow /\ at - (read.start + SlotLength) <= LiveMaxAge
           first == Estimates!PlannedQuery(at, schedule)
           planned == Estimates!PlannedCandidate(queried, at, schedule, own)
<1>1. Estimates!LiveRead(row, queried) = read
  BY DEF Estimates!LiveRead
<1>2. Estimates!ProfilesRead(rows, queried) = Estimates!ProfilesRead(rows, at)
  BY DEF Estimates!ProfilesRead
<1>3. planned = IF first # NoRow THEN first ELSE own
  <2>1. [i \in DOMAIN Offsets |-> Estimates!PlannedSlot(at + Offsets[i], schedule)] =
        [i \in DOMAIN Offsets |->
           Estimates!PlannedGroup(queried, schedule, Estimates!DateOf(at + Offsets[i]),
                                  Estimates!SlotOf(at + Offsets[i]))]
    BY SlotAgrees
  <2> QED
    BY <2>1 DEF Estimates!PlannedCandidate, Estimates!PlannedQuery
<1>4. Estimates!CatalogEstimate(queried, at, row, rows, schedule, own) =
        Estimates!Resolve(at, read, history, planned)
  BY <1>1, <1>2 DEF Estimates!CatalogEstimate
<1>5. Estimates!QueryEstimate(at, row, rows, schedule) =
        IF Estimates!Resolve(at, read, history, NoRow) # Estimates!Unavailable
        THEN Estimates!Resolve(at, read, history, NoRow)
        ELSE Estimates!Resolve(at, NoRow, history, first)
  BY DEF Estimates!QueryEstimate
<1> HIDE DEF history, read, first, planned
<1>6. CASE fresh
  <2>1. \A p : Estimates!Resolve(at, read, history, p) = [source |-> "live", of |-> read]
    BY <1>6 DEF Estimates!Resolve
  <2> QED
    BY <1>4, <1>5, <2>1 DEF Estimates!Agrees, Estimates!Unavailable
<1>7. CASE ~fresh /\ history # {}
  <2>1. \A p : Estimates!Resolve(at, read, history, p) =
                 [source |-> "historical", of |-> Estimates!Nearest(history)]
    BY <1>7 DEF Estimates!Resolve
  <2> QED
    BY <1>4, <1>5, <2>1 DEF Estimates!Agrees, Estimates!Unavailable
<1>8. CASE ~fresh /\ history = {}
  <2>1. \A p : Estimates!Resolve(at, read, history, p) =
                 IF p # NoRow THEN [source |-> "gtfs_planned", of |-> p] ELSE Estimates!Unavailable
    BY <1>8 DEF Estimates!Resolve
  <2>2. Estimates!Resolve(at, NoRow, history, first) =
          IF first # NoRow THEN [source |-> "gtfs_planned", of |-> first] ELSE Estimates!Unavailable
    BY <1>8 DEF Estimates!Resolve
  <2>3. Estimates!QueryEstimate(at, row, rows, schedule) =
          IF first # NoRow THEN [source |-> "gtfs_planned", of |-> first] ELSE Estimates!Unavailable
    BY <1>5, <2>1, <2>2
  <2>4. CASE first # NoRow
    <3> DEFINE estimate == [source |-> "gtfs_planned", of |-> first]
    <3>1. Estimates!QueryEstimate(at, row, rows, schedule) = estimate
      BY <2>3, <2>4
    <3>2. Estimates!CatalogEstimate(queried, at, row, rows, schedule, own) = estimate
      BY <1>3, <1>4, <2>1, <2>4
    <3>3. estimate # Estimates!Unavailable
      BY DEF Estimates!Unavailable
    <3> QED
      BY <3>1, <3>2, <3>3 DEF Estimates!Agrees
  <2>5. CASE first = NoRow
    <3>1. Estimates!QueryEstimate(at, row, rows, schedule) = Estimates!Unavailable /\ planned = own
      BY <1>3, <2>3, <2>5
    <3>2. Estimates!Resolve(at, read, history, own).of = own
      BY <2>1 DEF Estimates!Unavailable
    <3> QED
      BY <1>4, <3>1, <3>2 DEF Estimates!Agrees
  <2> QED
    BY <2>4, <2>5
<1> QED
  BY <1>6, <1>7, <1>8

(* For any rows and any timetable. *)
LEMMA AgreesUntilMidnight ==
  ASSUME EstimateSettings, NEW schedule, Timetable(schedule), NEW rows, NEW own,
         NEW row, row # NoRow => row.start \in Int, NEW queried \in Int
  PROVE  Estimates!CatalogAgreesWithQuery(queried, row, rows, schedule, own)
<1> DEFINE L == Estimates!DayLength
           D == Estimates!DateOf(queried)
<1>1. L \in Nat \ {0} /\ D \in Int /\ L * D \in Int /\ L * D <= queried /\ queried < L * D + L
  BY DayFacts
<1>2. ASSUME NEW at \in queried..(L * (D + 1) - 1)
      PROVE  at \in Int /\ queried <= at /\ Estimates!DateOf(at) = D
  <2> HIDE DEF L, D
  <2>1. L * (D + 1) = L * D + L
    BY <1>1, Z3
  <2>2. at \in Int /\ queried <= at /\ L * D <= at /\ at < L * D + L
    BY <1>1, <2>1
  <2>3. at \div L = D
    BY <1>1, <2>2, QuotientIs
  <2> QED
    BY <2>2, <2>3 DEF Estimates!DateOf, L
<1>3. CASE Estimates!LiveRead(row, queried) = row
  BY <1>2, <1>3, AgreesAt DEF Estimates!CatalogAgreesWithQuery
<1>4. CASE Estimates!LiveRead(row, queried) # row
  BY <1>4, AgreesAt DEF Estimates!CatalogAgreesWithQuery
<1> QED
  BY <1>3, <1>4

(* A trial has read rows, and trips of the timetable. *)
TrialInv ==
  trial # <<>> =>
    /\ trial[1] \in Loaded /\ trial[2] \in LiveRows
    /\ trial[4] \in SUBSET Traversals

(* A catalog loaded for a segment gives, at every later instant of the     *)
(* service date, the estimate the API gives at that instant, or falls back *)
(* on the vehicle's own trip where the API has none                        *)
(* (SegmentEstimateCatalog.resolve and query_segment_estimates).           *)
THEOREM CatalogAgrees == MCSpec => []CatalogAgreesWithQuery
<1>1. MCInit => TrialInv
  BY DEF MCInit, TrialInv
<1>2. TrialInv /\ [MCNext]_<<vars, trial, judged>> => TrialInv'
  BY DEF TrialInv, MCNext, Measure, Judge, Try
<1>3. TrialInv => CatalogAgreesWithQuery
  <2> SUFFICES ASSUME TrialInv, trial # <<>>, NEW own
               PROVE  Estimates!CatalogAgreesWithQuery(trial[1], trial[2], trial[3], trial[4], own)
    BY DEF CatalogAgreesWithQuery
  <2>1. trial[1] \in Int /\ (trial[2] # NoRow => trial[2].start \in Int)
    BY EstimatesAssumption DEF TrialInv
  <2>2. EstimateSettings /\ Timetable(trial[4])
    BY EstimatesAssumption DEF TrialInv, Timetable
  <2> QED
    BY <2>1, <2>2, AgreesUntilMidnight
<1> QED
  BY <1>1, <1>2, <1>3, PTL DEF MCSpec
=============================================================================
