------------------------ MODULE CittatiWorkerProofs ------------------------
(***************************************************************************)
(* For any backoff settings, any number of days, outages, crashes and      *)
(* revoked tokens: the types of the worker, that it correlates vehicles    *)
(* with the trips of the date of its cycle, that it never takes a cycle    *)
(* for a good one whose second transaction failed, and that what it waits  *)
(* after a failure depends on the streak of failures alone.                *)
(***************************************************************************)
EXTENDS CittatiWorker, WellFoundedInduction, TLAPS

(* From opening the run to applying the positions the index is the one of  *)
(* the date of the cycle.                                                  *)
IndexOfCycle == pc \in {"open", "session", "fetch", "apply"} => indexDate = cycleDate

IInv == TypeOK /\ IndexOfCycle /\ GoodCyclesAreWhole

(* The two halves of TypeOK: the provers take numbers and truth values one *)
(* at a time.                                                              *)
Numbers ==
  /\ backoff \in RetryInitial..RetryMax /\ delay \in 0..RetryMax
  /\ failures \in 0..MaxFailures
  /\ today \in 0..MaxDay /\ cycleDate \in 0..today /\ indexDate \in -1..today
  /\ trouble \in 0..MaxTrouble

Flags ==
  /\ pc \in {"down", "head", "warm", "open", "session", "fetch", "apply", "snapshot",
             "waiting", "stopped"}
  /\ stopping \in BOOLEAN
  /\ token \in {"none", "good", "revoked"} /\ expired \in BOOLEAN
  /\ run \in {"none", "failed", "succeeded"} /\ unrefreshed \in BOOLEAN
  /\ source \in BOOLEAN /\ database \in BOOLEAN

LEMMA Halves == TypeOK <=> Numbers /\ Flags
  BY DEF TypeOK, Numbers, Flags

LEMMA HalvesNext == TypeOK' <=> Numbers' /\ Flags'
  BY DEF TypeOK, Numbers, Flags

(* The settings, without their relation to MaxFailures. *)
LEMMA Settings ==
  /\ RetryInitial \in Nat \ {0} /\ RetryMax \in Nat /\ RetryMax >= RetryInitial
  /\ MaxDay \in Nat /\ MaxTrouble \in Nat /\ MaxFailures \in Nat \ {0}
  BY WorkerAssumption

(* How an iteration of the loop ends.                                      *)
LEMMA ScheduleFacts ==
  ASSUME TypeOK, NEW succeeded \in BOOLEAN, Schedule(succeeded)
  PROVE  /\ pc' \in {"head", "waiting"} /\ stopping' \in BOOLEAN
         /\ backoff' \in RetryInitial..RetryMax /\ delay' \in 0..RetryMax
         /\ failures' \in 0..MaxFailures
         /\ succeeded \/ failures' # 0
<1>1. /\ backoff \in RetryInitial..RetryMax /\ failures \in 0..MaxFailures
      /\ RetryInitial \in Nat \ {0} /\ RetryMax \in Nat /\ RetryMax >= RetryInitial
      /\ MaxFailures \in Nat \ {0} /\ stopping \in BOOLEAN
  BY Settings DEF TypeOK
<1>2. /\ pc' \in {"head", "waiting"} /\ stopping' \in BOOLEAN
  BY <1>1 DEF Schedule
<1>3. Lesser(backoff, RetryMax) \in 0..RetryMax
  BY <1>1 DEF Lesser
<1>4. Lesser(backoff * 2, RetryMax) \in RetryInitial..RetryMax
  BY <1>1 DEF Lesser
<1>5. Lesser(failures + 1, MaxFailures) \in 1..MaxFailures
  BY <1>1 DEF Lesser
<1> QED
  BY <1>1, <1>2, <1>3, <1>4, <1>5 DEF Schedule

LEMMA InitIInv == Init => IInv
<1> SUFFICES ASSUME Init PROVE IInv
  OBVIOUS
<1>1. /\ pc = "down" /\ backoff \in RetryInitial..RetryMax /\ delay \in 0..RetryMax
      /\ failures \in 0..MaxFailures /\ today \in 0..MaxDay /\ cycleDate \in 0..today
      /\ indexDate \in -1..today /\ trouble \in 0..MaxTrouble
  BY Settings DEF Init
<1>2. /\ stopping \in BOOLEAN /\ expired \in BOOLEAN /\ unrefreshed \in BOOLEAN
      /\ source \in BOOLEAN /\ database \in BOOLEAN /\ token = "none" /\ run = "none"
  BY DEF Init
<1> QED
  BY <1>1, <1>2 DEF IInv, TypeOK, IndexOfCycle, GoodCyclesAreWhole

LEMMA NextIInv == IInv /\ [Next]_vars => IInv'
<1> SUFFICES ASSUME IInv, [Next]_vars PROVE IInv'
  OBVIOUS
<1> USE Settings DEF IInv
<1>f. ASSUME Fail
      PROVE  /\ pc' \in {"head", "waiting"} /\ stopping' \in BOOLEAN
             /\ backoff' \in RetryInitial..RetryMax /\ delay' \in 0..RetryMax
             /\ failures' \in 0..MaxFailures /\ failures' # 0
  <2>1. FALSE \in BOOLEAN /\ Schedule(FALSE) /\ TypeOK
    BY <1>f DEF Fail
  <2> QED
    BY ONLY <2>1, ScheduleFacts, Zenon
<1>1. CASE Start
  <2>1. Numbers'
    BY <1>1, Halves DEF Numbers, Start, store, world
  <2>2. Flags'
    BY <1>1, Halves, Zenon DEF Flags, Start, store, world
  <2>3. IndexOfCycle' /\ GoodCyclesAreWhole'
    BY <1>1 DEF IndexOfCycle, GoodCyclesAreWhole, Start, store, world
  <2> QED
    BY <2>1, <2>2, <2>3, HalvesNext
<1>2. CASE Head
  BY <1>2 DEF Head, loop, session, store, world, TypeOK, IndexOfCycle, GoodCyclesAreWhole
<1>3. CASE Warm
  BY <1>3, <1>f DEF Warm, loop, session, store, world, TypeOK, IndexOfCycle,
                    GoodCyclesAreWhole
<1>4. CASE OpenRun
  BY <1>4, <1>f DEF OpenRun, loop, session, dates, store, world, TypeOK, IndexOfCycle,
                    GoodCyclesAreWhole
<1>5. CASE SessionToken
  <2>1. Numbers'
    BY <1>5, <1>f, Halves DEF Numbers, SessionToken, RecordFailure, loop, session, dates, store, world
  <2>2. Flags'
    BY <1>5, <1>f, Halves, Zenon DEF Flags, SessionToken, RecordFailure, loop, session, dates, store, world
  <2>3. IndexOfCycle' /\ GoodCyclesAreWhole'
    BY <1>5, <1>f DEF IndexOfCycle, GoodCyclesAreWhole, SessionToken, RecordFailure, loop, session, dates, store, world
  <2> QED
    BY <2>1, <2>2, <2>3, HalvesNext
<1>6. CASE Fetch
  BY <1>6, <1>f DEF Fetch, RecordFailure, loop, session, dates, store, world, TypeOK,
                    IndexOfCycle, GoodCyclesAreWhole
<1>7. CASE Apply
  <2>1. Numbers'
    BY <1>7, <1>f, Halves DEF Numbers, Apply, loop, session, dates, store, world
  <2>2. Flags'
    BY <1>7, <1>f, Halves, Zenon DEF Flags, Apply, loop, session, dates, store, world
  <2>3. IndexOfCycle' /\ GoodCyclesAreWhole'
    BY <1>7, <1>f DEF IndexOfCycle, GoodCyclesAreWhole, Apply, loop, session, dates, store, world
  <2> QED
    BY <2>1, <2>2, <2>3, HalvesNext
<1>8. CASE Snapshot
  <2>1. database \in BOOLEAN /\ Schedule(database)
    BY <1>8 DEF Snapshot, TypeOK
  <2>2. /\ pc' \in {"head", "waiting"} /\ stopping' \in BOOLEAN
        /\ backoff' \in RetryInitial..RetryMax /\ delay' \in 0..RetryMax
        /\ failures' \in 0..MaxFailures
        /\ database \/ failures' # 0
    BY <2>1, ScheduleFacts
  <2>3. unrefreshed' \in BOOLEAN /\ (unrefreshed' => ~database)
    BY <1>8 DEF Snapshot, TypeOK
  <2>4. TypeOK' /\ IndexOfCycle'
    BY <1>8, <2>2, <2>3 DEF Snapshot, session, dates, world, TypeOK, IndexOfCycle
  <2> QED
    BY <2>2, <2>3, <2>4 DEF GoodCyclesAreWhole
<1>9. CASE Wake
  BY <1>9 DEF Wake, loop, session, dates, store, world, TypeOK, IndexOfCycle,
              GoodCyclesAreWhole
<1>10. CASE Terminate
  BY <1>10 DEF Terminate, session, dates, store, world, TypeOK, IndexOfCycle,
               GoodCyclesAreWhole
<1>11. CASE Crash
  <2>1. Numbers'
    BY <1>11, Halves DEF Numbers, Crash, session, dates, store
  <2>2. Flags'
    BY <1>11, Halves, Zenon DEF Flags, Crash, session, dates, store
  <2>3. IndexOfCycle' /\ GoodCyclesAreWhole'
    BY <1>11 DEF IndexOfCycle, GoodCyclesAreWhole, Crash, session, dates, store
  <2> QED
    BY <2>1, <2>2, <2>3, HalvesNext
<1>12. CASE Outage
  <2>1. Numbers'
    BY <1>12, Halves DEF Numbers, Outage, loop, session, dates, store
  <2>2. Flags'
    BY <1>12, Halves, Zenon DEF Flags, Outage, loop, session, dates, store
  <2>3. IndexOfCycle' /\ GoodCyclesAreWhole'
    BY <1>12 DEF IndexOfCycle, GoodCyclesAreWhole, Outage, loop, session, dates, store
  <2> QED
    BY <2>1, <2>2, <2>3, HalvesNext
<1>13. CASE Repair
  <2>1. Numbers'
    BY <1>13, Halves DEF Numbers, Repair, loop, session, dates, store
  <2>2. Flags'
    BY <1>13, Halves, Zenon DEF Flags, Repair, loop, session, dates, store
  <2>3. IndexOfCycle' /\ GoodCyclesAreWhole'
    BY <1>13 DEF IndexOfCycle, GoodCyclesAreWhole, Repair, loop, session, dates, store
  <2> QED
    BY <2>1, <2>2, <2>3, HalvesNext
<1>14. CASE Revoke
  BY <1>14 DEF Revoke, loop, dates, store, TypeOK, IndexOfCycle, GoodCyclesAreWhole
<1>15. CASE TokenAges
  BY <1>15 DEF TokenAges, loop, dates, store, world, TypeOK, IndexOfCycle,
               GoodCyclesAreWhole
<1>16. CASE Midnight
  BY <1>16 DEF Midnight, loop, session, store, world, TypeOK, IndexOfCycle,
               GoodCyclesAreWhole
<1>17. CASE UNCHANGED vars
  BY <1>17 DEF vars, loop, session, dates, store, world, TypeOK, IndexOfCycle,
               GoodCyclesAreWhole
<1> QED
  BY <1>1, <1>2, <1>3, <1>4, <1>5, <1>6, <1>7, <1>8, <1>9, <1>10, <1>11, <1>12, <1>13,
     <1>14, <1>15, <1>16, <1>17 DEF Next, Step

(* The types of the worker, its backoff within the settings included.      *)
THEOREM WorkerTypes == Spec => []TypeOK
<1>1. Spec => []IInv
  BY InitIInv, NextIInv, PTL DEF Spec
<1> QED
  BY <1>1, PTL DEF IInv

(* Vehicles are correlated with the trips of the date the cycle began on.  *)
THEOREM WorkerCorrelatesWithItsDate == Spec => []CorrelatesWithItsDate
<1>1. Spec => []IInv
  BY InitIInv, NextIInv, PTL DEF Spec
<1>2. IInv => CorrelatesWithItsDate
  BY DEF IInv, IndexOfCycle, CorrelatesWithItsDate
<1> QED
  BY <1>1, <1>2, PTL

(* A cycle counted as good has committed both its transactions.            *)
THEOREM CyclesAreWhole == Spec => []GoodCyclesAreWhole
<1>1. Spec => []IInv
  BY InitIInv, NextIInv, PTL DEF Spec
<1> QED
  BY <1>1, PTL DEF IInv

-----------------------------------------------------------------------------
(* Induction over the numbers, for a property given as a set. *)
LEMMA Induction ==
  ASSUME NEW P \in SUBSET Nat, 0 \in P, \A n \in P : n + 1 \in P
  PROVE  P = Nat
<1> SUFFICES ASSUME Nat \ P # {} PROVE FALSE
  OBVIOUS
<1>1. PICK least \in Nat \ P : \A n \in Nat \ P : ~(<<n, least>> \in OpToRel(<, Nat))
  BY NatLessThanWellFounded, WFMin
<1>2. \A n \in Nat \ P : ~(n < least)
  BY <1>1 DEF OpToRel
<1>3. least # 0
  OBVIOUS
<1>4. least - 1 \in P
  BY <1>2, <1>3
<1>5. (least - 1) + 1 \in P
  BY <1>4
<1> QED
  BY <1>5

(* Doubled is what its recursion says. *)
Doubles(f, m) == f[0] = RetryInitial /\ \A n \in 1..m : f[n] = 2 * f[n - 1]

LEMMA DoubledFacts ==
  /\ Doubled \in [0..MaxFailures -> Nat]
  /\ Doubles(Doubled, MaxFailures)
<1> USE Settings
<1> DEFINE P == {m \in Nat : \E f \in [0..m -> Nat] : Doubles(f, m)}
<1>1. 0 \in P
  <2>1. [n \in 0..0 |-> RetryInitial] \in [0..0 -> Nat]
    OBVIOUS
  <2>2. Doubles([n \in 0..0 |-> RetryInitial], 0)
    BY DEF Doubles
  <2> QED
    BY <2>1, <2>2
<1>2. ASSUME NEW m \in P PROVE m + 1 \in P
  <2>1. PICK f \in [0..m -> Nat] : Doubles(f, m)
    OBVIOUS
  <2> DEFINE g == [n \in 0..(m + 1) |-> IF n = m + 1 THEN 2 * f[m] ELSE f[n]]
  <2>2. g \in [0..(m + 1) -> Nat]
    <3>1. \A n \in 0..(m + 1) : n = m + 1 \/ n \in 0..m
      OBVIOUS
    <3>2. f[m] \in Nat
      OBVIOUS
    <3> QED
      BY <3>1, <3>2
  <2>3. Doubles(g, m + 1)
    <3>1. g[0] = RetryInitial
      BY <2>1 DEF Doubles
    <3>2. ASSUME NEW n \in 1..(m + 1) PROVE g[n] = 2 * g[n - 1]
      <4>1. CASE n = m + 1
        BY <4>1
      <4>2. CASE n \in 1..m
        <5>1. f[n] = 2 * f[n - 1]
          BY <2>1, <4>2 DEF Doubles
        <5> QED
          BY <4>2, <5>1
      <4> QED
        BY <4>1, <4>2
    <3> QED
      BY <3>1, <3>2 DEF Doubles
  <2> HIDE DEF g
  <2>4. m + 1 \in Nat
    OBVIOUS
  <2> QED
    BY <2>2, <2>3, <2>4
<1>3. MaxFailures \in P
  <2>1. P \in SUBSET Nat
    OBVIOUS
  <2> HIDE DEF P
  <2>2. P = Nat
    BY <1>1, <1>2, <2>1, Induction
  <2> QED
    BY <2>2
<1>4. PICK f \in [0..MaxFailures -> Nat] : Doubles(f, MaxFailures)
  BY <1>3
<1>5. f = [n \in 0..MaxFailures |-> IF n = 0 THEN RetryInitial ELSE 2 * f[n - 1]]
  <2>1. ASSUME NEW n \in 0..MaxFailures PROVE f[n] = IF n = 0 THEN RetryInitial ELSE 2 * f[n - 1]
    BY <1>4 DEF Doubles
  <2> QED
    BY <2>1
<1>6. Doubled = [n \in 0..MaxFailures |-> IF n = 0 THEN RetryInitial ELSE 2 * Doubled[n - 1]]
  BY <1>5 DEF Doubled
<1>7. Doubles(Doubled, MaxFailures)
  <2>1. \A n \in 0..MaxFailures : Doubled[n] = IF n = 0 THEN RetryInitial ELSE 2 * Doubled[n - 1]
    BY <1>6, Zenon
  <2>2. 0 \in 0..MaxFailures /\ \A n \in 1..MaxFailures : n \in 0..MaxFailures /\ n # 0
    OBVIOUS
  <2> QED
    BY <2>1, <2>2 DEF Doubles
<1>8. Doubled \in [0..MaxFailures -> Nat]
  <2> DEFINE Q == {m \in Nat : m <= MaxFailures => Doubled[m] \in Nat}
  <2>1. 0 \in Q
    BY <1>7 DEF Doubles
  <2>2. ASSUME NEW m \in Q PROVE m + 1 \in Q
    <3> SUFFICES ASSUME m + 1 <= MaxFailures PROVE Doubled[m + 1] \in Nat
      OBVIOUS
    <3>1. Doubled[m] \in Nat /\ m + 1 \in 1..MaxFailures
      OBVIOUS
    <3>2. Doubled[m + 1] = 2 * Doubled[m]
      BY <1>7, <3>1 DEF Doubles
    <3> QED
      BY <3>1, <3>2
  <2>3. \A m \in Nat : m <= MaxFailures => Doubled[m] \in Nat
    <3>1. Q \in SUBSET Nat
      OBVIOUS
    <3>2. Q = Nat
      <4> HIDE DEF Q
      <4> QED
        BY <2>1, <2>2, <3>1, Induction
    <3> QED
      BY <3>2
  <2>4. \A m \in 0..MaxFailures : Doubled[m] \in Nat
    BY <2>3
  <2>5. Doubled = [m \in 0..MaxFailures |-> Doubled[m]]
    BY <1>6
  <2> QED
    BY <2>4, <2>5
<1> QED
  BY <1>7, <1>8

(* The backoff has been doubled once for every failure in a row, and a     *)
(* worker waits for as long as it was before the last of them.             *)
BackoffInv ==
  /\ backoff = Lesser(Doubled[failures], RetryMax)
  /\ BackoffFollowsStreak

LEMMA LimitReached ==
  /\ Doubled[MaxFailures - 1] >= RetryMax
  /\ Doubled[MaxFailures] >= RetryMax
<1>1. Doubled[MaxFailures - 1] >= RetryMax
  BY WorkerAssumption
<1>2. MaxFailures \in 1..MaxFailures /\ MaxFailures - 1 \in 0..MaxFailures
  BY Settings
<1>3. Doubled[MaxFailures] = 2 * Doubled[MaxFailures - 1] /\ Doubled[MaxFailures - 1] \in Nat
  BY <1>2, DoubledFacts DEF Doubles
<1> QED
  BY <1>1, <1>3, Settings

LEMMA BackoffSchedule ==
  ASSUME TypeOK, BackoffInv, NEW succeeded \in BOOLEAN, Schedule(succeeded)
  PROVE  BackoffInv'
<1>1. /\ RetryInitial \in Nat \ {0} /\ RetryMax \in Nat /\ RetryMax >= RetryInitial
      /\ MaxFailures \in Nat \ {0} /\ failures \in 0..MaxFailures
  BY Settings DEF TypeOK
<1>2. /\ Doubled[0] = RetryInitial
      /\ \A n \in 0..MaxFailures : Doubled[n] \in Nat
      /\ \A n \in 1..MaxFailures : Doubled[n] = 2 * Doubled[n - 1]
  BY DoubledFacts DEF Doubles
<1>3. backoff = Lesser(Doubled[failures], RetryMax)
  BY DEF BackoffInv
<1>4. CASE succeeded
  <2>1. failures' = 0 /\ backoff' = RetryInitial
    BY <1>4 DEF Schedule
  <2> QED
    BY <1>1, <1>2, <2>1 DEF BackoffInv, BackoffFollowsStreak, Lesser
<1>5. CASE ~succeeded
  <2>1. /\ failures' = Lesser(failures + 1, MaxFailures)
        /\ delay' = Lesser(backoff, RetryMax) /\ backoff' = Lesser(backoff * 2, RetryMax)
    BY <1>5 DEF Schedule
  <2>2. CASE failures = MaxFailures
    <3>1. backoff = RetryMax
      BY <1>1, <1>2, <1>3, <2>2, LimitReached DEF Lesser
    <3>2. failures' = MaxFailures /\ delay' = RetryMax /\ backoff' = RetryMax
      BY <1>1, <2>1, <2>2, <3>1 DEF Lesser
    <3>3. /\ Lesser(Doubled[MaxFailures], RetryMax) = RetryMax
          /\ Lesser(Doubled[MaxFailures - 1], RetryMax) = RetryMax
      <4>1. MaxFailures - 1 \in 0..MaxFailures /\ MaxFailures \in 0..MaxFailures
        BY <1>1
      <4>2. Doubled[MaxFailures - 1] \in Nat /\ Doubled[MaxFailures] \in Nat
        BY <1>2, <4>1
      <4> QED
        BY <1>1, <4>2, LimitReached DEF Lesser
    <3> QED
      BY <3>2, <3>3 DEF BackoffInv, BackoffFollowsStreak
  <2>3. CASE failures # MaxFailures
    <3>1. /\ failures' = failures + 1 /\ failures + 1 \in 1..MaxFailures
          /\ failures \in 0..MaxFailures /\ failures' - 1 = failures
      BY <1>1, <2>1, <2>3 DEF Lesser
    <3>2. Doubled[failures + 1] = 2 * Doubled[failures] /\ Doubled[failures] \in Nat
      BY <1>2, <3>1
    <3>3. backoff' = Lesser(Doubled[failures'], RetryMax)
      BY <1>1, <1>3, <2>1, <3>1, <3>2 DEF Lesser
    <3>4. delay' = Lesser(Doubled[failures' - 1], RetryMax)
      BY <1>1, <1>3, <2>1, <3>1, <3>2 DEF Lesser
    <3> QED
      BY <3>3, <3>4 DEF BackoffInv, BackoffFollowsStreak
  <2> QED
    BY <2>2, <2>3
<1> QED
  BY <1>4, <1>5

LEMMA BackoffInit == Init => BackoffInv
<1> SUFFICES ASSUME Init PROVE BackoffInv
  OBVIOUS
<1>1. Doubled[0] = RetryInitial
  BY DoubledFacts DEF Doubles
<1>2. failures = 0 /\ backoff = RetryInitial
  BY DEF Init
<1> QED
  BY <1>1, <1>2, Settings DEF BackoffInv, BackoffFollowsStreak, Lesser

(* Every other step keeps the backoff, and begins no wait. *)
LEMMA BackoffStep == TypeOK /\ BackoffInv /\ [Next]_vars => BackoffInv'
<1> SUFFICES ASSUME TypeOK, BackoffInv, [Next]_vars PROVE BackoffInv'
  OBVIOUS
<1>1. ASSUME UNCHANGED <<backoff, delay, failures>>, pc' = "waiting" => pc = "waiting"
      PROVE  BackoffInv'
  BY <1>1 DEF BackoffInv, BackoffFollowsStreak
<1>2. ASSUME NEW succeeded \in BOOLEAN, Schedule(succeeded) PROVE BackoffInv'
  BY <1>2, BackoffSchedule
<1>3. CASE Start
  <2>1. failures' = 0 /\ backoff' = RetryInitial
    BY <1>3 DEF Start
  <2>2. Doubled[0] = RetryInitial
    BY DoubledFacts DEF Doubles
  <2> QED
    BY <2>1, <2>2, Settings DEF BackoffInv, BackoffFollowsStreak, Lesser
<1>4. CASE Step
  <2>1. CASE Snapshot
    <3>1. database \in BOOLEAN /\ Schedule(database)
      BY <2>1 DEF Snapshot, TypeOK
    <3> QED
      BY <1>2, <3>1
  <2>2. CASE Head \/ Warm \/ OpenRun \/ SessionToken \/ Fetch \/ Apply \/ Wake
    <3>1. FALSE \in BOOLEAN
      OBVIOUS
    <3> QED
      BY <1>1, <1>2, <2>2, <3>1 DEF Head, Warm, OpenRun, SessionToken, Fetch, Apply, Wake,
                                    RecordFailure, Fail, loop
  <2> QED
    BY <1>4, <2>1, <2>2 DEF Step
<1>5. CASE Terminate \/ Crash \/ Outage \/ Repair \/ Revoke \/ TokenAges \/ Midnight \/ UNCHANGED vars
  BY <1>1, <1>5 DEF Terminate, Crash, Outage, Repair, Revoke, TokenAges, Midnight, vars, loop
<1> QED
  BY <1>3, <1>4, <1>5 DEF Next

(* For any settings, outages, crashes and revoked tokens: the wait after   *)
(* the n-th failure in a row is the initial one doubled n - 1 times, up to *)
(* the limit, whatever came before that streak.                            *)
THEOREM WaitFollowsStreak == Spec => []BackoffFollowsStreak
<1>1. IInv => TypeOK
  BY DEF IInv
<1>2. BackoffInv => BackoffFollowsStreak
  BY DEF BackoffInv
<1> QED
  BY <1>1, <1>2, InitIInv, NextIInv, BackoffInit, BackoffStep, PTL DEF Spec
=============================================================================
