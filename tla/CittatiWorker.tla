---------------------------- MODULE CittatiWorker ----------------------------
(***************************************************************************)
(* The ingestion worker (run_worker_loop, execute_cycle, run_cittati_cycle)*)
(* and the session of its Cittati client.  A cycle is two transactions:    *)
(* one records the run together with the positions, the other refreshes    *)
(* the ETA snapshots.  The source and the database come and go, the source may *)
(* revoke a token before its 23 hours, SIGTERM may arrive at any moment,   *)
(* and the container is started again after a crash.                       *)
(***************************************************************************)
EXTENDS Integers

CONSTANTS
  RetryInitial,   \* cittati_retry_initial_seconds
  RetryMax,       \* cittati_retry_max_seconds
  MaxDay,         \* bound on the service dates of a behaviour
  MaxTrouble,     \* bound on outages, revocations and crashes of a behaviour
  MaxFailures     \* failures beyond this many are not counted

(* RetryInitial * 2^n *)
Doubled[n \in 0..MaxFailures] == IF n = 0 THEN RetryInitial ELSE 2 * Doubled[n - 1]

(* run_worker_loop raises ValueError otherwise; further failures than are  *)
(* counted make no difference to the backoff.                              *)
ASSUME WorkerAssumption ==
  /\ RetryInitial \in Nat \ {0} /\ RetryMax \in Nat /\ RetryMax >= RetryInitial
  /\ MaxDay \in Nat /\ MaxTrouble \in Nat /\ MaxFailures \in Nat \ {0}
  /\ Doubled[MaxFailures - 1] >= RetryMax

VARIABLES
  pc,          \* where the worker stands
  stopping,    \* stop_event
  backoff,     \* the backoff of the loop
  delay,       \* how long the loop waits
  failures,    \* history: failed cycles since the last good one
  token,       \* _token, and whether the source still takes it
  expired,     \* 23 hours have passed since _authenticated_at
  today,       \* the operational service date
  cycleDate,   \* the service date of the running cycle
  indexDate,   \* active_service_date, -1 before the first load
  run,         \* status of the last ingestion run committed
  unrefreshed, \* history: this process committed positions and no refresh since
  source,      \* the Cittati service answers
  database,    \* PostgreSQL answers
  trouble      \* outages, revocations and crashes so far

loop == <<stopping, backoff, delay, failures>>
session == <<token, expired>>
dates == <<today, cycleDate, indexDate>>
store == <<run, unrefreshed>>
world == <<source, database, trouble>>
vars == <<pc, loop, session, dates, store, world>>

Healthy == source /\ database /\ ~stopping
Running == pc \notin {"down", "stopped"}

Init ==
  /\ pc = "down" /\ stopping = FALSE
  /\ backoff = RetryInitial /\ delay = 0 /\ failures = 0
  /\ token = "none" /\ expired = FALSE
  /\ today = 0 /\ cycleDate = 0 /\ indexDate = -1
  /\ run = "none" /\ unrefreshed = FALSE
  /\ source \in BOOLEAN /\ database \in BOOLEAN /\ trouble = 0

-----------------------------------------------------------------------------
Lesser(m, n) == IF m <= n THEN m ELSE n

(* run(): a new process has neither a token nor an index. *)
Start ==
  /\ pc = "down"
  /\ pc' = "head"
  /\ backoff' = RetryInitial /\ delay' = 0 /\ failures' = 0
  /\ token' = "none" /\ expired' = FALSE
  /\ indexDate' = -1
  /\ unrefreshed' = FALSE
  /\ UNCHANGED <<stopping, today, cycleDate, run, world>>

(* Mutant of Head: the stop event is only looked at while waiting. *)
HeadForever ==
  /\ pc = "head"
  /\ pc' = IF indexDate # today THEN "warm" ELSE "open"
  /\ cycleDate' = today
  /\ UNCHANGED <<loop, session, today, indexDate, store, world>>

(* Mutant of Head: an index once loaded is kept. *)
HeadLoadsOnce ==
  /\ pc = "head"
  /\ \/ stopping /\ pc' = "stopped" /\ UNCHANGED cycleDate
     \/ /\ ~stopping
        /\ pc' = IF indexDate = -1 THEN "warm" ELSE "open"
        /\ cycleDate' = today
  /\ UNCHANGED <<loop, session, today, indexDate, store, world>>

(* while not stop_event.is_set(), and the start of execute_cycle *)
Head ==
  /\ pc = "head"
  /\ \/ stopping /\ pc' = "stopped" /\ UNCHANGED cycleDate
     \/ /\ ~stopping
        /\ pc' = IF indexDate # today THEN "warm" ELSE "open"
        /\ cycleDate' = today
  /\ UNCHANGED <<loop, session, today, indexDate, store, world>>

(* Mutant of Schedule: the backoff is the one next_worker_delay_seconds     *)
(* returns, also after a success.                                          *)
ScheduleUnreset(succeeded) ==
  /\ failures' = IF succeeded THEN 0 ELSE Lesser(failures + 1, MaxFailures)
  /\ delay' = IF succeeded THEN 0 ELSE Lesser(backoff, RetryMax)
  /\ backoff' = IF succeeded THEN backoff ELSE Lesser(backoff * 2, RetryMax)
  /\ pc' \in IF succeeded THEN {"head", "waiting"} ELSE {"waiting"}
  /\ UNCHANGED stopping

(* Mutant of Schedule: the doubling is not capped. *)
ScheduleUncapped(succeeded) ==
  /\ failures' = IF succeeded THEN 0 ELSE Lesser(failures + 1, MaxFailures)
  /\ delay' = IF succeeded THEN 0 ELSE Lesser(backoff, RetryMax)
  /\ backoff' = IF succeeded THEN RetryInitial ELSE backoff * 2
  /\ pc' \in IF succeeded THEN {"head", "waiting"} ELSE {"waiting"}
  /\ UNCHANGED stopping

(* next_worker_delay_seconds and the rest of an iteration.  How long the   *)
(* loop waits after a success depends on the length of the cycle only: a   *)
(* slow one is followed by the next at once.  A set stop event ends the    *)
(* wait, so that it makes no difference whether it is looked at first.     *)
Schedule(succeeded) ==
  /\ failures' = IF succeeded THEN 0 ELSE Lesser(failures + 1, MaxFailures)
  /\ delay' = IF succeeded THEN 0 ELSE Lesser(backoff, RetryMax)
  /\ backoff' = IF succeeded THEN RetryInitial ELSE Lesser(backoff * 2, RetryMax)
  /\ pc' \in IF succeeded THEN {"head", "waiting"} ELSE {"waiting"}
  /\ UNCHANGED stopping

(* An exception or a run that did not succeed ends the cycle.              *)
Fail == Schedule(FALSE)

(* load_active_trip_index, when there is none for the date of the cycle    *)
Warm ==
  /\ pc = "warm"
  /\ \/ database /\ indexDate' = cycleDate /\ pc' = "open" /\ UNCHANGED loop
     \/ ~database /\ Fail /\ UNCHANGED indexDate
  /\ UNCHANGED <<session, today, cycleDate, store, world>>

(* The new IngestionRun is flushed, not committed. *)
OpenRun ==
  /\ pc = "open"
  /\ \/ database /\ pc' = "session" /\ UNCHANGED loop
     \/ ~database /\ Fail
  /\ UNCHANGED <<session, dates, store, world>>

(* The failed run is committed before the exception is raised again.  Here *)
(* as below, a commit whose answer is lost may stand or not.               *)
RecordFailure ==
  /\ run' = "failed" \/ (~database /\ UNCHANGED run)
  /\ Fail
  /\ UNCHANGED unrefreshed

(* Mutant of Reusable: a token is used for as long as the process lives. *)
ReusableForever == token # "none"

Reusable == token # "none" /\ ~expired

(* _session_token, authenticate *)
SessionToken ==
  /\ pc = "session"
  /\ \/ Reusable /\ pc' = "fetch" /\ UNCHANGED <<loop, session, store>>
     \/ /\ ~Reusable /\ source
        /\ token' = "good" /\ expired' = FALSE /\ pc' = "fetch"
        /\ UNCHANGED <<loop, store>>
     \/ ~Reusable /\ ~source /\ RecordFailure /\ UNCHANGED session
  /\ UNCHANGED <<dates, world>>

(* fetch_vehicles: a rejected token is answered in JSON, without the arrays *)
(* the parser asks for, and does not make the client authenticate again.   *)
Fetch ==
  /\ pc = "fetch"
  /\ \/ source /\ token = "good" /\ pc' = "apply" /\ UNCHANGED <<loop, store>>
     \/ (~source \/ token # "good") /\ RecordFailure
  /\ UNCHANGED <<session, dates, world>>

(* The positions and the run are committed together, or neither is.        *)
Apply ==
  /\ pc = "apply"
  /\ \/ run' = "succeeded" /\ unrefreshed' = TRUE
     \/ ~database /\ UNCHANGED store
  /\ \/ database /\ pc' = "snapshot" /\ UNCHANGED loop
     \/ ~database /\ Fail
  /\ UNCHANGED <<session, dates, world>>

(* Mutant of Snapshot: a refresh that failed is forgiven.                  *)
SnapshotForgiven ==
  /\ pc = "snapshot"
  /\ unrefreshed' = FALSE \/ (~database /\ UNCHANGED unrefreshed)
  /\ Schedule(TRUE)
  /\ UNCHANGED <<session, dates, run, world>>

(* The two refreshes of the ETA snapshots are a transaction of their own.  *)
(* It looks at the positions just committed; which snapshots it replaces   *)
(* is EtaSnapshots: often none, when the window has its snapshots already. *)
Snapshot ==
  /\ pc = "snapshot"
  /\ unrefreshed' = FALSE \/ (~database /\ UNCHANGED unrefreshed)
  /\ Schedule(database)
  /\ UNCHANGED <<session, dates, run, world>>

(* wait_for(stop_event.wait(), timeout=delay) *)
Wake ==
  /\ pc = "waiting"
  /\ pc' = "head"
  /\ UNCHANGED <<loop, session, dates, store, world>>

Step == Head \/ Warm \/ OpenRun \/ SessionToken \/ Fetch \/ Apply \/ Snapshot \/ Wake

-----------------------------------------------------------------------------
(* request_shutdown *)
Terminate ==
  /\ Running /\ ~stopping
  /\ stopping' = TRUE
  /\ UNCHANGED <<pc, backoff, delay, failures, session, dates, store, world>>

Crash ==
  /\ Running /\ trouble < MaxTrouble
  /\ pc' = "down"
  /\ stopping' = FALSE
  /\ trouble' = trouble + 1
  /\ UNCHANGED <<backoff, delay, failures, session, dates, store, source, database>>

Outage ==
  /\ trouble < MaxTrouble
  /\ \/ source /\ source' = FALSE /\ UNCHANGED database
     \/ database /\ database' = FALSE /\ UNCHANGED source
  /\ trouble' = trouble + 1
  /\ UNCHANGED <<pc, loop, session, dates, store>>

Repair ==
  /\ \/ ~source /\ source' = TRUE /\ UNCHANGED database
     \/ ~database /\ database' = TRUE /\ UNCHANGED source
  /\ UNCHANGED <<pc, loop, session, dates, store, trouble>>

(* The source forgets the session before the client does. *)
Revoke ==
  /\ token = "good" /\ trouble < MaxTrouble
  /\ token' = "revoked"
  /\ trouble' = trouble + 1
  /\ UNCHANGED <<pc, loop, expired, dates, store, source, database>>

(* 23 hours have passed since the client authenticated. *)
TokenAges ==
  /\ token # "none" /\ ~expired
  /\ expired' = TRUE
  /\ UNCHANGED <<pc, loop, token, dates, store, world>>

Midnight ==
  /\ today < MaxDay
  /\ today' = today + 1
  /\ UNCHANGED <<pc, loop, session, cycleDate, indexDate, store, world>>

Next ==
  \/ Start \/ Step \/ Terminate
  \/ Crash \/ Outage \/ Repair \/ Revoke \/ TokenAges \/ Midnight

(* The event loop keeps running the worker, the container is restarted     *)
(* unless stopped, and a clock passes 23 hours.                            *)
Spec ==
  /\ Init /\ [][Next]_vars
  /\ WF_vars(Start) /\ WF_vars(Step) /\ WF_vars(TokenAges)

-----------------------------------------------------------------------------
(* Types: in particular the backoff stays within what the settings allow.  *)
TypeOK ==
  /\ pc \in {"down", "head", "warm", "open", "session", "fetch", "apply", "snapshot",
             "waiting", "stopped"}
  /\ stopping \in BOOLEAN
  /\ backoff \in RetryInitial..RetryMax /\ delay \in 0..RetryMax
  /\ failures \in 0..MaxFailures
  /\ token \in {"none", "good", "revoked"} /\ expired \in BOOLEAN
  /\ today \in 0..MaxDay /\ cycleDate \in 0..today /\ indexDate \in -1..today
  /\ run \in {"none", "failed", "succeeded"} /\ unrefreshed \in BOOLEAN
  /\ source \in BOOLEAN /\ database \in BOOLEAN /\ trouble \in 0..MaxTrouble

(* The wait after the n-th failure in a row is RetryInitial * 2^(n-1),     *)
(* capped, whatever successes, restarts and shorter streaks came before.   *)
BackoffFollowsStreak ==
  pc = "waiting" /\ failures > 0 =>
    delay = Lesser(Doubled[failures - 1], RetryMax)

(* Vehicles are correlated with the trips of the date the cycle began on,  *)
(* although the index outlives cycles and its load may fail at midnight.   *)
CorrelatesWithItsDate == pc = "apply" => indexDate = cycleDate

(* A cycle counted as good has committed both its transactions, whether    *)
(* the loop waits after it, goes straight on or was asked to stop while it *)
(* ran: positions no refresh has looked at are there only between the two, *)
(* after a crash, or with a failure on the count that makes the loop back  *)
(* off.  How old the snapshots may be is the matter of EtaSnapshots.       *)
GoodCyclesAreWhole == unrefreshed /\ failures = 0 => pc \in {"snapshot", "down"}

(* Once the source and the database answer for good, good cycles go on,    *)
(* also when the source had revoked the token of the client.               *)
Recovers == []<>~Healthy \/ []<>(failures = 0 /\ pc \in {"head", "waiting"} /\ run = "succeeded")

(* A worker asked to stop stops, in whatever state the signal finds it. *)
StopsWhenAsked == stopping ~> pc \in {"stopped", "down"}

=============================================================================
