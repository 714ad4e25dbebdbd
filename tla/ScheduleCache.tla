---------------------------- MODULE ScheduleCache ----------------------------
(***************************************************************************)
(* The schedule contexts of the console (VehicleScheduleContextService).   *)
(* Requests of one API process share a cached answer.  A request that      *)
(* finds it too old, or of another service date, waits for an asyncio.Lock *)
(* and looks again before it asks the source.  Between two awaits nothing  *)
(* else runs, so every step below is one stretch between awaits; a request *)
(* keeps the clock reading and the service date it came with.              *)
(***************************************************************************)
EXTENDS Integers, Sequences

CONSTANTS
  Requests,
  Empty,      \* no cached response, no answer
  TTL,        \* _CACHE_TTL
  DayLength,
  MaxTime     \* bound on the clock of a behaviour

ASSUME CacheAssumption ==
  /\ TTL \in Nat \ {0} /\ DayLength \in Nat \ {0} /\ MaxTime \in Nat

VARIABLES
  now,
  request,   \* phase, evaluated_at and answer of every request
  lock,      \* the requests that hold or wait for the lock, the holder first
  cache      \* _cached_response, _cached_service_date and _cached_at

vars == <<now, request, lock, cache>>

ServiceDate(time) == time \div DayLength

Init ==
  /\ now = 0
  /\ request = [r \in Requests |-> [phase |-> "idle", evaluated |-> 0, answer |-> Empty]]
  /\ lock = << >>
  /\ cache = Empty

-----------------------------------------------------------------------------
(* Mutant of CacheIsValid: the service date is not compared. *)
CacheIsRecent(evaluated) == cache # Empty /\ evaluated - cache.at < TTL

(* _cache_is_valid *)
CacheIsValid(evaluated) ==
  /\ cache # Empty
  /\ cache.date = ServiceDate(evaluated)
  /\ evaluated - cache.at < TTL

Answer(status) == [status |-> status, date |-> cache.date, generated |-> cache.generated]

Answered(r, evaluated, answer) ==
  request' = [request EXCEPT ![r] = [phase |-> "answered", evaluated |-> evaluated,
                                     answer |-> answer]]

Tick ==
  /\ now < MaxTime
  /\ now' = now + 1
  /\ UNCHANGED <<request, lock, cache>>

(* The endpoint reads the clock; a valid cache is used without the lock. *)
Ask(r) ==
  /\ request[r].phase = "idle"
  /\ IF CacheIsValid(now)
     THEN Answered(r, now, Answer("ready")) /\ UNCHANGED lock
     ELSE /\ request' = [request EXCEPT ![r].phase = "waiting", ![r].evaluated = now]
          /\ lock' = Append(lock, r)
  /\ UNCHANGED <<now, cache>>

Holds(r, phase) == lock # << >> /\ Head(lock) = r /\ request[r].phase = phase

(* The request gets the lock, and finds that another one has filled the    *)
(* cache meanwhile, or asks the source.                                    *)
Enter(r) ==
  /\ Holds(r, "waiting")
  /\ IF CacheIsValid(request[r].evaluated)
     THEN /\ Answered(r, request[r].evaluated, Answer("ready"))
          /\ lock' = Tail(lock)
     ELSE /\ request' = [request EXCEPT ![r].phase = "fetching"]
          /\ UNCHANGED lock
  /\ UNCHANGED <<now, cache>>

(* The source answers: received_at is its time, _cached_at the one of the  *)
(* request, and the lock is released.                                      *)
Fetched(r) ==
  /\ Holds(r, "fetching")
  /\ LET date == ServiceDate(request[r].evaluated)
     IN /\ cache' = [date |-> date, at |-> request[r].evaluated, generated |-> now]
        /\ Answered(r, request[r].evaluated,
                    [status |-> "ready", date |-> date, generated |-> now])
  /\ lock' = Tail(lock)
  /\ UNCHANGED now

(* Mutant of Released: acquired and released by hand, without finally. *)
ReleasedUnlessFailed == lock

Released == Tail(lock)

(* CittatiError or HTTPError: the cached response of the service date,     *)
(* however old, or else the error; any other exception ends the request.   *)
FetchFails(r) ==
  /\ Holds(r, "fetching")
  /\ \/ /\ cache # Empty /\ cache.date = ServiceDate(request[r].evaluated)
        /\ Answered(r, request[r].evaluated, Answer("stale"))
     \/ request' = [request EXCEPT ![r].phase = "failed"]
  /\ lock' = Released
  /\ UNCHANGED <<now, cache>>

Next == Tick \/ \E r \in Requests : Ask(r) \/ Enter(r) \/ Fetched(r) \/ FetchFails(r)

(* The event loop wakes the request that is next, and the time-out of the  *)
(* client ends every call to the source.                                   *)
Fairness ==
  \A r \in Requests : WF_vars(Enter(r)) /\ WF_vars(Fetched(r) \/ FetchFails(r))

Spec == Init /\ [][Next]_vars /\ Fairness

-----------------------------------------------------------------------------
Time == 0..MaxTime
Dates == {ServiceDate(time) : time \in Time}
Answers == [status : {"ready", "stale"}, date : Dates, generated : Time]

TypeOK ==
  /\ now \in Time
  /\ request \in [Requests -> [phase : {"idle", "waiting", "fetching", "answered", "failed"},
                               evaluated : Time, answer : Answers \cup {Empty}]]
  /\ lock \in Seq(Requests)
  /\ cache \in [date : Dates, at : Time, generated : Time] \cup {Empty}

(* Whatever a request waited for and whoever filled the cache, it answers  *)
(* with the trips of the service date it was made on, also across          *)
(* midnight, and an answer called ready was received from the source no    *)
(* longer than the TTL before the request was made.                        *)
AnswersAreOfTheirTime ==
  \A r \in Requests :
    LET answer == request[r].answer
    IN answer # Empty =>
         /\ answer.date = ServiceDate(request[r].evaluated)
         /\ answer.status = "ready" => request[r].evaluated - answer.generated < TTL

(* Every request ends, also behind one whose call to the source failed. *)
EveryRequestEnds ==
  \A r \in Requests :
    request[r].phase = "waiting" ~> request[r].phase \in {"answered", "failed"}
=============================================================================
