------------------------- MODULE ScheduleCacheProofs -------------------------
(***************************************************************************)
(* AnswersAreOfTheirTime for every number of requests, every time-to-live  *)
(* and every length of the day.                                            *)
(***************************************************************************)
EXTENDS ScheduleCache, SequenceTheorems, TLAPS

(* What a cached answer says of itself, and what no request has yet.       *)
CacheIsOfItsTime ==
  cache # Empty => cache.date = ServiceDate(cache.at) /\ cache.at <= cache.generated

NoneFromTheFuture ==
  \A r \in Requests :
    /\ request[r].evaluated <= now
    /\ request[r].phase # "answered" => request[r].answer = Empty

IInv == TypeOK /\ CacheIsOfItsTime /\ NoneFromTheFuture /\ AnswersAreOfTheirTime

(* An answer taken from a valid cache is of the time of the request.       *)
LEMMA AnswerFromCache ==
  ASSUME IInv, NEW r \in Requests, NEW evaluated \in Time, cache # Empty,
         cache.date = ServiceDate(evaluated), NEW status \in {"ready", "stale"},
         status = "ready" => CacheIsValid(evaluated)
  PROVE  /\ Answer(status) \in Answers
         /\ Answer(status).date = ServiceDate(evaluated)
         /\ Answer(status).status = "ready" => evaluated - Answer(status).generated < TTL
<1>1. cache \in [date : Dates, at : Time, generated : Time]
  BY DEF IInv, TypeOK
<1>2. Answer(status) = [status |-> status, date |-> cache.date, generated |-> cache.generated]
  BY DEF Answer
<1>3. status = "ready" => evaluated - cache.at < TTL
  BY DEF CacheIsValid
<1>4. cache.at <= cache.generated
  BY DEF IInv, CacheIsOfItsTime
<1> QED
  BY <1>1, <1>2, <1>3, <1>4, CacheAssumption DEF Answers, Time

(* Answering one request with a fitting answer keeps every request right.  *)
LEMMA AnsweredKeeps ==
  ASSUME IInv, NEW r \in Requests, NEW evaluated \in Time, evaluated <= now,
         NEW answer \in Answers, Answered(r, evaluated, answer), now' = now,
         answer.date = ServiceDate(evaluated),
         answer.status = "ready" => evaluated - answer.generated < TTL
  PROVE  /\ request' \in [Requests -> [phase : {"idle", "waiting", "fetching", "answered", "failed"},
                                       evaluated : Time, answer : Answers \cup {Empty}]]
         /\ NoneFromTheFuture' /\ AnswersAreOfTheirTime'
<1>1. /\ request'[r] = [phase |-> "answered", evaluated |-> evaluated, answer |-> answer]
      /\ \A s \in Requests \ {r} : request'[s] = request[s]
  BY DEF Answered, IInv, TypeOK
<1>2. request' \in [Requests -> [phase : {"idle", "waiting", "fetching", "answered", "failed"},
                                 evaluated : Time, answer : Answers \cup {Empty}]]
  BY DEF Answered, IInv, TypeOK
<1>3. NoneFromTheFuture'
  BY <1>1 DEF IInv, NoneFromTheFuture
<1>4. AnswersAreOfTheirTime'
  BY <1>1 DEF IInv, AnswersAreOfTheirTime
<1> QED
  BY <1>2, <1>3, <1>4

LEMMA InitIInv == Init => IInv
<1> SUFFICES ASSUME Init PROVE IInv
  OBVIOUS
<1>1. TypeOK
  BY CacheAssumption, EmptySeq DEF Init, TypeOK, Time
<1>2. CacheIsOfItsTime /\ NoneFromTheFuture /\ AnswersAreOfTheirTime
  BY DEF Init, CacheIsOfItsTime, NoneFromTheFuture, AnswersAreOfTheirTime
<1> QED
  BY <1>1, <1>2 DEF IInv

LEMMA NextIInv == IInv /\ [Next]_vars => IInv'
<1> SUFFICES ASSUME IInv, [Next]_vars PROVE IInv'
  OBVIOUS
<1> USE DEF IInv
<1>t. \A time \in Time : time \in Nat /\ ServiceDate(time) \in Dates
  BY CacheAssumption DEF Time, Dates
<1>1. CASE Tick
  <2>1. TypeOK'
    BY <1>1, CacheAssumption DEF Tick, TypeOK, Time
  <2>2. CacheIsOfItsTime' /\ AnswersAreOfTheirTime'
    BY <1>1 DEF Tick, CacheIsOfItsTime, AnswersAreOfTheirTime
  <2>3. NoneFromTheFuture'
    BY <1>1, <1>t DEF Tick, NoneFromTheFuture, TypeOK
  <2> QED
    BY <2>1, <2>2, <2>3
<1>2. ASSUME NEW r \in Requests, Ask(r) PROVE IInv'
  <2>1. CASE CacheIsValid(now)
    <3>1. Answered(r, now, Answer("ready")) /\ UNCHANGED <<now, cache, lock>>
      BY <1>2, <2>1 DEF Ask
    <3>2. now \in Time /\ now <= now
      BY CacheAssumption DEF TypeOK, Time
    <3>3. cache # Empty /\ cache.date = ServiceDate(now)
      BY <2>1 DEF CacheIsValid
    <3>4. /\ Answer("ready") \in Answers
          /\ Answer("ready").date = ServiceDate(now)
          /\ Answer("ready").status = "ready" => now - Answer("ready").generated < TTL
      BY <2>1, <3>2, <3>3, AnswerFromCache
    <3>5. TypeOK' /\ NoneFromTheFuture' /\ AnswersAreOfTheirTime'
      BY <3>1, <3>2, <3>4, AnsweredKeeps DEF TypeOK
    <3> QED
      BY <3>1, <3>5 DEF CacheIsOfItsTime
  <2>2. CASE ~CacheIsValid(now)
    <3>1. /\ request' = [request EXCEPT ![r].phase = "waiting", ![r].evaluated = now]
          /\ lock' = Append(lock, r) /\ UNCHANGED <<now, cache>>
      BY <1>2, <2>2 DEF Ask
    <3>2. TypeOK'
      <4>1. Append(lock, r) \in Seq(Requests)
        BY DEF TypeOK
      <4> QED
        BY <3>1, <4>1 DEF TypeOK
    <3>3. request[r].answer = Empty
      BY <1>2 DEF Ask, NoneFromTheFuture
    <3> QED
      BY <3>1, <3>2, <3>3, <1>t DEF TypeOK, NoneFromTheFuture, AnswersAreOfTheirTime, CacheIsOfItsTime
  <2> QED
    BY <2>1, <2>2
<1>h. ASSUME NEW r \in Requests, NEW phase, Holds(r, phase)
      PROVE  Tail(lock) \in Seq(Requests)
  BY <1>h DEF Holds, TypeOK
<1>3. ASSUME NEW r \in Requests, Enter(r) PROVE IInv'
  <2>1. CASE CacheIsValid(request[r].evaluated)
    <3>1. /\ Answered(r, request[r].evaluated, Answer("ready"))
          /\ lock' = Tail(lock) /\ UNCHANGED <<now, cache>>
      BY <1>3, <2>1 DEF Enter
    <3>2. request[r].evaluated \in Time /\ request[r].evaluated <= now
      BY DEF TypeOK, NoneFromTheFuture
    <3>3. cache # Empty /\ cache.date = ServiceDate(request[r].evaluated)
      BY <2>1 DEF CacheIsValid
    <3>4. /\ Answer("ready") \in Answers
          /\ Answer("ready").date = ServiceDate(request[r].evaluated)
          /\ Answer("ready").status = "ready"
               => request[r].evaluated - Answer("ready").generated < TTL
      BY <2>1, <3>2, <3>3, AnswerFromCache
    <3>5. NoneFromTheFuture' /\ AnswersAreOfTheirTime'
      BY <3>1, <3>2, <3>4, AnsweredKeeps
    <3>6. TypeOK'
      <4>1. Tail(lock) \in Seq(Requests)
        BY <1>3, <1>h DEF Enter
      <4> QED
        BY <3>1, <3>2, <3>4, <4>1, AnsweredKeeps DEF TypeOK
    <3> QED
      BY <3>1, <3>5, <3>6 DEF CacheIsOfItsTime
  <2>2. CASE ~CacheIsValid(request[r].evaluated)
    <3>1. /\ request' = [request EXCEPT ![r].phase = "fetching"]
          /\ request[r].phase = "waiting" /\ UNCHANGED <<now, cache, lock>>
      BY <1>3, <2>2 DEF Enter, Holds
    <3> QED
      BY <3>1 DEF TypeOK, NoneFromTheFuture, AnswersAreOfTheirTime, CacheIsOfItsTime
  <2> QED
    BY <2>1, <2>2
<1>4. ASSUME NEW r \in Requests, Fetched(r) PROVE IInv'
  <2> DEFINE date == ServiceDate(request[r].evaluated)
             answer == [status |-> "ready", date |-> date, generated |-> now]
  <2>1. request[r].evaluated \in Time /\ request[r].evaluated <= now /\ now \in Time
    BY DEF TypeOK, NoneFromTheFuture
  <2>2. answer \in Answers /\ answer.date = date
    BY <2>1, <1>t DEF Answers
  <2>3. request[r].evaluated - answer.generated < TTL
    BY <2>1, CacheAssumption DEF Time
  <2>4. Answered(r, request[r].evaluated, answer) /\ UNCHANGED now
    BY <1>4 DEF Fetched
  <2>5. cache' = [date |-> date, at |-> request[r].evaluated, generated |-> now]
    BY <1>4 DEF Fetched
  <2>6. NoneFromTheFuture' /\ AnswersAreOfTheirTime'
    BY <2>1, <2>2, <2>3, <2>4, AnsweredKeeps
  <2>7. TypeOK'
    <3>1. lock' \in Seq(Requests)
      BY <1>4, <1>h DEF Fetched
    <3>2. cache' \in [date : Dates, at : Time, generated : Time] \cup {Empty}
      BY <2>1, <2>5, <1>t
    <3> QED
      BY <2>1, <2>2, <2>3, <2>4, <3>1, <3>2, AnsweredKeeps DEF TypeOK
  <2>8. CacheIsOfItsTime'
    BY <2>1, <2>5 DEF CacheIsOfItsTime
  <2> QED
    BY <2>6, <2>7, <2>8
<1>5. ASSUME NEW r \in Requests, FetchFails(r) PROVE IInv'
  <2>1. lock' \in Seq(Requests) /\ UNCHANGED <<now, cache>> /\ request[r].phase = "fetching"
    BY <1>5, <1>h DEF FetchFails, Released, Holds
  <2>2. CASE /\ cache # Empty /\ cache.date = ServiceDate(request[r].evaluated)
             /\ Answered(r, request[r].evaluated, Answer("stale"))
    <3>1. request[r].evaluated \in Time /\ request[r].evaluated <= now
      BY DEF TypeOK, NoneFromTheFuture
    <3>2. /\ Answer("stale") \in Answers
          /\ Answer("stale").date = ServiceDate(request[r].evaluated)
          /\ Answer("stale").status = "ready"
               => request[r].evaluated - Answer("stale").generated < TTL
      BY <2>2, <3>1, AnswerFromCache
    <3>3. /\ NoneFromTheFuture' /\ AnswersAreOfTheirTime'
          /\ request' \in [Requests -> [phase : {"idle", "waiting", "fetching", "answered", "failed"},
                                        evaluated : Time, answer : Answers \cup {Empty}]]
      BY <2>1, <2>2, <3>1, <3>2, AnsweredKeeps
    <3> QED
      BY <2>1, <3>3 DEF TypeOK, CacheIsOfItsTime
  <2>3. CASE request' = [request EXCEPT ![r].phase = "failed"]
    BY <2>1, <2>3 DEF TypeOK, NoneFromTheFuture, AnswersAreOfTheirTime, CacheIsOfItsTime
  <2> QED
    BY <1>5, <2>2, <2>3 DEF FetchFails
<1>6. CASE UNCHANGED vars
  BY <1>6 DEF vars, TypeOK, CacheIsOfItsTime, NoneFromTheFuture, AnswersAreOfTheirTime
<1> QED
  BY <1>1, <1>2, <1>3, <1>4, <1>5, <1>6 DEF Next

(* Types of the clock, the requests, the lock and the cache.               *)
THEOREM CacheTypes == Spec => []TypeOK
<1>1. Spec => []IInv
  BY InitIInv, NextIInv, PTL DEF Spec
<1> QED
  BY <1>1, PTL DEF IInv

(* Whatever a request waited for, it is answered for the service date it   *)
(* was made on, and a ready answer is not older than the time-to-live.     *)
THEOREM AnswersOfTheirTime == Spec => []AnswersAreOfTheirTime
<1>1. Spec => []IInv
  BY InitIInv, NextIInv, PTL DEF Spec
<1> QED
  BY <1>1, PTL DEF IInv
=============================================================================
