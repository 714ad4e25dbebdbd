--------------------------- MODULE GtfsFeedsProofs ---------------------------
(***************************************************************************)
(* For any runs of the CLI, contents and patterns, and for any length of a *)
(* behaviour: the runs and the feeds tell the same story, and the trip     *)
(* index is made of the feed downloaded last unless one was committed      *)
(* while it was read, in which case it still never goes back.  And for any *)
(* places: a pattern is projected on the cheapest of its monotone paths,   *)
(* and refused only if it has none.                                        *)
(***************************************************************************)
EXTENDS MCGtfsFeeds, FiniteSetTheorems, WellFoundedInduction, TLAPS

(* A non-empty set of bounded numbers has a greatest one. *)
LEMMA GreatestExists ==
  ASSUME NEW S, S # {}, NEW f, NEW bound \in Nat, \A c \in S : f[c] \in 0..bound
  PROVE  \E c \in S : \A d \in S : f[c] >= f[d]
<1> DEFINE gaps == {bound - f[c] : c \in S}
<1>1. gaps \subseteq Nat /\ gaps # {}
  OBVIOUS
<1>2. PICK least \in gaps : \A gap \in gaps : ~(<<gap, least>> \in OpToRel(<, Nat))
  BY <1>1, NatLessThanWellFounded, WFMin
<1>3. \A gap \in gaps : ~(gap < least)
  BY <1>1, <1>2 DEF OpToRel
<1>4. PICK c \in S : least = bound - f[c]
  BY <1>2
<1>5. \A d \in S : ~(bound - f[d] < bound - f[c])
  BY <1>3, <1>4
<1>6. \A d \in S : f[c] >= f[d]
  BY <1>4, <1>5
<1> QED
  BY <1>6

(* A run that has downloaded its feed and has not failed. *)
Holding == {"received", "known", "new", "loading", "stored", "duplicate"}

(* What every run knows of its own feed. *)
JobFacts ==
  \A j \in Jobs :
    /\ job[j].received <= clock
    /\ job[j].phase \in Holding => job[j].content \in Contents /\ job[j].received # 0
    /\ job[j].phase = "loading" => feeds[job[j].content] = 0
    /\ job[j].phase = "duplicate" => feeds[job[j].content] # 0
    /\ job[j].phase = "known" => feeds[job[j].content] # 0
    /\ job[j].phase = "stored" => feeds[job[j].content] = job[j].received

(* The unique index of content_hash: one run loads, one run has stored.    *)
OneEach ==
  /\ \A j, k \in Jobs :
       /\ job[j].phase = "loading" /\ job[k].phase = "loading" /\ job[j].content = job[k].content
            => j = k
       /\ job[j].phase = "stored" /\ job[k].phase = "stored" /\ job[j].content = job[k].content
            => j = k
  /\ \A c \in Contents :
       feeds[c] # 0 => \E j \in Jobs : job[j].phase = "stored" /\ job[j].content = c

(* Until a feed is committed, what a load has read stays the newest.       *)
LoaderFacts ==
  ~overtaken =>
    /\ Stored # {}
    /\ IF reading = Nothing THEN index.trips = LatestFeed /\ index.stops = LatestFeed
       ELSE reading = LatestFeed

IInv == TypeOK /\ JobFacts /\ OneEach /\ LoaderFacts

LEMMA LatestFacts ==
  ASSUME TypeOK, Stored # {}
  PROVE  /\ LatestFeed \in Stored /\ LatestFeed \in Contents /\ LatestFeed # Nothing
         /\ \A c \in Stored : feeds[LatestFeed] >= feeds[c]
<1>1. MaxTime \in Nat /\ \A c \in Stored : feeds[c] \in 0..MaxTime
  BY FeedAssumption DEF TypeOK, Stored
<1>2. \E c \in Stored : \A d \in Stored : feeds[c] >= feeds[d]
  BY <1>1, GreatestExists
<1>3. LatestFeed \in Stored /\ \A c \in Stored : feeds[LatestFeed] >= feeds[c]
  BY <1>2 DEF LatestFeed
<1> QED
  BY <1>3, FeedAssumption DEF Stored

LEMMA LatestType == TypeOK => LatestFeed \in Feed
  BY LatestFacts DEF LatestFeed, Feed

LEMMA InitIInv == Init => IInv
<1> SUFFICES ASSUME Init PROVE IInv
  OBVIOUS
<1> USE FeedAssumption
<1>1. TypeOK
  BY DEF Init, TypeOK, Feed, Phases, Final
<1>2. JobFacts /\ OneEach /\ LoaderFacts
  BY DEF Init, JobFacts, OneEach, LoaderFacts, Holding
<1> QED
  BY <1>1, <1>2 DEF IInv

-----------------------------------------------------------------------------
(* A step of one run that leaves the feeds alone and brings it to a phase  *)
(* whose facts hold keeps the invariant.                                   *)
LEMMA JobStep ==
  ASSUME IInv, NEW j \in Jobs, NEW phase \in Phases, NEW finished \in 0..MaxTime,
         job' = [job EXCEPT ![j].phase = phase, ![j].finished = finished],
         UNCHANGED <<clock, published, feeds, loader>>,
         phase \in Holding => job[j].phase \in Holding,
         phase # "stored", phase = "loading" =>
           /\ feeds[job[j].content] = 0
           /\ \A k \in Jobs : job[k].phase = "loading" => job[k].content # job[j].content,
         phase \in {"known", "duplicate"} => feeds[job[j].content] # 0,
         job[j].phase # "stored"
  PROVE  IInv'
<1>1. /\ job'[j].phase = phase /\ job'[j].content = job[j].content
      /\ job'[j].received = job[j].received
      /\ \A k \in Jobs \ {j} : job'[k] = job[k]
  BY DEF IInv, TypeOK
<1>2. TypeOK'
  BY DEF IInv, TypeOK, loader
<1>3. JobFacts'
  <2> SUFFICES ASSUME NEW k \in Jobs
               PROVE  /\ job'[k].received <= clock
                      /\ job'[k].phase \in Holding => job'[k].content \in Contents /\ job'[k].received # 0
                      /\ job'[k].phase = "loading" => feeds[job'[k].content] = 0
                      /\ job'[k].phase = "duplicate" => feeds[job'[k].content] # 0
                      /\ job'[k].phase = "known" => feeds[job'[k].content] # 0
                      /\ job'[k].phase = "stored" => feeds[job'[k].content] = job'[k].received
    BY DEF JobFacts
  <2>1. CASE k = j
    BY <1>1, <2>1 DEF IInv, JobFacts
  <2>2. CASE k # j
    BY <1>1, <2>2 DEF IInv, JobFacts
  <2> QED
    BY <2>1, <2>2
<1>4. OneEach'
  <2>1. \A k \in Jobs : job'[k].content = job[k].content
    BY <1>1
  <2>2. \A k \in Jobs : job[k].phase = "stored" => job'[k].phase = "stored"
    BY <1>1
  <2>3. \A k \in Jobs : job'[k].phase = "stored" => job[k].phase = "stored"
    BY <1>1
  <2>4. \A k \in Jobs : job'[k].phase = "loading" =>
          job[k].phase = "loading" \/ (k = j /\ phase = "loading")
    BY <1>1
  <2>5. \A k \in Jobs : phase = "loading" /\ job[k].phase = "loading" => job[k].content # job[j].content
    OBVIOUS
  <2>6. ASSUME NEW k \in Jobs, NEW l \in Jobs, job'[k].content = job'[l].content
        PROVE  /\ job'[k].phase = "stored" /\ job'[l].phase = "stored" => k = l
               /\ job'[k].phase = "loading" /\ job'[l].phase = "loading" => k = l
    <3>1. job[k].content = job[l].content
      BY <2>1, <2>6
    <3>2. job[k].phase = "stored" /\ job[l].phase = "stored" => k = l
      BY <3>1 DEF IInv, OneEach
    <3>3. job[k].phase = "loading" /\ job[l].phase = "loading" => k = l
      BY <3>1 DEF IInv, OneEach
    <3> QED
      BY <2>3, <2>4, <2>5, <3>1, <3>2, <3>3
  <2>7. ASSUME NEW c \in Contents, feeds'[c] # 0
        PROVE  \E k \in Jobs : job'[k].phase = "stored" /\ job'[k].content = c
    <3>1. feeds[c] # 0
      BY <2>7
    <3>2. PICK k \in Jobs : job[k].phase = "stored" /\ job[k].content = c
      BY <3>1 DEF IInv, OneEach
    <3> QED
      BY <2>1, <2>2, <3>2
  <2>8. \A k, l \in Jobs :
          /\ job'[k].phase = "loading" /\ job'[l].phase = "loading" /\ job'[k].content = job'[l].content
               => k = l
          /\ job'[k].phase = "stored" /\ job'[l].phase = "stored" /\ job'[k].content = job'[l].content
               => k = l
    BY <2>6
  <2> QED
    BY <2>7, <2>8, Zenon DEF OneEach
<1>5. LoaderFacts'
  BY DEF IInv, LoaderFacts, LatestFeed, Stored, loader
<1> QED
  BY <1>2, <1>3, <1>4, <1>5 DEF IInv

LEMMA DownloadStep == ASSUME IInv, NEW j \in Jobs, Download(j) PROVE IInv'
<1>1. /\ job[j].phase = "downloading" /\ clock < MaxTime /\ clock' = clock + 1
      /\ job' = [job EXCEPT ![j].phase = "received", ![j].content = published,
                            ![j].received = clock + 1]
      /\ UNCHANGED <<published, feeds, reading, index, overtaken>>
  BY DEF Download, loader
<1>2. clock \in 1..MaxTime /\ published \in Contents /\ MaxTime \in Nat
  BY FeedAssumption DEF IInv, TypeOK
<1>3. /\ job'[j].phase = "received" /\ job'[j].content = published
      /\ job'[j].received = clock + 1
      /\ \A k \in Jobs \ {j} : job'[k] = job[k]
  BY <1>1 DEF IInv, TypeOK
<1>4. TypeOK'
  <2>1. clock' \in 1..MaxTime /\ clock + 1 \in 0..MaxTime
    BY <1>1, <1>2
  <2>2. job' \in [Jobs -> [phase : Phases, content : Feed, received : 0..MaxTime,
                          finished : 0..MaxTime]]
    <3>1. "received" \in Phases /\ published \in Feed
      BY <1>2 DEF Phases, Feed
    <3>2. job \in [Jobs -> [phase : Phases, content : Feed, received : 0..MaxTime,
                          finished : 0..MaxTime]]
      BY DEF IInv, TypeOK
    <3>3. job' = [job EXCEPT ![j] = [job[j] EXCEPT !.phase = "received", !.content = published,
                                                   !.received = clock + 1]]
      BY <1>1, <3>2
    <3>4. [job[j] EXCEPT !.phase = "received", !.content = published, !.received = clock + 1]
            \in [phase : Phases, content : Feed, received : 0..MaxTime, finished : 0..MaxTime]
      BY <2>1, <3>1, <3>2
    <3> QED
      BY <3>2, <3>3, <3>4
  <2> QED
    BY <1>1, <2>1, <2>2 DEF IInv, TypeOK
<1>5. JobFacts'
  <2> SUFFICES ASSUME NEW k \in Jobs
               PROVE  /\ job'[k].received <= clock'
                      /\ job'[k].phase \in Holding => job'[k].content \in Contents /\ job'[k].received # 0
                      /\ job'[k].phase = "loading" => feeds'[job'[k].content] = 0
                      /\ job'[k].phase = "duplicate" => feeds'[job'[k].content] # 0
                      /\ job'[k].phase = "known" => feeds'[job'[k].content] # 0
                      /\ job'[k].phase = "stored" => feeds'[job'[k].content] = job'[k].received
    BY DEF JobFacts
  <2>1. CASE k = j
    BY <1>1, <1>2, <1>3, <2>1
  <2>2. CASE k # j
    <3>1. job'[k] = job[k] /\ job[k].received \in 0..MaxTime
      BY <1>3, <2>2 DEF IInv, TypeOK
    <3> QED
      BY <1>1, <1>2, <3>1 DEF IInv, JobFacts
  <2> QED
    BY <2>1, <2>2
<1>6. OneEach'
  <2>1. \A k \in Jobs : \A phase \in {"loading", "stored"} :
          job'[k].phase = phase => k # j /\ job[k].phase = phase /\ job'[k].content = job[k].content
    BY <1>3
  <2>2. \A k, l \in Jobs :
          /\ job'[k].phase = "loading" /\ job'[l].phase = "loading" /\ job'[k].content = job'[l].content
               => k = l
          /\ job'[k].phase = "stored" /\ job'[l].phase = "stored" /\ job'[k].content = job'[l].content
               => k = l
    BY <2>1 DEF IInv, OneEach
  <2>3. ASSUME NEW c \in Contents, feeds'[c] # 0
        PROVE  \E k \in Jobs : job'[k].phase = "stored" /\ job'[k].content = c
    <3>1. PICK k \in Jobs : job[k].phase = "stored" /\ job[k].content = c
      BY <1>1, <2>3 DEF IInv, OneEach
    <3> QED
      BY <1>1, <1>3, <3>1
  <2> QED
    BY <2>2, <2>3, Zenon DEF OneEach
<1>7. LoaderFacts'
  BY <1>1 DEF IInv, LoaderFacts, LatestFeed, Stored
<1> QED
  BY <1>4, <1>5, <1>6, <1>7 DEF IInv

LEMMA StoreStep == ASSUME IInv, NEW j \in Jobs, Store(j) PROVE IInv'
<1> DEFINE c == job[j].content
<1>1. /\ job[j].phase = "loading" /\ feeds' = [feeds EXCEPT ![c] = job[j].received]
      /\ job' = [job EXCEPT ![j].phase = "stored"] /\ overtaken' = TRUE
      /\ UNCHANGED <<clock, published, reading, index>>
  BY DEF Store, RetrievedAt, Enter
<1>2. c \in Contents /\ job[j].received # 0 /\ feeds[c] = 0
  BY <1>1 DEF IInv, JobFacts, Holding
<1>3. /\ job'[j].phase = "stored" /\ job'[j].content = c /\ job'[j].received = job[j].received
      /\ \A k \in Jobs \ {j} : job'[k] = job[k]
  BY <1>1 DEF IInv, TypeOK
<1>4. feeds'[c] = job[j].received /\ \A d \in Contents \ {c} : feeds'[d] = feeds[d]
  BY <1>1, <1>2 DEF IInv, TypeOK
<1>5. TypeOK'
  BY <1>1, <1>2 DEF IInv, TypeOK, Phases, Final
<1>6. \A k \in Jobs : job[k].phase = "stored" => job[k].content # c
  BY <1>2 DEF IInv, JobFacts, Holding
<1>7. \A k \in Jobs \ {j} : job[k].phase = "loading" => job[k].content # c
  BY <1>1 DEF IInv, OneEach
<1>8. JobFacts'
  <2> SUFFICES ASSUME NEW k \in Jobs
               PROVE  /\ job'[k].received <= clock'
                      /\ job'[k].phase \in Holding => job'[k].content \in Contents /\ job'[k].received # 0
                      /\ job'[k].phase = "loading" => feeds'[job'[k].content] = 0
                      /\ job'[k].phase = "duplicate" => feeds'[job'[k].content] # 0
                      /\ job'[k].phase = "known" => feeds'[job'[k].content] # 0
                      /\ job'[k].phase = "stored" => feeds'[job'[k].content] = job'[k].received
    BY DEF JobFacts
  <2>1. CASE k = j
    BY <1>1, <1>2, <1>3, <1>4, <2>1 DEF IInv, JobFacts
  <2>2. CASE k # j
    <3>1. job'[k] = job[k]
      BY <1>3, <2>2
    <3>2. job[k].phase \in Holding => job[k].content \in Contents
      BY DEF IInv, JobFacts
    <3>3. job[k].phase \in Holding /\ job[k].content # c => feeds'[job[k].content] = feeds[job[k].content]
      BY <1>4, <3>2
    <3> QED
      BY <1>1, <1>2, <1>4, <1>6, <1>7, <2>2, <3>1, <3>3 DEF IInv, JobFacts, Holding
  <2> QED
    BY <2>1, <2>2
<1>9. OneEach'
  <2>1. ASSUME NEW k \in Jobs, NEW l \in Jobs, job'[k].content = job'[l].content
        PROVE  /\ job'[k].phase = "stored" /\ job'[l].phase = "stored" => k = l
               /\ job'[k].phase = "loading" /\ job'[l].phase = "loading" => k = l
    BY <1>3, <1>6, <2>1 DEF IInv, OneEach
  <2>2. \A k, l \in Jobs :
          /\ job'[k].phase = "loading" /\ job'[l].phase = "loading" /\ job'[k].content = job'[l].content
               => k = l
          /\ job'[k].phase = "stored" /\ job'[l].phase = "stored" /\ job'[k].content = job'[l].content
               => k = l
    BY <2>1
  <2>3. ASSUME NEW d \in Contents, feeds'[d] # 0
        PROVE  \E k \in Jobs : job'[k].phase = "stored" /\ job'[k].content = d
    <3>1. CASE d = c
      BY <1>3, <3>1
    <3>2. CASE d # c
      <4>1. PICK k \in Jobs : job[k].phase = "stored" /\ job[k].content = d
        BY <1>4, <2>3, <3>2 DEF IInv, OneEach
      <4>2. k # j
        BY <1>1, <4>1
      <4> QED
        BY <1>3, <4>1, <4>2
    <3> QED
      BY <3>1, <3>2
  <2> QED
    BY <2>2, <2>3, Zenon DEF OneEach
<1>10. LoaderFacts'
  BY <1>1 DEF LoaderFacts
<1> QED
  BY <1>5, <1>8, <1>9, <1>10 DEF IInv

(* The steps of a run that leave its feed as it is. *)
LEMMA FailStep ==
  ASSUME IInv, NEW j \in Jobs, Fails(j), UNCHANGED <<clock, published, feeds, loader>>,
         job[j].phase \notin Final
  PROVE  IInv'
<1>1. "failing" \in Phases /\ "failing" \notin Holding /\ clock \in 0..MaxTime
      /\ job[j].phase # "stored"
  BY FeedAssumption DEF Phases, Holding, Final, IInv, TypeOK
<1>2. job' = [job EXCEPT ![j].phase = "failing", ![j].finished = clock]
  BY DEF Fails
<1> QED
  BY <1>1, <1>2, JobStep

LEMMA EnterStep ==
  ASSUME IInv, NEW j \in Jobs, NEW phase \in Phases, Enter(j, phase),
         UNCHANGED <<clock, published, feeds, loader>>,
         phase \in Holding => job[j].phase \in Holding,
         phase # "stored", phase = "loading" =>
           /\ feeds[job[j].content] = 0
           /\ \A k \in Jobs : job[k].phase = "loading" => job[k].content # job[j].content,
         phase \in {"known", "duplicate"} => feeds[job[j].content] # 0,
         job[j].phase # "stored"
  PROVE  IInv'
<1>1. job[j].finished \in 0..MaxTime
  BY DEF IInv, TypeOK
<1>2. job' = [job EXCEPT ![j].phase = phase, ![j].finished = job[j].finished]
  BY DEF Enter, IInv, TypeOK
<1> QED
  BY <1>1, <1>2, JobStep

LEMMA RunStep == ASSUME IInv, NEW j \in Jobs, Run(j) PROVE IInv'
<1>1. CASE Begin(j)
  <2>1. /\ "downloading" \in Phases /\ "downloading" \notin Holding
        /\ Enter(j, "downloading") /\ job[j].phase # "stored"
    BY <1>1 DEF Begin, Phases, Holding
  <2> QED
    BY <1>1, <2>1, EnterStep DEF Begin
<1>2. CASE Download(j)
  BY <1>2, DownloadStep
<1>3. CASE LookUp(j)
  <2>1. /\ "known" \in Phases /\ "new" \in Phases /\ job[j].phase \in Holding
        /\ job[j].phase # "stored"
    BY <1>3 DEF LookUp, Phases, Holding
  <2>2. CASE feeds[job[j].content] # 0
    BY <1>3, <2>1, <2>2, EnterStep DEF LookUp
  <2>3. CASE feeds[job[j].content] = 0
    BY <1>3, <2>1, <2>3, EnterStep DEF LookUp
  <2> QED
    BY <2>2, <2>3
<1>4. CASE FinishDuplicate(j)
  <2>1. /\ "duplicate" \in Phases /\ job[j].phase \in Holding /\ job[j].phase # "stored"
        /\ feeds[job[j].content] # 0
    BY <1>4 DEF FinishDuplicate, Phases, Final, Holding, IInv, JobFacts
  <2> QED
    BY <1>4, <2>1, EnterStep DEF FinishDuplicate
<1>5. CASE InsertFeed(j)
  <2>1. /\ "loading" \in Phases /\ job[j].phase \in Holding /\ job[j].phase \notin Final
        /\ job[j].phase # "stored"
    BY <1>5 DEF InsertFeed, Phases, Holding, Final
  <2>2. CASE feeds[job[j].content] # 0
    BY <1>5, <2>1, <2>2, FailStep DEF InsertFeed
  <2>3. CASE feeds[job[j].content] = 0
    BY <1>5, <2>1, <2>3, EnterStep DEF InsertFeed
  <2> QED
    BY <2>2, <2>3
<1>6. CASE Store(j)
  BY <1>6, StoreStep
<1>7. CASE Fail(j)
  <2>1. job[j].phase \notin Final
    BY <1>7 DEF Fail, Final
  <2> QED
    BY <1>7, <2>1, FailStep DEF Fail
<1>8. CASE RecordFailure(j)
  <2>1. /\ "failed" \in Phases /\ "refused" \in Phases
        /\ "failed" \notin Holding /\ "refused" \notin Holding /\ job[j].phase # "stored"
    BY <1>8 DEF RecordFailure, Phases, Final, Holding
  <2>2. CASE job[j].finished >= clock
    BY <1>8, <2>1, <2>2, EnterStep DEF RecordFailure
  <2>3. CASE ~(job[j].finished >= clock)
    BY <1>8, <2>1, <2>3, EnterStep DEF RecordFailure
  <2> QED
    BY <2>2, <2>3
<1>9. CASE Crash(j)
  <2>1. "crashed" \in Phases /\ "crashed" \notin Holding /\ job[j].phase # "stored"
    BY <1>9 DEF Crash, Phases, Final, Holding
  <2> QED
    BY <1>9, <2>1, EnterStep DEF Crash
<1> QED
  BY <1>1, <1>2, <1>3, <1>4, <1>5, <1>6, <1>7, <1>8, <1>9 DEF Run

LEMMA NextIInv == IInv /\ [Next]_vars => IInv'
<1> SUFFICES ASSUME IInv, [Next]_vars PROVE IInv'
  OBVIOUS
<1>1. CASE Tick
  <2>1. clock' \in 1..MaxTime /\ clock' = clock + 1 /\ UNCHANGED <<published, feeds, job, reading, index, overtaken>>
    BY <1>1, FeedAssumption DEF Tick, loader, IInv, TypeOK
  <2>2. TypeOK'
    BY <2>1 DEF IInv, TypeOK
  <2>3. JobFacts'
    <3>1. \A j \in Jobs : job[j].received \in Nat /\ clock \in Nat
      BY FeedAssumption DEF IInv, TypeOK
    <3> QED
      BY <2>1, <3>1 DEF IInv, JobFacts
  <2>4. OneEach' /\ LoaderFacts'
    BY <2>1 DEF IInv, OneEach, LoaderFacts, LatestFeed, Stored
  <2> QED
    BY <2>2, <2>3, <2>4 DEF IInv
<1>2. CASE Publish
  <2>1. TypeOK'
    BY <1>2 DEF Publish, loader, IInv, TypeOK
  <2>2. JobFacts' /\ OneEach' /\ LoaderFacts'
    BY <1>2 DEF Publish, loader, IInv, JobFacts, OneEach, LoaderFacts, LatestFeed, Stored
  <2> QED
    BY <2>1, <2>2 DEF IInv
<1>3. CASE ReadTrips
  <2>1. /\ reading' = LatestFeed /\ overtaken' = FALSE /\ Stored # {}
        /\ UNCHANGED <<clock, published, feeds, job, index>>
    BY <1>3 DEF ReadTrips
  <2>2. LatestFeed \in Feed /\ LatestFeed # Nothing
    BY <2>1, LatestFacts DEF IInv, Feed
  <2>3. TypeOK'
    BY <2>1, <2>2 DEF IInv, TypeOK
  <2>4. JobFacts' /\ OneEach'
    BY <2>1 DEF IInv, JobFacts, OneEach
  <2>5. LatestFeed' = LatestFeed /\ Stored' = Stored
    BY <2>1 DEF LatestFeed, Stored
  <2>6. LoaderFacts'
    BY <2>1, <2>2, <2>5 DEF LoaderFacts
  <2> QED
    BY <2>3, <2>4, <2>6 DEF IInv
<1>4. CASE ReadStops
  <2>1. /\ reading # Nothing /\ reading' = Nothing /\ index' = [trips |-> reading, stops |-> LatestFeed]
        /\ UNCHANGED <<clock, published, feeds, job, overtaken>>
    BY <1>4 DEF ReadStops
  <2>2. TypeOK'
    BY <2>1, LatestType DEF IInv, TypeOK, Feed
  <2>3. JobFacts' /\ OneEach'
    BY <2>1 DEF IInv, JobFacts, OneEach
  <2>4. LatestFeed' = LatestFeed /\ Stored' = Stored
    BY <2>1 DEF LatestFeed, Stored
  <2>5. LoaderFacts'
    BY <2>1, <2>4 DEF IInv, LoaderFacts
  <2> QED
    BY <2>2, <2>3, <2>5 DEF IInv
<1>5. ASSUME NEW j \in Jobs, Run(j) PROVE IInv'
  BY <1>5, RunStep
<1>6. CASE UNCHANGED vars
  <2>1. TypeOK'
    BY <1>6 DEF vars, IInv, TypeOK
  <2>2. JobFacts' /\ OneEach' /\ LoaderFacts'
    BY <1>6 DEF vars, IInv, JobFacts, OneEach, LoaderFacts, LatestFeed, Stored
  <2> QED
    BY <2>1, <2>2 DEF IInv
<1> QED
  BY <1>1, <1>2, <1>3, <1>4, <1>5, <1>6 DEF Next

-----------------------------------------------------------------------------
(* Counting the runs: none or one has stored a content. *)
LEMMA StoredOnce == IInv => OneRunStoresAContent
<1> SUFFICES ASSUME IInv, NEW c \in Contents
             PROVE  LET of(phase) == {j \in Jobs : job[j].phase = phase /\ job[j].content = c}
                    IN /\ Cardinality(of("stored")) = IF feeds[c] = 0 THEN 0 ELSE 1
                       /\ \A j \in of("stored") : feeds[c] = job[j].received
                       /\ of("duplicate") # {} => feeds[c] # 0
  BY DEF OneRunStoresAContent
<1> DEFINE stored == {j \in Jobs : job[j].phase = "stored" /\ job[j].content = c}
           duplicate == {j \in Jobs : job[j].phase = "duplicate" /\ job[j].content = c}
<1>1. \A j \in stored : feeds[c] = job[j].received /\ job[j].received # 0
  BY DEF IInv, JobFacts, Holding
<1>2. duplicate # {} => feeds[c] # 0
  BY DEF IInv, JobFacts
<1>3. CASE feeds[c] = 0
  <2>1. stored = {}
    BY <1>1, <1>3
  <2> QED
    BY <1>1, <1>2, <1>3, <2>1, FS_EmptySet
<1>4. CASE feeds[c] # 0
  <2>1. PICK j \in Jobs : job[j].phase = "stored" /\ job[j].content = c
    BY <1>4 DEF IInv, OneEach
  <2>2. stored = {j}
    BY <2>1 DEF IInv, OneEach
  <2>3. Cardinality(stored) = 1
    BY <2>2, FS_Singleton
  <2> QED
    BY <1>1, <1>2, <1>4, <2>3
<1> QED
  BY <1>3, <1>4

LEMMA CurrentIndex == IInv => IndexIsCurrentUnlessOvertaken
<1> SUFFICES ASSUME IInv, ~overtaken, reading = Nothing
             PROVE  /\ index.trips = index.stops
                    /\ \E j \in Jobs :
                         /\ job[j].phase = "stored" /\ job[j].content = index.trips
                         /\ \A k \in Jobs : job[k].phase = "stored" => job[k].received <= job[j].received
  BY DEF IndexIsCurrentUnlessOvertaken
<1>1. Stored # {} /\ index.trips = LatestFeed /\ index.stops = LatestFeed
  BY DEF IInv, LoaderFacts
<1>2. /\ LatestFeed \in Contents /\ feeds[LatestFeed] # 0
      /\ \A c \in Stored : feeds[LatestFeed] >= feeds[c]
  BY <1>1, LatestFacts DEF IInv, Stored
<1>3. PICK j \in Jobs : job[j].phase = "stored" /\ job[j].content = LatestFeed
  BY <1>2 DEF IInv, OneEach
<1>4. feeds[LatestFeed] = job[j].received
  BY <1>3 DEF IInv, JobFacts
<1>5. ASSUME NEW k \in Jobs, job[k].phase = "stored"
      PROVE  job[k].received <= job[j].received
  <2>1. /\ job[k].content \in Contents /\ feeds[job[k].content] = job[k].received
        /\ job[k].received # 0
    BY <1>5 DEF IInv, JobFacts, Holding
  <2>2. job[k].content \in Stored
    BY <2>1 DEF Stored
  <2>3. job[j].received >= job[k].received /\ job[k].received \in Int /\ job[j].received \in Int
    BY <1>2, <1>4, <2>1, <2>2 DEF IInv, TypeOK
  <2> QED
    BY <2>3
<1> QED
  BY <1>1, <1>3, <1>5

(* Types of the clock, the runs, the feeds and the loader.                 *)
THEOREM FeedTypes == Spec => []TypeOK
<1>1. Spec => []IInv
  BY InitIInv, NextIInv, PTL DEF Spec
<1> QED
  BY <1>1, PTL DEF IInv

(* A feed was stored by exactly one run, with the time of its download,    *)
(* and a duplicate is of a feed that is there.                             *)
THEOREM RunsAndFeedsAgree == Spec => []OneRunStoresAContent
<1>1. Spec => []IInv
  BY InitIInv, NextIInv, PTL DEF Spec
<1> QED
  BY <1>1, StoredOnce, PTL

(* Unless a feed was committed meanwhile, the index is made of one feed,   *)
(* the one whose download ended last.                                      *)
THEOREM IndexOfLastDownload == Spec => []IndexIsCurrentUnlessOvertaken
<1>1. Spec => []IInv
  BY InitIInv, NextIInv, PTL DEF Spec
<1> QED
  BY <1>1, CurrentIndex, PTL

-----------------------------------------------------------------------------
(* What the statements of loads have read so far, overtaken or not: feeds  *)
(* that are stored, each downloaded no later than the next.                *)
ReadInOrder ==
  /\ reading # Nothing => reading \in Stored
  /\ index.stops # Nothing => index.stops \in Stored
  /\ reading # Nothing /\ index.stops # Nothing => feeds[index.stops] <= feeds[reading]

(* A stored feed is never stored again, with another time.                 *)
LEMMA StoredForGood ==
  IInv /\ [Next]_vars => \A c \in Stored : c \in Stored' /\ feeds'[c] = feeds[c]
<1> SUFFICES ASSUME IInv, [Next]_vars, NEW c \in Stored
             PROVE  c \in Stored' /\ feeds'[c] = feeds[c]
  OBVIOUS
<1>1. CASE UNCHANGED feeds
  BY <1>1 DEF Stored
<1>2. ASSUME NEW j \in Jobs, Store(j) PROVE c \in Stored' /\ feeds'[c] = feeds[c]
  <2>1. job[j].content # c
    BY <1>2 DEF Store, IInv, JobFacts, Stored
  <2>2. feeds'[c] = feeds[c]
    BY <1>2, <2>1 DEF Store, Stored, IInv, TypeOK
  <2> QED
    BY <2>2 DEF Stored
<1>3. (\E j \in Jobs : Store(j)) \/ UNCHANGED feeds
  BY DEF Next, Run, Tick, Publish, ReadTrips, ReadStops, Begin, Download, LookUp, FinishDuplicate,
         InsertFeed, Fail, RecordFailure, Crash, vars
<1> QED
  BY <1>1, <1>2, <1>3

(* Only the two statements of a load change what it has read.              *)
LEMMA OtherStepsReadNothing ==
  [Next]_vars => ReadTrips \/ ReadStops \/ UNCHANGED <<reading, index>>
<1> SUFFICES ASSUME [Next]_vars, ~ReadTrips, ~ReadStops PROVE UNCHANGED <<reading, index>>
  OBVIOUS
<1> QED
  BY DEF Next, Run, Tick, Publish, Begin, Download, LookUp, FinishDuplicate,
         InsertFeed, Store, Fail, RecordFailure, Crash, vars, loader

LEMMA ReadInOrderInit == Init => ReadInOrder
  BY DEF Init, ReadInOrder

LEMMA ReadInOrderStep == IInv /\ ReadInOrder /\ [Next]_vars => ReadInOrder'
<1> SUFFICES ASSUME IInv, ReadInOrder, [Next]_vars PROVE ReadInOrder'
  OBVIOUS
<1>1. \A c \in Stored : c \in Stored' /\ feeds'[c] = feeds[c]
  BY StoredForGood
<1>2. CASE ReadTrips
  <2>1. /\ reading' = LatestFeed /\ index' = index /\ feeds' = feeds /\ Stored' = Stored
        /\ Stored # {}
    BY <1>2 DEF ReadTrips, Stored
  <2>2. LatestFeed \in Stored /\ \A c \in Stored : feeds[c] <= feeds[LatestFeed]
    <3>1. \A c \in Stored : feeds[c] \in Nat
      BY FeedAssumption DEF IInv, TypeOK, Stored
    <3> QED
      BY <2>1, <3>1, LatestFacts DEF IInv
  <2> QED
    BY <2>1, <2>2 DEF ReadInOrder
<1>3. CASE ReadStops
  <2>1. /\ reading \in Stored /\ reading' = Nothing /\ index'.stops = LatestFeed
        /\ Stored' = Stored
    BY <1>3 DEF ReadStops, ReadInOrder, Stored
  <2>2. LatestFeed \in Stored
    BY <2>1, LatestFacts DEF IInv
  <2> QED
    BY <2>1, <2>2 DEF ReadInOrder
<1>4. CASE UNCHANGED <<reading, index>>
  BY <1>1, <1>4 DEF ReadInOrder
<1> QED
  BY <1>2, <1>3, <1>4, OtherStepsReadNothing

(* Of two stored feeds the one with the later time is not the older one.   *)
LEMMA LaterIsNotOlder ==
  ASSUME IInv, NEW c \in Stored, NEW d, d \in Stored => feeds[d] <= feeds[c]
  PROVE  ~Older(c, d)
<1> SUFFICES ASSUME NEW j \in Jobs, NEW k \in Jobs,
                    job[j].phase = "stored", job[j].content = c,
                    job[k].phase = "stored", job[k].content = d,
                    job[j].received < job[k].received
             PROVE  FALSE
  BY DEF Older
<1>1. feeds[c] = job[j].received /\ feeds[d] = job[k].received /\ d \in Contents
      /\ job[k].received # 0
  BY DEF IInv, JobFacts, Holding
<1>2. job[j].received \in Nat /\ job[k].received \in Nat
  BY FeedAssumption DEF IInv, TypeOK
<1>3. d \in Stored
  BY <1>1 DEF Stored
<1> QED
  BY <1>1, <1>2, <1>3

(* Overtaken or not, every statement of a load reads a feed downloaded no  *)
(* earlier than the one before, for any number of runs and contents.       *)
THEOREM IndexOnlyAdvances == Spec => IndexNeverGoesBack
<1> DEFINE Advances == ~Older(index'.stops, index'.trips) /\ ~Older(index'.trips, index.stops)
<1>1. ASSUME IInv, ReadInOrder, [Next]_vars PROVE [Advances]_index
  <2> SUFFICES ASSUME index' # index PROVE Advances
    OBVIOUS
  <2>1. ReadStops
    BY <1>1, OtherStepsReadNothing DEF ReadTrips
  <2>2. index'.trips = reading /\ index'.stops = LatestFeed
    BY <2>1 DEF ReadStops
  <2>3. reading \in Stored
    BY <1>1, <2>1 DEF ReadStops, ReadInOrder
  <2>4. /\ LatestFeed \in Stored
        /\ \A c \in Stored : feeds[c] <= feeds[LatestFeed]
    <3>1. \A c \in Stored : feeds[c] \in Nat
      BY <1>1, FeedAssumption DEF IInv, TypeOK, Stored
    <3> QED
      BY <1>1, <2>3, <3>1, LatestFacts DEF IInv
  <2>5. index.stops \in Stored => feeds[index.stops] <= feeds[reading]
    BY <1>1, <2>3, FeedAssumption DEF ReadInOrder, Stored
  <2>6. ~Older(LatestFeed, reading)
    BY <1>1, <2>3, <2>4, LaterIsNotOlder
  <2>7. ~Older(reading, index.stops)
    BY <1>1, <2>3, <2>5, LaterIsNotOlder
  <2> QED
    BY <2>2, <2>6, <2>7
<1>2. Spec => []IInv
  BY InitIInv, NextIInv, PTL DEF Spec
<1>3. Spec => []ReadInOrder
  BY <1>2, ReadInOrderInit, ReadInOrderStep, PTL DEF Spec
<1> QED
  BY <1>1, <1>2, <1>3, PTL DEF Spec, IndexNeverGoesBack

-----------------------------------------------------------------------------
(***************************************************************************)
(* The projection, for any places and any pattern.                         *)
(***************************************************************************)
LEMMA LeastExists ==
  ASSUME NEW S \in SUBSET Nat, S # {}
  PROVE  \E least \in S : \A n \in S : least <= n
<1>1. PICK least \in S : \A n \in S : ~(<<n, least>> \in OpToRel(<, Nat))
  BY NatLessThanWellFounded, WFMin
<1>2. \A n \in S : ~(n < least)
  BY <1>1 DEF OpToRel
<1> QED
  BY <1>2

LEMMA Induction ==
  ASSUME NEW P \in SUBSET Nat, 0 \in P, \A n \in P : n + 1 \in P
  PROVE  P = Nat
<1> SUFFICES ASSUME Nat \ P # {} PROVE FALSE
  OBVIOUS
<1>1. PICK least \in Nat \ P : \A n \in Nat \ P : least <= n
  BY LeastExists
<1>2. least # 0
  OBVIOUS
<1>3. least - 1 \in P
  BY <1>1, <1>2
<1>4. (least - 1) + 1 \in P
  BY <1>3
<1> QED
  BY <1>4

(* A function defined by recursion from 1 to N exists. *)
Recurs(f, N, start, step) == f[1] = start /\ \A n \in 2..N : f[n] = step[n][f[n - 1]]

LEMMA Recursion ==
  ASSUME NEW N \in Nat \ {0}, NEW T, NEW start \in T, NEW step \in [2..N -> [T -> T]]
  PROVE  \E f \in [1..N -> T] : Recurs(f, N, start, step)
<1> DEFINE P == {m \in Nat : m + 1 <= N => \E f \in [1..(m + 1) -> T] : Recurs(f, m + 1, start, step)}
<1>1. 0 \in P
  <2>1. [n \in 1..1 |-> start] \in [1..1 -> T]
    OBVIOUS
  <2>2. Recurs([n \in 1..1 |-> start], 1, start, step)
    BY DEF Recurs
  <2>3. 0 + 1 = 1
    OBVIOUS
  <2> QED
    BY <2>1, <2>2, <2>3
<1>2. ASSUME NEW l \in P PROVE l + 1 \in P
  <2> DEFINE m == l + 1
  <2>n. l \in Nat /\ m \in Nat /\ m >= 1
    OBVIOUS
  <2> SUFFICES ASSUME m + 1 <= N
               PROVE  \E f \in [1..(m + 1) -> T] : Recurs(f, m + 1, start, step)
    BY <2>n
  <2>1. PICK f \in [1..m -> T] : Recurs(f, m, start, step)
    BY <2>n
  <2> HIDE DEF m
  <2> DEFINE g == [n \in 1..(m + 1) |-> IF n = m + 1 THEN step[m + 1][f[m]] ELSE f[n]]
  <2>2. step[m + 1] \in [T -> T] /\ f[m] \in T
    BY <2>n
  <2>3. step[m + 1][f[m]] \in T
    BY <2>2
  <2>4. g \in [1..(m + 1) -> T]
    <3>1. \A n \in 1..(m + 1) : n = m + 1 \/ n \in 1..m
      BY <2>n
    <3>2. \A n \in 1..(m + 1) : g[n] \in T
      BY <2>3, <3>1
    <3> QED
      BY <3>2
  <2>5. Recurs(g, m + 1, start, step)
    <3>1. g[1] = start
      BY <2>1, <2>n DEF Recurs
    <3>2. ASSUME NEW n \in 2..(m + 1) PROVE g[n] = step[n][g[n - 1]]
      <4>1. CASE n = m + 1
        BY <2>n, <4>1
      <4>2. CASE n \in 2..m
        <5>1. f[n] = step[n][f[n - 1]]
          BY <2>1, <4>2 DEF Recurs
        <5> QED
          BY <2>n, <4>2, <5>1
      <4> QED
        BY <2>n, <4>1, <4>2
    <3> QED
      BY <3>1, <3>2 DEF Recurs
  <2> HIDE DEF g
  <2> QED
    BY <2>4, <2>5
<1>3. P = Nat
  <2>1. P \in SUBSET Nat
    OBVIOUS
  <2> HIDE DEF P
  <2> QED
    BY <1>1, <1>2, <2>1, Induction
<1>4. N - 1 \in P /\ (N - 1) + 1 = N
  <2> HIDE DEF P
  <2> QED
    BY <1>3
<1> QED
  BY <1>4

(* The cost of a path, by the sums of its distances. *)
ArePlaces(Places) == \A c \in Places : c.progress \in Nat /\ c.distance \in Nat

SumsTo(f, path, n) == f[0] = 0 /\ \A k \in 1..n : f[k] = f[k - 1] + path[k].distance

Sums(f, path) == SumsTo(f, path, Len(path))

LEMMA SumExists ==
  ASSUME NEW Places, ArePlaces(Places), NEW path \in Seq(Places)
  PROVE  \E f \in [0..Len(path) -> Nat] : Sums(f, path)
<1> DEFINE N == Len(path)
           P == {m \in Nat : m <= N => \E f \in [0..m -> Nat] : SumsTo(f, path, m)}
<1>n. N \in Nat /\ \A k \in 1..N : path[k].distance \in Nat
  BY DEF ArePlaces
<1> HIDE DEF N
<1>1. 0 \in P
  <2>1. [n \in 0..0 |-> 0] \in [0..0 -> Nat] /\ SumsTo([n \in 0..0 |-> 0], path, 0)
    BY DEF SumsTo
  <2> QED
    BY <2>1
<1>2. ASSUME NEW m \in P PROVE m + 1 \in P
  <2> SUFFICES ASSUME m + 1 <= N
               PROVE  \E f \in [0..(m + 1) -> Nat] : SumsTo(f, path, m + 1)
    OBVIOUS
  <2>1. PICK f \in [0..m -> Nat] : SumsTo(f, path, m)
    BY <1>n
  <2> DEFINE g == [n \in 0..(m + 1) |-> IF n = m + 1 THEN f[m] + path[m + 1].distance ELSE f[n]]
  <2>2. m \in Nat /\ f[m] \in Nat /\ path[m + 1].distance \in Nat
    BY <1>n
  <2>3. g \in [0..(m + 1) -> Nat]
    <3>1. \A n \in 0..(m + 1) : g[n] \in Nat
      BY <2>2
    <3> QED
      BY <3>1
  <2>4. SumsTo(g, path, m + 1)
    <3>1. g[0] = 0
      BY <2>1 DEF SumsTo
    <3>2. ASSUME NEW n \in 1..(m + 1) PROVE g[n] = g[n - 1] + path[n].distance
      <4>1. CASE n = m + 1
        BY <4>1
      <4>2. CASE n \in 1..m
        BY <2>1, <4>2 DEF SumsTo
      <4> QED
        BY <4>1, <4>2
    <3> QED
      BY <3>1, <3>2 DEF SumsTo
  <2> HIDE DEF g
  <2> QED
    BY <2>3, <2>4
<1>3. N \in P
  <2>1. P \in SUBSET Nat
    OBVIOUS
  <2> HIDE DEF P
  <2> QED
    BY <1>1, <1>2, <1>n, <2>1, Induction
<1> QED
  BY <1>3, <1>n DEF Sums, N

LEMMA CostIsSum ==
  ASSUME NEW Places, ArePlaces(Places), NEW path \in Seq(Places), NEW f \in [0..Len(path) -> Nat],
         Sums(f, path)
  PROVE  Projection!Cost(path) = f[Len(path)]
<1> DEFINE Defines(g) == g = [k \in 0..Len(path) |-> IF k = 0 THEN 0 ELSE g[k - 1] + path[k].distance]
           sum == CHOOSE g : Defines(g)
<1>1. Len(path) \in Nat
  OBVIOUS
<1>2. Defines(f)
  <2>1. \A k \in 0..Len(path) : f[k] = IF k = 0 THEN 0 ELSE f[k - 1] + path[k].distance
    BY <1>1 DEF Sums, SumsTo
  <2>2. f = [k \in 0..Len(path) |-> f[k]]
    OBVIOUS
  <2> QED
    BY <2>1, <2>2
<1>3. Defines(sum)
  <2> HIDE DEF Defines
  <2> QED
    BY <1>2
<1>4. Projection!Cost(path) = sum[Len(path)]
  BY DEF Projection!Cost
<1>5. \A k \in 0..Len(path) : sum[k] = IF k = 0 THEN 0 ELSE sum[k - 1] + path[k].distance
  <2> HIDE DEF sum
  <2> QED
    BY <1>3, Zenon
<1> HIDE DEF sum
<1> DEFINE P == {m \in Nat : m <= Len(path) => sum[m] = f[m]}
<1>6. 0 \in P
  BY <1>1, <1>5 DEF Sums, SumsTo
<1>7. ASSUME NEW m \in P PROVE m + 1 \in P
  <2> SUFFICES ASSUME m + 1 <= Len(path) PROVE sum[m + 1] = f[m + 1]
    OBVIOUS
  <2>1. sum[m] = f[m] /\ m + 1 # 0 /\ m + 1 \in 1..Len(path) /\ (m + 1) - 1 = m
    BY <1>1
  <2>2. sum[m + 1] = sum[m] + path[m + 1].distance
    BY <1>5, <2>1
  <2>3. f[m + 1] = f[m] + path[m + 1].distance
    BY <2>1 DEF Sums, SumsTo
  <2> QED
    BY <2>1, <2>2, <2>3
<1>8. Len(path) \in P
  <2>1. P \in SUBSET Nat
    OBVIOUS
  <2> HIDE DEF P
  <2> QED
    BY <1>1, <1>6, <1>7, <2>1, Induction
<1> QED
  BY <1>4, <1>8

LEMMA CostOfOne ==
  ASSUME NEW Places, ArePlaces(Places), NEW c \in Places
  PROVE  Projection!Cost(<<c>>) = c.distance
<1> DEFINE f == [k \in 0..1 |-> IF k = 0 THEN 0 ELSE c.distance]
<1>1. c.distance \in Nat
  BY DEF ArePlaces
<1>2. <<c>> \in Seq(Places) /\ Len(<<c>>) = 1 /\ <<c>>[1] = c
  OBVIOUS
<1>3. f \in [0..1 -> Nat] /\ f[0] = 0 /\ f[1] = c.distance
  BY <1>1
<1> HIDE DEF f
<1>4. Sums(f, <<c>>)
  BY <1>1, <1>2, <1>3 DEF Sums, SumsTo
<1> QED
  BY <1>2, <1>3, <1>4, CostIsSum

LEMMA CostOfAppend ==
  ASSUME NEW Places, ArePlaces(Places), NEW path \in Seq(Places), NEW c \in Places
  PROVE  /\ Projection!Cost(path) \in Nat
         /\ Projection!Cost(Append(path, c)) = Projection!Cost(path) + c.distance
<1>1. PICK f \in [0..Len(path) -> Nat] : Sums(f, path)
  BY SumExists
<1> DEFINE n == Len(path)
           g == [k \in 0..(n + 1) |-> IF k = n + 1 THEN f[n] + c.distance ELSE f[k]]
<1>2. n \in Nat /\ c.distance \in Nat /\ f[n] \in Nat
  BY DEF ArePlaces
<1>3. Projection!Cost(path) = f[n]
  BY <1>1, CostIsSum
<1>4. /\ Append(path, c) \in Seq(Places) /\ Len(Append(path, c)) = n + 1
      /\ Append(path, c)[n + 1] = c /\ \A k \in 1..n : Append(path, c)[k] = path[k]
  OBVIOUS
<1> HIDE DEF n
<1>5. g \in [0..(n + 1) -> Nat]
  <2>1. \A k \in 0..(n + 1) : g[k] \in Nat
    BY <1>2 DEF n
  <2> QED
    BY <2>1
<1>6. Sums(g, Append(path, c))
  <2>1. g[0] = 0
    BY <1>1, <1>2 DEF Sums, SumsTo
  <2>2. ASSUME NEW k \in 1..(n + 1) PROVE g[k] = g[k - 1] + Append(path, c)[k].distance
    <3>1. CASE k = n + 1
      BY <1>2, <1>4, <3>1
    <3>2. CASE k \in 1..n
      <4>1. f[k] = f[k - 1] + path[k].distance
        BY <1>1, <3>2 DEF Sums, SumsTo, n
      <4>2. k \in 0..(n + 1) /\ k - 1 \in 0..(n + 1) /\ k # n + 1 /\ k - 1 # n + 1
        BY <1>2, <3>2
      <4>3. g[k] = f[k] /\ g[k - 1] = f[k - 1]
        BY <4>2
      <4>4. Append(path, c)[k] = path[k]
        BY <1>4, <3>2
      <4> QED
        BY <4>1, <4>3, <4>4
    <3>3. k = n + 1 \/ k \in 1..n
      BY <1>2
    <3> QED
      BY <3>1, <3>2, <3>3
  <2> QED
    BY <1>4, <2>1, <2>2 DEF Sums, SumsTo
<1>7. g[n + 1] = f[n] + c.distance
  BY <1>2
<1> HIDE DEF g
<1>8. Projection!Cost(Append(path, c)) = g[n + 1]
  BY <1>4, <1>5, <1>6, CostIsSum
<1> QED
  BY <1>2, <1>3, <1>7, <1>8

(* Of the ways to a place the code keeps one of least cost. *)
Entries(Places) == [cost : Nat, path : Seq(Places) \ {<<>>}]

LEMMA LastPlace ==
  ASSUME NEW Places, NEW path \in Seq(Places) \ {<<>>}
  PROVE  /\ Len(path) \in Nat \ {0} /\ Projection!Last(path) = path[Len(path)]
         /\ Projection!Last(path) \in Places
  BY DEF Projection!Last

LEMMA CheapestFacts ==
  ASSUME NEW Places, ArePlaces(Places), NEW B \in SUBSET Entries(Places), B # {}
  PROVE  /\ Projection!Cheapest(B) \in B
         /\ \A q \in B : Projection!Cheapest(B).cost <= q.cost
<1> DEFINE Progress(p) == Projection!Last(p.path).progress
           Best(p) == \A q \in B : \/ p.cost < q.cost
                                   \/ p.cost = q.cost /\ Progress(p) <= Progress(q)
<1>1. ASSUME NEW p \in B PROVE p.cost \in Nat /\ Progress(p) \in Nat
  <2>1. p.cost \in Nat /\ p.path \in Seq(Places) \ {<<>>}
    BY DEF Entries
  <2>2. Projection!Last(p.path) \in Places
    BY <2>1, LastPlace
  <2> QED
    BY <2>1, <2>2 DEF ArePlaces
<1> HIDE DEF Progress
<1>2. PICK cost \in {p.cost : p \in B} : \A n \in {p.cost : p \in B} : cost <= n
  <2>1. {p.cost : p \in B} \in SUBSET Nat /\ {p.cost : p \in B} # {}
    BY <1>1
  <2> QED
    BY <2>1, LeastExists
<1>3. cost \in Nat /\ \A p \in B : cost <= p.cost
  BY <1>1, <1>2
<1> DEFINE C == {p \in B : p.cost = cost}
<1>4. PICK progress \in {Progress(p) : p \in C} : \A n \in {Progress(p) : p \in C} : progress <= n
  <2>1. {Progress(p) : p \in C} \in SUBSET Nat /\ {Progress(p) : p \in C} # {}
    BY <1>1, <1>2
  <2> HIDE DEF C
  <2> QED
    BY <2>1, LeastExists
<1>5. PICK best \in C : Progress(best) = progress
  BY <1>4
<1>6. best \in B /\ best.cost = cost /\ \A q \in C : Progress(best) <= Progress(q)
  BY <1>4, <1>5
<1>7. Best(best)
  <2> SUFFICES ASSUME NEW q \in B
               PROVE  \/ best.cost < q.cost
                      \/ best.cost = q.cost /\ Progress(best) <= Progress(q)
    OBVIOUS
  <2>1. CASE q.cost = cost
    BY <1>6, <2>1
  <2>2. CASE q.cost # cost
    BY <1>1, <1>3, <1>6, <2>2
  <2> QED
    BY <2>1, <2>2
<1>8. Projection!Cheapest(B) = CHOOSE p \in B : Best(p)
  BY DEF Projection!Cheapest, Progress
<1>9. Projection!Cheapest(B) \in B /\ Best(Projection!Cheapest(B))
  <2> HIDE DEF Best
  <2> QED
    BY <1>6, <1>7, <1>8
<1>10. ASSUME NEW q \in B PROVE Projection!Cheapest(B).cost <= q.cost
  BY <1>1, <1>9
<1> QED
  BY <1>9, <1>10

(* The way a place is reached in the code's inner loop. *)
Behind(S, c) == {p \in S : Projection!Reaches(p.path, c)}
Predecessor(S, c) == Projection!Cheapest(Behind(S, c))
Onward(S, c) == [cost |-> Predecessor(S, c).cost + c.distance,
                 path |-> Append(Predecessor(S, c).path, c)]

LEMMA ExtendedIs ==
  ASSUME NEW S, NEW window
  PROVE  Projection!Extended(S, window) = {Onward(S, c) : c \in {c \in window : Behind(S, c) # {}}}
<1>1. \A c : Behind(S, c) # {} <=> \E p \in S : Projection!Reaches(p.path, c)
  BY DEF Behind
<1> QED
  BY <1>1 DEF Projection!Extended, Onward, Predecessor, Behind

LEMMA OnwardFacts ==
  ASSUME NEW Places, ArePlaces(Places), NEW S \in SUBSET Entries(Places), NEW c \in Places,
         Behind(S, c) # {}
  PROVE  /\ Predecessor(S, c) \in S /\ Projection!Reaches(Predecessor(S, c).path, c)
         /\ Predecessor(S, c).cost \in Nat /\ Predecessor(S, c).path \in Seq(Places) \ {<<>>}
         /\ \A q \in Behind(S, c) : Predecessor(S, c).cost <= q.cost
         /\ Onward(S, c) \in Entries(Places)
<1> DEFINE best == Predecessor(S, c)
<1>1. Behind(S, c) \in SUBSET Entries(Places)
  BY DEF Behind
<1>b. Behind(S, c) # {}
  OBVIOUS
<1>2. best \in Behind(S, c) /\ \A q \in Behind(S, c) : best.cost <= q.cost
  BY <1>1, <1>b, CheapestFacts DEF Predecessor
<1>3. best \in S /\ Projection!Reaches(best.path, c)
  BY <1>2 DEF Behind
<1>4. best.cost \in Nat /\ best.path \in Seq(Places) \ {<<>>} /\ c.distance \in Nat
  BY <1>3 DEF Entries, ArePlaces
<1>5. Onward(S, c) = [cost |-> best.cost + c.distance, path |-> Append(best.path, c)]
  BY DEF Onward
<1> HIDE DEF best
<1>6. Append(best.path, c) \in Seq(Places) \ {<<>>} /\ best.cost + c.distance \in Nat
  <2>1. Append(best.path, c) \in Seq(Places) /\ Len(Append(best.path, c)) = Len(best.path) + 1
    BY <1>4
  <2>2. Len(best.path) \in Nat /\ Len(<<>>) = 0
    BY <1>4
  <2> QED
    BY <1>4, <2>1, <2>2
<1> QED
  BY <1>2, <1>3, <1>4, <1>5, <1>6 DEF Entries, best

(* A path over the first k windows, and a set of the cheapest ones to all  *)
(* the places where one can end.                                           *)
IsPath(p, Places, windows, k) ==
  /\ p \in Seq(Places) /\ Len(p) = k
  /\ \A i \in 1..k : p[i] \in windows[i]
  /\ Projection!Monotone(p)

AreCheapest(S, Places, windows, k) ==
  /\ S \in SUBSET Entries(Places)
  /\ \A e \in S : IsPath(e.path, Places, windows, k) /\ e.cost = Projection!Cost(e.path)
  /\ \A p \in Seq(Places) : IsPath(p, Places, windows, k) =>
       \E e \in S : e.path[k] = p[k] /\ e.cost <= Projection!Cost(p)

LEMMA FirstCheapest ==
  ASSUME NEW Places, ArePlaces(Places), NEW windows \in Seq(SUBSET Places), windows # << >>
  PROVE  AreCheapest({[cost |-> c.distance, path |-> <<c>>] : c \in windows[1]}, Places, windows, 1)
<1> DEFINE S == {[cost |-> c.distance, path |-> <<c>>] : c \in windows[1]}
<1>1. windows[1] \in SUBSET Places
  OBVIOUS
<1>2. ASSUME NEW c \in windows[1]
      PROVE  /\ c.distance \in Nat /\ <<c>> \in Seq(Places) \ {<<>>}
             /\ Len(<<c>>) = 1 /\ <<c>>[1] = c
             /\ Projection!Cost(<<c>>) = c.distance
  <2>1. c \in Places
    BY <1>1
  <2>2. c.distance \in Nat
    BY <2>1 DEF ArePlaces
  <2>3. <<c>> \in Seq(Places) /\ <<c>> # <<>> /\ Len(<<c>>) = 1 /\ <<c>>[1] = c
    BY <2>1
  <2> QED
    BY <2>1, <2>2, <2>3, CostOfOne
<1>3. ASSUME NEW e \in S
      PROVE  /\ e \in Entries(Places) /\ IsPath(e.path, Places, windows, 1)
             /\ e.cost = Projection!Cost(e.path)
  <2>1. PICK c \in windows[1] : e = [cost |-> c.distance, path |-> <<c>>]
    OBVIOUS
  <2>2. e.path = <<c>> /\ e.cost = c.distance
    BY <2>1
  <2>3. Projection!Monotone(<<c>>)
    BY <1>2 DEF Projection!Monotone
  <2>4. \A i \in 1..1 : <<c>>[i] \in windows[i]
    BY <1>2
  <2> QED
    BY <1>2, <2>1, <2>2, <2>3, <2>4 DEF IsPath, Entries
<1>4. ASSUME NEW p \in Seq(Places), IsPath(p, Places, windows, 1)
      PROVE  \E e \in S : e.path[1] = p[1] /\ e.cost <= Projection!Cost(p)
  <2>1. Len(p) = 1 /\ p[1] \in windows[1]
    BY <1>4 DEF IsPath
  <2>2. p = <<p[1]>>
    BY <2>1
  <2> DEFINE e == [cost |-> p[1].distance, path |-> <<p[1]>>]
  <2>3. e \in S
    BY <2>1
  <2>4. Projection!Cost(p) = p[1].distance /\ p[1].distance \in Nat
    BY <1>2, <2>1, <2>2
  <2>5. e.path[1] = p[1] /\ e.cost <= Projection!Cost(p)
    BY <2>4
  <2> QED
    BY <2>3, <2>5
<1> QED
  BY <1>3, <1>4 DEF AreCheapest

LEMMA NextCheapest ==
  ASSUME NEW Places, ArePlaces(Places), NEW windows \in Seq(SUBSET Places),
         NEW k \in 1..(Len(windows) - 1), NEW S, AreCheapest(S, Places, windows, k)
  PROVE  AreCheapest(Projection!Extended(S, windows[k + 1]), Places, windows, k + 1)
<1> DEFINE window == windows[k + 1]
           next == Projection!Extended(S, window)
<1>1. window \in SUBSET Places /\ k \in Nat \ {0}
  <2>1. k + 1 \in 1..Len(windows)
    OBVIOUS
  <2> QED
    BY <2>1
<1>2. S \in SUBSET Entries(Places)
  BY DEF AreCheapest
<1>3. next = {Onward(S, c) : c \in {c \in window : Behind(S, c) # {}}}
  BY ExtendedIs
<1> HIDE DEF next
<1>4. ASSUME NEW path \in Seq(Places), IsPath(path, Places, windows, k), NEW c \in window,
             c.progress >= path[k].progress
      PROVE  IsPath(Append(path, c), Places, windows, k + 1)
  <2>1. /\ Append(path, c) \in Seq(Places) /\ Len(Append(path, c)) = k + 1
        /\ Append(path, c)[k + 1] = c /\ \A i \in 1..k : Append(path, c)[i] = path[i]
    BY <1>1, <1>4 DEF IsPath
  <2>2. \A i \in 1..(k + 1) : Append(path, c)[i] \in windows[i]
    <3>1. \A i \in 1..k : path[i] \in windows[i]
      BY <1>4 DEF IsPath
    <3>2. \A i \in 1..(k + 1) : i = k + 1 \/ i \in 1..k
      BY <1>1
    <3> QED
      BY <2>1, <3>1, <3>2
  <2>3. ASSUME NEW i \in 2..(k + 1)
        PROVE  Append(path, c)[i].progress >= Append(path, c)[i - 1].progress
    <3>1. CASE i = k + 1
      <4>1. i - 1 = k /\ k \in 1..k
        BY <1>1, <3>1
      <4> QED
        BY <1>4, <2>1, <3>1, <4>1
    <3>2. CASE i # k + 1
      <4>1. i \in 2..k /\ i \in 1..k /\ i - 1 \in 1..k
        BY <1>1, <3>2
      <4>2. path[i].progress >= path[i - 1].progress
        BY <1>4, <4>1 DEF IsPath, Projection!Monotone
      <4> QED
        BY <2>1, <4>1, <4>2
    <3> QED
      BY <3>1, <3>2
  <2> QED
    BY <2>1, <2>2, <2>3 DEF IsPath, Projection!Monotone
<1>5. ASSUME NEW p \in S
      PROVE  /\ p \in Entries(Places) /\ p.cost \in Nat /\ p.path \in Seq(Places) \ {<<>>}
             /\ IsPath(p.path, Places, windows, k) /\ p.cost = Projection!Cost(p.path)
             /\ Projection!Last(p.path) = p.path[k]
  <2>1. p \in Entries(Places) /\ IsPath(p.path, Places, windows, k)
        /\ p.cost = Projection!Cost(p.path)
    BY <1>2 DEF AreCheapest
  <2>2. p.cost \in Nat /\ p.path \in Seq(Places) \ {<<>>}
    BY <2>1 DEF Entries
  <2> QED
    BY <2>1, <2>2, LastPlace DEF IsPath
<1>6. ASSUME NEW c \in window, Behind(S, c) # {}
      PROVE  /\ Onward(S, c) \in Entries(Places)
             /\ IsPath(Onward(S, c).path, Places, windows, k + 1)
             /\ Onward(S, c).cost = Projection!Cost(Onward(S, c).path)
  <2> DEFINE best == Predecessor(S, c)
  <2>1. /\ best \in S /\ Projection!Reaches(best.path, c) /\ Onward(S, c) \in Entries(Places)
        /\ Onward(S, c).cost = best.cost + c.distance /\ Onward(S, c).path = Append(best.path, c)
    <3>1. c \in Places
      BY <1>1
    <3> HIDE DEF best
    <3>2. /\ Predecessor(S, c) \in S /\ Projection!Reaches(Predecessor(S, c).path, c)
          /\ Onward(S, c) \in Entries(Places)
      BY <1>2, <1>6, <3>1, OnwardFacts
    <3>3. Onward(S, c).cost = best.cost + c.distance /\ Onward(S, c).path = Append(best.path, c)
      BY DEF Onward, best
    <3> QED
      BY <3>2, <3>3 DEF best
  <2> HIDE DEF best
  <2>2. c.progress >= best.path[k].progress
    BY <1>5, <2>1 DEF Projection!Reaches
  <2>3. IsPath(Append(best.path, c), Places, windows, k + 1)
    BY <1>4, <1>5, <2>1, <2>2
  <2>4. Projection!Cost(Append(best.path, c)) = best.cost + c.distance
    BY <1>1, <1>5, <2>1, CostOfAppend
  <2> QED
    BY <2>1, <2>3, <2>4
<1>7. ASSUME NEW e \in next
      PROVE  /\ e \in Entries(Places)
             /\ IsPath(e.path, Places, windows, k + 1) /\ e.cost = Projection!Cost(e.path)
  <2>1. PICK c \in window : Behind(S, c) # {} /\ e = Onward(S, c)
    BY <1>3
  <2> QED
    BY <1>6, <2>1
<1>8. ASSUME NEW p \in Seq(Places), IsPath(p, Places, windows, k + 1)
      PROVE  \E e \in next : e.path[k + 1] = p[k + 1] /\ e.cost <= Projection!Cost(p)
  <2> DEFINE q == [i \in 1..k |-> p[i]]
             c == p[k + 1]
  <2>1. Len(p) = k + 1 /\ \A i \in 1..(k + 1) : p[i] \in windows[i] /\ p[i] \in Places
    BY <1>1, <1>8 DEF IsPath
  <2>2. q \in Seq(Places) /\ Len(q) = k /\ \A i \in 1..k : q[i] = p[i]
    BY <1>1, <2>1
  <2>3. c \in window /\ c \in Places /\ c.progress >= q[k].progress
    <3>1. k + 1 \in 2..(k + 1) /\ k + 1 \in 1..(k + 1) /\ (k + 1) - 1 = k /\ k \in 1..k
      BY <1>1
    <3>2. p[k + 1].progress >= p[k].progress
      BY <1>8, <2>1, <3>1 DEF IsPath, Projection!Monotone
    <3> QED
      BY <2>1, <2>2, <3>1, <3>2
  <2>4. IsPath(q, Places, windows, k)
    <3>1. \A i \in 1..k : i \in 1..(k + 1)
      BY <1>1
    <3>2. \A i \in 2..k : q[i].progress >= q[i - 1].progress
      <4> SUFFICES ASSUME NEW i \in 2..k PROVE q[i].progress >= q[i - 1].progress
        OBVIOUS
      <4>1. i \in 2..(k + 1) /\ i \in 1..k /\ i - 1 \in 1..k
        BY <1>1
      <4>2. p[i].progress >= p[i - 1].progress
        BY <1>8, <2>1, <4>1 DEF IsPath, Projection!Monotone
      <4> QED
        BY <2>2, <4>1, <4>2
    <3> QED
      BY <2>1, <2>2, <3>1, <3>2 DEF IsPath, Projection!Monotone
  <2>5. p = Append(q, c)
    <3> DEFINE r == Append(q, c)
    <3>1. r \in Seq(Places) /\ Len(r) = k + 1 /\ r[k + 1] = c /\ \A i \in 1..k : r[i] = q[i]
      BY <1>1, <2>2, <2>3
    <3>2. \A i \in 1..(k + 1) : i = k + 1 \/ i \in 1..k
      BY <1>1
    <3>3. \A i \in 1..(k + 1) : r[i] = p[i]
      BY <2>2, <3>1, <3>2
    <3> HIDE DEF r, q, c
    <3> QED
      BY <2>1, <3>1, <3>3 DEF r
  <2>6. Projection!Cost(q) \in Nat /\ Projection!Cost(p) = Projection!Cost(q) + c.distance
    BY <2>2, <2>3, <2>5, CostOfAppend
  <2> HIDE DEF q
  <2>7. PICK e \in S : e.path[k] = q[k] /\ e.cost <= Projection!Cost(q)
    BY <2>2, <2>4 DEF AreCheapest
  <2>8. e \in Behind(S, c)
    BY <1>5, <2>3, <2>7 DEF Behind, Projection!Reaches
  <2> HIDE DEF c
  <2> DEFINE best == Predecessor(S, c)
  <2>9. /\ best \in S /\ best.cost <= e.cost
        /\ Onward(S, c).cost = best.cost + c.distance /\ Onward(S, c).path = Append(best.path, c)
    <3>1. Behind(S, c) # {}
      BY <2>8
    <3> HIDE DEF best
    <3>2. /\ Predecessor(S, c) \in S
          /\ \A o \in Behind(S, c) : Predecessor(S, c).cost <= o.cost
      BY <1>2, <2>3, <3>1, OnwardFacts
    <3>3. Onward(S, c).cost = best.cost + c.distance /\ Onward(S, c).path = Append(best.path, c)
      BY DEF Onward, best
    <3> QED
      BY <2>8, <3>2, <3>3 DEF best
  <2> HIDE DEF best
  <2>10. Onward(S, c) \in next
    BY <1>3, <2>3, <2>8
  <2>11. Onward(S, c).cost <= Projection!Cost(p)
    <3>1. best.cost \in Nat /\ e.cost \in Nat /\ c.distance \in Nat
      BY <1>5, <2>3, <2>9 DEF ArePlaces
    <3> QED
      BY <2>6, <2>7, <2>9, <3>1
  <2>12. Onward(S, c).path[k + 1] = c
    BY <1>1, <1>5, <2>3, <2>9 DEF IsPath
  <2> QED
    BY <2>10, <2>11, <2>12 DEF c
<1>9. next \in SUBSET Entries(Places)
  BY <1>7
<1> QED
  BY <1>7, <1>8, <1>9 DEF AreCheapest, next

LEMMA ExtendedType ==
  ASSUME NEW Places, ArePlaces(Places), NEW S \in SUBSET Entries(Places), NEW window \in SUBSET Places
  PROVE  Projection!Extended(S, window) \in SUBSET Entries(Places)
<1>1. \A c \in window : Behind(S, c) # {} => Onward(S, c) \in Entries(Places)
  <2> SUFFICES ASSUME NEW c \in window, Behind(S, c) # {} PROVE Onward(S, c) \in Entries(Places)
    OBVIOUS
  <2>1. c \in Places
    OBVIOUS
  <2> QED
    BY <2>1, OnwardFacts
<1> QED
  BY <1>1, ExtendedIs

(* The function of the code's outer loop is what its recursion says. *)
LEMMA PathsToFacts ==
  ASSUME NEW Places, ArePlaces(Places), NEW windows \in Seq(SUBSET Places), windows # << >>
  PROVE  /\ Projection!PathsTo(windows)[1] =
              {[cost |-> c.distance, path |-> <<c>>] : c \in windows[1]}
         /\ \A k \in 1..(Len(windows) - 1) :
              Projection!PathsTo(windows)[k + 1] =
                Projection!Extended(Projection!PathsTo(windows)[k], windows[k + 1])
<1> DEFINE N == Len(windows)
           T == SUBSET Entries(Places)
           start == {[cost |-> c.distance, path |-> <<c>>] : c \in windows[1]}
           step == [k \in 2..N |-> [S \in T |-> Projection!Extended(S, windows[k])]]
           Defines(g) == g = [k \in 1..N |-> IF k = 1 THEN start
                                             ELSE Projection!Extended(g[k - 1], windows[k])]
<1>1. N \in Nat \ {0} /\ \A k \in 1..N : windows[k] \in SUBSET Places
  OBVIOUS
<1>2. start \in T
  BY FirstCheapest DEF AreCheapest
<1>3. step \in [2..N -> [T -> T]]
  <2>1. \A k \in 2..N, S \in T : Projection!Extended(S, windows[k]) \in T
    <3> SUFFICES ASSUME NEW k \in 2..N, NEW S \in T PROVE Projection!Extended(S, windows[k]) \in T
      OBVIOUS
    <3>1. windows[k] \in SUBSET Places
      BY <1>1
    <3> QED
      BY <3>1, ExtendedType
  <2> HIDE DEF T, N
  <2> QED
    BY <2>1
<1> HIDE DEF N, T, start
<1>4. PICK f \in [1..N -> T] : Recurs(f, N, start, step)
  <2> HIDE DEF step
  <2> QED
    BY <1>1, <1>2, <1>3, Recursion
<1>5. \A k \in 2..N : f[k] = Projection!Extended(f[k - 1], windows[k])
  <2> SUFFICES ASSUME NEW k \in 2..N PROVE f[k] = Projection!Extended(f[k - 1], windows[k])
    OBVIOUS
  <2>1. f[k] = step[k][f[k - 1]]
    BY <1>4 DEF Recurs
  <2>2. f[k - 1] \in T
    BY <1>1, <1>4
  <2>3. step[k] = [S \in T |-> Projection!Extended(S, windows[k])]
    OBVIOUS
  <2>4. step[k][f[k - 1]] = Projection!Extended(f[k - 1], windows[k])
    BY <2>2, <2>3
  <2> QED
    BY <2>1, <2>4
<1>6. Defines(f)
  <2>1. ASSUME NEW k \in 1..N
        PROVE  f[k] = IF k = 1 THEN start ELSE Projection!Extended(f[k - 1], windows[k])
    <3>1. CASE k = 1
      BY <1>4, <3>1 DEF Recurs
    <3>2. CASE k # 1
      <4>1. k \in 2..N
        BY <1>1, <3>2
      <4> QED
        BY <1>5, <3>2, <4>1
    <3> QED
      BY <3>1, <3>2
  <2>2. f = [k \in 1..N |-> f[k]]
    BY <1>4
  <2> QED
    BY <2>1, <2>2
<1>7. Projection!PathsTo(windows) = CHOOSE g : Defines(g)
  BY DEF Projection!PathsTo, N, start
<1>8. Defines(Projection!PathsTo(windows))
  <2> HIDE DEF Defines
  <2> QED
    BY <1>6, <1>7
<1> DEFINE g == Projection!PathsTo(windows)
<1>9. \A k \in 1..N : g[k] = IF k = 1 THEN start ELSE Projection!Extended(g[k - 1], windows[k])
  <2> HIDE DEF g
  <2>1. Defines(g)
    BY <1>8 DEF g
  <2> QED
    BY <2>1, Zenon
<1> HIDE DEF g
<1>10. g[1] = start
  <2>1. 1 \in 1..N
    BY <1>1
  <2> QED
    BY <1>9, <2>1
<1>11. ASSUME NEW k \in 1..(N - 1) PROVE g[k + 1] = Projection!Extended(g[k], windows[k + 1])
  <2>1. k + 1 \in 1..N /\ k + 1 # 1 /\ (k + 1) - 1 = k
    BY <1>1
  <2>2. g[k + 1] = Projection!Extended(g[(k + 1) - 1], windows[k + 1])
    BY <1>9, <2>1
  <2> QED
    BY <2>1, <2>2
<1> QED
  BY <1>10, <1>11 DEF g, start, N

LEMMA CheapestToAll ==
  ASSUME NEW Places, ArePlaces(Places), NEW windows \in Seq(SUBSET Places), windows # << >>
  PROVE  AreCheapest(Projection!PathsTo(windows)[Len(windows)], Places, windows, Len(windows))
<1> DEFINE N == Len(windows)
           paths == Projection!PathsTo(windows)
           P == {m \in Nat : m + 1 <= N => AreCheapest(paths[m + 1], Places, windows, m + 1)}
<1>1. N \in Nat \ {0}
  OBVIOUS
<1>2. /\ AreCheapest(paths[1], Places, windows, 1)
      /\ \A k \in 1..(N - 1) : AreCheapest(paths[k], Places, windows, k)
                                 => AreCheapest(paths[k + 1], Places, windows, k + 1)
  <2>1. AreCheapest(paths[1], Places, windows, 1)
    BY PathsToFacts, FirstCheapest
  <2>2. ASSUME NEW k \in 1..(N - 1), AreCheapest(paths[k], Places, windows, k)
        PROVE  AreCheapest(paths[k + 1], Places, windows, k + 1)
    <3>1. paths[k + 1] = Projection!Extended(paths[k], windows[k + 1])
      BY PathsToFacts
    <3>2. AreCheapest(Projection!Extended(paths[k], windows[k + 1]), Places, windows, k + 1)
      BY <2>2, NextCheapest
    <3> QED
      BY <3>1, <3>2
  <2> QED
    BY <2>1, <2>2
<1> HIDE DEF N, paths
<1>3. 0 \in P
  <2>1. 0 + 1 = 1
    OBVIOUS
  <2> QED
    BY <1>2, <2>1
<1>4. ASSUME NEW m \in P PROVE m + 1 \in P
  <2> SUFFICES ASSUME (m + 1) + 1 <= N
               PROVE  AreCheapest(paths[(m + 1) + 1], Places, windows, (m + 1) + 1)
    OBVIOUS
  <2>1. m + 1 \in 1..(N - 1) /\ m + 1 <= N
    BY <1>1
  <2>2. AreCheapest(paths[m + 1], Places, windows, m + 1)
    BY <2>1
  <2> QED
    BY <1>2, <2>1, <2>2
<1>5. P = Nat
  <2>1. P \in SUBSET Nat
    OBVIOUS
  <2> HIDE DEF P
  <2> QED
    BY <1>3, <1>4, <2>1, Induction
<1>6. N - 1 \in P /\ (N - 1) + 1 = N
  <2> HIDE DEF P
  <2> QED
    BY <1>1, <1>5
<1> QED
  BY <1>6 DEF N, paths

LEMMA PathsAre ==
  ASSUME NEW Places, NEW windows \in Seq(SUBSET Places), NEW p
  PROVE  p \in Projection!MonotonePaths(windows) <=> IsPath(p, Places, windows, Len(windows))
<1> DEFINE N == Len(windows)
           U == UNION {windows[k] : k \in DOMAIN windows}
<1>1. N \in Nat /\ DOMAIN windows = 1..N /\ \A k \in 1..N : windows[k] \in SUBSET Places
  OBVIOUS
<1>2. U \in SUBSET Places
  BY <1>1
<1>3. \A k \in 1..N : \A c \in windows[k] : c \in U
  BY <1>1
<1>4. p \in Projection!MonotonePaths(windows) <=>
        /\ p \in [1..N -> U] /\ Projection!Monotone(p) /\ \A k \in 1..N : p[k] \in windows[k]
  BY <1>1 DEF Projection!MonotonePaths
<1> HIDE DEF U, N
<1>5. ASSUME p \in [1..N -> U], Projection!Monotone(p), \A k \in 1..N : p[k] \in windows[k]
      PROVE  IsPath(p, Places, windows, N)
  <2>1. p \in [1..N -> Places]
    BY <1>2, <1>5
  <2>2. p \in Seq(Places) /\ Len(p) = N
    BY <1>1, <2>1
  <2> QED
    BY <1>5, <2>2 DEF IsPath
<1>6. ASSUME IsPath(p, Places, windows, N)
      PROVE  p \in [1..N -> U] /\ Projection!Monotone(p) /\ \A k \in 1..N : p[k] \in windows[k]
  <2>1. p \in Seq(Places) /\ Len(p) = N /\ (\A i \in 1..N : p[i] \in windows[i])
        /\ Projection!Monotone(p)
    BY <1>6 DEF IsPath
  <2>2. p \in [1..N -> Places]
    BY <1>1, <2>1
  <2>3. p \in [1..N -> U]
    BY <1>3, <2>1, <2>2
  <2> QED
    BY <2>1, <2>3
<1> QED
  BY <1>4, <1>5, <1>6 DEF N

(* For any pattern over any places. *)
LEMMA SelectedIsCheapest ==
  ASSUME NEW Places, ArePlaces(Places), NEW windows \in Seq(SUBSET Places), windows # << >>
  PROVE  Projection!PathIsCheapest(windows, Projection!SelectMonotonicStopPath(windows))
<1> DEFINE N == Len(windows)
           S == Projection!PathsTo(windows)[N]
           best == Projection!Cheapest(S)
           selected == Projection!SelectMonotonicStopPath(windows)
<1>1. N \in Nat \ {0}
  OBVIOUS
<1>2. selected = IF S = {} THEN Projection!NoPath ELSE best.path
  BY DEF Projection!SelectMonotonicStopPath
<1>3. AreCheapest(S, Places, windows, N)
  BY CheapestToAll
<1>4. ASSUME NEW p \in Projection!MonotonePaths(windows)
      PROVE  \E e \in S : e.cost <= Projection!Cost(p)
  <2>1. IsPath(p, Places, windows, N)
    BY PathsAre
  <2>2. p \in Seq(Places)
    BY <2>1 DEF IsPath
  <2> QED
    BY <1>3, <2>1, <2>2 DEF AreCheapest
<1> HIDE DEF N, S, selected
<1>5. CASE S = {}
  <2>1. Projection!MonotonePaths(windows) = {}
    BY <1>4, <1>5
  <2> QED
    BY <1>2, <1>5, <2>1 DEF Projection!PathIsCheapest, selected
<1>6. CASE S # {}
  <2>1. S \in SUBSET Entries(Places)
    BY <1>3 DEF AreCheapest
  <2>2. best \in S /\ \A e \in S : best.cost <= e.cost
    BY <1>6, <2>1, CheapestFacts
  <2> HIDE DEF best
  <2>3. IsPath(best.path, Places, windows, N) /\ best.cost = Projection!Cost(best.path)
    BY <1>3, <2>2 DEF AreCheapest
  <2>4. selected = best.path
    BY <1>2, <1>6
  <2>5. selected \in Projection!MonotonePaths(windows)
    BY <2>3, <2>4, PathsAre DEF N
  <2>6. selected # Projection!NoPath
    BY <1>1, <2>3, <2>4 DEF IsPath, Projection!NoPath
  <2>7. ASSUME NEW p \in Projection!MonotonePaths(windows)
        PROVE  Projection!Cost(selected) <= Projection!Cost(p)
    <3>1. PICK e \in S : e.cost <= Projection!Cost(p)
      BY <1>4
    <3>2. best.cost <= e.cost /\ Projection!Cost(selected) = best.cost
      BY <2>2, <2>3, <2>4
    <3>3. best.cost \in Nat /\ e.cost \in Nat
      BY <2>1, <2>2 DEF Entries
    <3>4. Projection!Cost(p) \in Nat
      <4>1. p \in Seq(Places) /\ p # <<>>
        BY <1>1, PathsAre DEF IsPath, N
      <4>2. p[Len(p)] \in Places
        BY <4>1
      <4> QED
        BY <4>1, <4>2, CostOfAppend
    <3> QED
      BY <3>1, <3>2, <3>3, <3>4
  <2> QED
    BY <2>5, <2>6, <2>7 DEF Projection!PathIsCheapest, selected
<1> QED
  BY <1>5, <1>6

(* A trial is a pattern and the path selected for it. *)
TrialInv ==
  trial # <<>> => \E windows \in Patterns :
    trial = <<windows, Projection!SelectMonotonicStopPath(windows)>>

(* The path chosen for the stops of a pattern is the cheapest of those     *)
(* along which no stop lies behind the one before, and a pattern without   *)
(* such a path has none (select_monotonic_stop_path).                      *)
THEOREM PathsAreCheapest == MCSpec => []PathIsCheapest
<1>1. MCInit => TrialInv
  BY DEF MCInit, TrialInv
<1>2. TrialInv /\ [MCNext]_<<vars, trial>> => TrialInv'
  BY DEF TrialInv, MCNext, Try
<1>3. TrialInv => PathIsCheapest
  <2> SUFFICES ASSUME TrialInv, trial # <<>>
               PROVE  Projection!PathIsCheapest(trial[1], trial[2])
    BY DEF PathIsCheapest
  <2>1. PICK windows \in Patterns :
          trial = <<windows, Projection!SelectMonotonicStopPath(windows)>>
    BY DEF TrialInv
  <2>2. ArePlaces(StopPlaces) /\ windows \in Seq(SUBSET StopPlaces) /\ windows # <<>>
    BY PatternsAssumption DEF ArePlaces
  <2>3. Projection!PathIsCheapest(windows, Projection!SelectMonotonicStopPath(windows))
    BY <2>2, SelectedIsCheapest
  <2> QED
    BY <2>1, <2>3
<1> QED
  BY <1>1, <1>2, <1>3, PTL DEF MCSpec

(* A pattern is refused, and its feed with it, only if no path over all    *)
(* its places is monotone; the path it is given otherwise is, even if it   *)
(* is the one over the near places (reproject_gtfs_stops_monotonically).   *)
THEOREM RefusedOnlyWithoutPath ==
  ASSUME NEW Places, ArePlaces(Places), NEW windows \in Seq(SUBSET Places), windows # << >>
  PROVE  IF Projection!ProjectPattern(windows) = Projection!NoPath
         THEN Projection!MonotonePaths(windows) = {}
         ELSE Projection!ProjectPattern(windows) \in Projection!MonotonePaths(windows)
<1> DEFINE near == [k \in DOMAIN windows |-> Projection!Near(windows[k])]
<1>1. \A w : Projection!Near(w) \in SUBSET w
  BY DEF Projection!Near
<1>2. near \in Seq(SUBSET Places) /\ Len(near) = Len(windows) /\ near # << >>
      /\ \A k \in 1..Len(windows) : near[k] \in SUBSET windows[k]
  <2>1. Len(windows) \in Nat \ {0} /\ DOMAIN windows = 1..Len(windows)
        /\ \A k \in 1..Len(windows) : windows[k] \in SUBSET Places
    OBVIOUS
  <2>2. \A k \in 1..Len(windows) : near[k] \in SUBSET windows[k]
    BY <1>1, <2>1
  <2>3. near \in [1..Len(windows) -> SUBSET Places]
    BY <1>1, <2>1
  <2> HIDE DEF near
  <2>4. near \in Seq(SUBSET Places) /\ Len(near) = Len(windows)
    BY <2>1, <2>3
  <2> QED
    BY <2>1, <2>2, <2>4
<1>3. Projection!ProjectPattern(windows) =
        IF Projection!SelectMonotonicStopPath(near) # Projection!NoPath
        THEN Projection!SelectMonotonicStopPath(near)
        ELSE Projection!SelectMonotonicStopPath(windows)
  BY DEF Projection!ProjectPattern
<1> HIDE DEF near
<1>4. ASSUME NEW p \in Projection!MonotonePaths(near) PROVE p \in Projection!MonotonePaths(windows)
  <2>1. IsPath(p, Places, near, Len(windows))
    BY <1>2, PathsAre
  <2>2. IsPath(p, Places, windows, Len(windows))
    BY <1>2, <2>1 DEF IsPath
  <2> QED
    BY <2>2, PathsAre
<1>5. CASE Projection!SelectMonotonicStopPath(near) # Projection!NoPath
  <2>1. Projection!SelectMonotonicStopPath(near) \in Projection!MonotonePaths(near)
    BY <1>2, <1>5, SelectedIsCheapest DEF Projection!PathIsCheapest
  <2> QED
    BY <1>3, <1>4, <1>5, <2>1
<1>6. CASE Projection!SelectMonotonicStopPath(near) = Projection!NoPath
  BY <1>3, <1>6, SelectedIsCheapest DEF Projection!PathIsCheapest
<1> QED
  BY <1>5, <1>6
=============================================================================
