------------------------------ MODULE GtfsFeeds ------------------------------
(***************************************************************************)
(* The stored GTFS feeds (ingest_gtfs_static) and the active trip index a  *)
(* worker reads from them (load_active_trip_index).  Every run of the CLI  *)
(* is one transaction, from the row of its ingestion run to the projected  *)
(* stop times, and several runs may overlap.  The index is read by two     *)
(* statements of a READ COMMITTED transaction, each of which looks for the *)
(* newest feed by itself.                                                  *)
(***************************************************************************)
EXTENDS Integers, FiniteSets

CONSTANTS
  Jobs,       \* runs of cli/ingest_gtfs_static
  Contents,   \* what the source may publish
  PatternOf,  \* PatternOf[c]: the trip pattern of a content
  Nothing,    \* no content, no feed
  MaxTime     \* bound on the clock of a behaviour

ASSUME FeedAssumption ==
  /\ Nothing \notin Contents
  /\ IsFiniteSet(Jobs) /\ MaxTime \in Nat \ {0}

Projection == INSTANCE StopProjection

VARIABLES
  clock,
  published,  \* the content behind GTFS_STATIC_URL
  feeds,      \* gtfs_feeds: content_hash to retrieved_at, 0 without a row
  job,        \* phase, content and clock readings of every run
  reading,    \* the feed of the trips a load of the index has read
  index,      \* the feeds of its trips and of its stop times
  overtaken   \* history: a feed was committed since that load began

vars == <<clock, published, feeds, job, reading, index, overtaken>>
loader == <<reading, index, overtaken>>

Final == {"stored", "duplicate", "failed", "refused", "crashed"}
Phases == {"idle", "downloading", "received", "known", "new", "loading", "failing"} \cup Final

Init ==
  /\ clock = 1
  /\ published \in Contents
  /\ feeds = [c \in Contents |-> 0]
  /\ job = [j \in Jobs |-> [phase |-> "idle", content |-> Nothing, received |-> 0, finished |-> 0]]
  /\ reading = Nothing
  /\ index = [trips |-> Nothing, stops |-> Nothing]
  /\ overtaken = TRUE

Enter(j, phase) == job' = [job EXCEPT ![j].phase = phase]

(* The handler of every exception: roll back, and read the clock for the   *)
(* finished_at of the failed run.                                          *)
Fails(j) == job' = [job EXCEPT ![j].phase = "failing", ![j].finished = clock]

-----------------------------------------------------------------------------
Tick ==
  /\ clock < MaxTime
  /\ clock' = clock + 1
  /\ UNCHANGED <<published, feeds, job, loader>>

Publish ==
  /\ published' \in Contents \ {published}
  /\ UNCHANGED <<clock, feeds, job, loader>>

Begin(j) ==
  /\ job[j].phase = "idle"
  /\ Enter(j, "downloading")
  /\ UNCHANGED <<clock, published, feeds, loader>>

(* No two downloads end at the same instant. *)
Download(j) ==
  /\ job[j].phase = "downloading"
  /\ clock < MaxTime
  /\ clock' = clock + 1
  /\ job' = [job EXCEPT ![j].phase = "received", ![j].content = published,
                        ![j].received = clock + 1]
  /\ UNCHANGED <<published, feeds, loader>>

(* GtfsArchive, its metadata, and the SELECT of the content hash. *)
LookUp(j) ==
  /\ job[j].phase = "received"
  /\ Enter(j, IF feeds[job[j].content] # 0 THEN "known" ELSE "new")
  /\ UNCHANGED <<clock, published, feeds, loader>>

(* The content is stored already: the run is committed without a feed. *)
FinishDuplicate(j) ==
  /\ job[j].phase = "known"
  /\ Enter(j, "duplicate")
  /\ UNCHANGED <<clock, published, feeds, loader>>

(* Mutant of InsertFeed: the content hash has no unique index. *)
InsertFeedAnyway(j) ==
  /\ job[j].phase = "new"
  /\ Enter(j, "loading")
  /\ UNCHANGED <<clock, published, feeds, loader>>

(* The flush of the feed row waits for a transaction that has inserted the *)
(* same hash, and fails on ux_gtfs_feeds_content_hash if that one commits. *)
InsertFeed(j) ==
  /\ job[j].phase = "new"
  /\ \A k \in Jobs : job[k].phase = "loading" => job[k].content # job[j].content
  /\ IF feeds[job[j].content] # 0 THEN Fails(j) ELSE Enter(j, "loading")
  /\ UNCHANGED <<clock, published, feeds, loader>>

(* Mutant of RetrievedAt: the default of the column, now(). *)
RetrievedAtCommit(j) == clock

(* retrieved_at=download.received_at *)
RetrievedAt(j) == job[j].received

(* _load_feed_tables, the shape segments, the projections and the commit. *)
Store(j) ==
  /\ job[j].phase = "loading"
  /\ Projection!ProjectPattern(PatternOf[job[j].content]) # Projection!NoPath
  /\ feeds' = [feeds EXCEPT ![job[j].content] = RetrievedAt(j)]
  /\ Enter(j, "stored")
  /\ overtaken' = TRUE
  /\ UNCHANGED <<clock, published, reading, index>>

(* The source or the database fails, or the archive or a pattern is        *)
(* refused: one bad stop time or pattern refuses the whole feed.           *)
Fail(j) ==
  /\ job[j].phase \in {"downloading", "received", "known", "new", "loading"}
  /\ Fails(j)
  /\ UNCHANGED <<clock, published, feeds, loader>>

(* The failed run is inserted by a transaction of its own, whose started_at*)
(* is the now() of its BEGIN: ck_ingestion_runs_valid_period asks for      *)
(* finished_at >= started_at.  The IntegrityError replaces the exception.  *)
RecordFailure(j) ==
  /\ job[j].phase = "failing"
  /\ Enter(j, IF job[j].finished >= clock THEN "failed" ELSE "refused")
  /\ UNCHANGED <<clock, published, feeds, loader>>

Crash(j) ==
  /\ job[j].phase \notin Final \cup {"idle"}
  /\ Enter(j, "crashed")
  /\ UNCHANGED <<clock, published, feeds, loader>>

-----------------------------------------------------------------------------
Stored == {c \in Contents : feeds[c] # 0}

(* ORDER BY retrieved_at DESC LIMIT 1; Nothing before the first feed. *)
LatestFeed ==
  IF Stored = {} THEN Nothing
  ELSE CHOOSE c \in Stored : \A d \in Stored : feeds[c] >= feeds[d]

(* Of the first statement of load_active_trip_index. *)
ReadTrips ==
  /\ reading = Nothing /\ Stored # {}
  /\ reading' = LatestFeed
  /\ overtaken' = FALSE
  /\ UNCHANGED <<clock, published, feeds, job, index>>

(* Of the second one, which takes the stop times of those trip_ids from    *)
(* the feed that is the newest by now.                                     *)
ReadStops ==
  /\ reading # Nothing
  /\ index' = [trips |-> reading, stops |-> LatestFeed]
  /\ reading' = Nothing
  /\ UNCHANGED <<clock, published, feeds, job, overtaken>>

Run(j) ==
  \/ Begin(j) \/ Download(j) \/ LookUp(j) \/ FinishDuplicate(j) \/ InsertFeed(j)
  \/ Store(j) \/ Fail(j) \/ RecordFailure(j) \/ Crash(j)

Next == Tick \/ Publish \/ ReadTrips \/ ReadStops \/ (\E j \in Jobs : Run(j))

Spec == Init /\ [][Next]_vars

-----------------------------------------------------------------------------
Feed == Contents \cup {Nothing}

TypeOK ==
  /\ clock \in 1..MaxTime
  /\ published \in Contents
  /\ feeds \in [Contents -> 0..MaxTime]
  /\ job \in [Jobs -> [phase : Phases, content : Feed, received : 0..MaxTime,
                       finished : 0..MaxTime]]
  /\ reading \in Feed
  /\ index \in [trips : Feed, stops : Feed]
  /\ overtaken \in BOOLEAN

(* The committed ingestion runs and the feeds tell the same story, however *)
(* runs over the same content overlap, fail or crash: a feed was stored by *)
(* exactly one succeeded run, with the time of its download, and a run     *)
(* that calls its content a duplicate names a feed that is there.          *)
OneRunStoresAContent ==
  \A c \in Contents :
    LET of(phase) == {j \in Jobs : job[j].phase = phase /\ job[j].content = c}
    IN /\ Cardinality(of("stored")) = IF feeds[c] = 0 THEN 0 ELSE 1
       /\ \A j \in of("stored") : feeds[c] = job[j].received
       /\ of("duplicate") # {} => feeds[c] # 0

(* Unless a feed was committed since its load began, the index is made of  *)
(* one feed, trips and stop times, and of the one whose download ended     *)
(* last, even if an earlier download was stored after it.                  *)
IndexIsCurrentUnlessOvertaken ==
  ~overtaken /\ reading = Nothing =>
    /\ index.trips = index.stops
    /\ \E j \in Jobs :
         /\ job[j].phase = "stored" /\ job[j].content = index.trips
         /\ \A k \in Jobs : job[k].phase = "stored" => job[k].received <= job[j].received

(* The download of content c ended before the one of content d. *)
Older(c, d) ==
  \E j, k \in Jobs :
    /\ job[j].phase = "stored" /\ job[j].content = c
    /\ job[k].phase = "stored" /\ job[k].content = d
    /\ job[j].received < job[k].received

(* Overtaken or not, no statement of a load reads an older feed than the   *)
(* one before: an index torn by a commit between the two has stop times    *)
(* newer than its trips, never older ones, and the next load does not fall *)
(* behind either, whatever slow runs commit in the meantime.               *)
IndexNeverGoesBack ==
  [][~Older(index'.stops, index'.trips) /\ ~Older(index'.trips, index.stops)]_index

(* A run that failed is on record as failed: what it writes satisfies      *)
(* "finished_at IS NULL OR finished_at >= started_at".                     *)
FailedRunsAreRecorded == \A j \in Jobs : job[j].phase # "refused"
=============================================================================
