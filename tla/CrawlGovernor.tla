--------------------------- MODULE CrawlGovernor ---------------------------
(***************************************************************************)
(* The crawl stage (refresh_pipeline.py, _stage_crawl): SubprocessGovernor *)
(* (worker/subprocess_governor.py) polls the telemetry the crawler's       *)
(* extension publishes (scraper/extensions/telemetry.py), sends the        *)
(* pipeline's heartbeat, and ends a crawl that makes no progress.          *)
(*                                                                         *)
(* Telemetry and heartbeat live in one Redis value.  A publication keeps   *)
(* what the pipeline wrote; the heartbeat, _set_status, rebuilds the value *)
(* and drops crawl_telemetry.                                              *)
(*                                                                         *)
(* Time advances while the governor sleeps, one tick per                   *)
(* HEARTBEAT_INTERVAL_S; ages are counted in ticks.                        *)
(***************************************************************************)
EXTENDS Integers, FiniteSetsExt

CONSTANTS
  Airlines,
  NoAirline,          \* current_airline is empty
  MaxPages,           \* bound: pages the crawler processes
  FewPages,           \* 5
  Warmup,             \* the first 30 s
  HardTimeout,        \* CRAWL_HARD_TIMEOUT_S
  MaxDuplicateStreak, \* MAX_DUPLICATE_STREAK
  MaxNoInsert,        \* MAX_NO_INSERT_SECONDS
  MaxStatic,          \* MAX_STATIC_PAGE_, MAX_TELEMETRY_STATIC_ and
                      \* MAX_ZERO_THROUGHPUT_SECONDS: 120 s each
  MaxStaticAirline    \* MAX_STATIC_AIRLINE_SECONDS

ASSUME AirlineAssumption == NoAirline \notin Airlines
ASSUME ThresholdAssumption ==
  /\ {MaxPages, FewPages, Warmup, MaxDuplicateStreak} \subseteq Nat
  /\ {MaxNoInsert, MaxStatic, MaxStaticAirline} \subseteq Nat
  /\ HardTimeout \in Nat /\ Warmup <= HardTimeout

VARIABLES
  child,     \* the scrapy process
  work,      \* its counters
  blob,      \* crawl_telemetry of the status value
  gov,       \* control point of the governor
  snap,      \* the snapshot it has read
  watch,     \* its tracking attributes, times as ages
  elapsed,   \* ticks since started_at
  trigger,   \* why it terminates the crawl
  state,     \* the outcome it reports
  published, \* history: counters of the last publication
  grown      \* history: ticks since publications showed more pages, inserts

childVars == <<child, work, published>>
govVars == <<gov, snap, watch, elapsed, trigger, state>>
crawlVars == <<childVars, blob, govVars, grown>>

-----------------------------------------------------------------------------
Capped(n) == 0 .. n + 1
Aged(age, n) == IF age > n THEN age ELSE age + 1

Counters == [pages : 0 .. MaxPages, inserts : 0 .. MaxPages,
             dupes : 0 .. MaxPages, airline : Airlines \cup {NoAirline}]

\* TelemetrySnapshot; content_hash covers the counters.
Snapshots == [count : Counters, rate : BOOLEAN, saturated : BOOLEAN]

NoCount == [pages |-> 0, inserts |-> 0, dupes |-> 0, airline |-> NoAirline]
EmptySnapshot == [count |-> NoCount, rate |-> FALSE, saturated |-> FALSE]
Unseen == [NoCount EXCEPT !.pages = -1]

\* Nothing stops the processes of these states from running.
Alive == child \notin {"exited", "failed"}

GovernorInit ==
  /\ child = "running"
  /\ work = NoCount
  /\ blob = EmptySnapshot
  /\ gov = "poll"
  /\ snap = EmptySnapshot
  /\ watch = [inserts |-> 0, insertAge |-> 0, pages |-> 0, pageAge |-> 0,
              airline |-> NoAirline, airlineAge |-> 0,
              hash |-> Unseen, hashAge |-> 0, rateAge |-> 0]
  /\ elapsed = 0
  /\ trigger = "none"
  /\ state = "running"
  /\ published = NoCount
  /\ grown = [pageAge |-> 0, insertAge |-> 0]

-----------------------------------------------------------------------------
(* The crawler. *)

\* parse_listing: one more page, with new reviews or known ones.
Crawl ==
  /\ child = "running"
  /\ work.pages < MaxPages
  /\ \E a \in Airlines, new \in {0, 1} :
       work' = [pages |-> work.pages + 1, inserts |-> work.inserts + new,
                dupes |-> work.dupes + 1 - new, airline |-> a]
  /\ UNCHANGED <<child, published, blob, govVars, grown>>

\* _publish.  The rate is rounded, possibly to zero; only a crawl without new
\* inserts is saturated.
Publishes ==
  /\ \E rate, dry \in BOOLEAN :
       /\ rate => work.inserts > 0
       /\ dry => work.inserts = published.inserts /\ work.pages > FewPages
       /\ blob' = [count |-> work, rate |-> rate, saturated |-> dry]
  /\ published' = work
  /\ grown' = [pageAge |-> IF work.pages > published.pages THEN 0
                           ELSE grown.pageAge,
               insertAge |-> IF work.inserts > published.inserts THEN 0
                             ELSE grown.insertAge]

\* item_scraped, every PUBLISH_INTERVAL_S at most.
Publish ==
  /\ child = "running"
  /\ Publishes
  /\ UNCHANGED <<child, work, govVars>>

\* The reactor blocks: on the network, or on a full stderr pipe, which the
\* governor does not read before the crawler has exited.
Hang ==
  /\ child = "running"
  /\ child' = "hung"
  /\ UNCHANGED <<work, published, blob, govVars, grown>>

\* spider_closed, after the last page, a saturation or SIGTERM.
SpiderClosed ==
  /\ child = "running"
  /\ Publishes
  /\ child' = "closing"
  /\ UNCHANGED <<work, govVars>>

Exit ==
  /\ \/ child = "closing" /\ child' \in {"exited", "failed"}
     \/ child \in {"running", "hung"} /\ child' = "failed"
  /\ UNCHANGED <<work, published, blob, govVars, grown>>

-----------------------------------------------------------------------------
(* The governor: _evaluate_triggers. *)

\* Mutation: the page counter is compared but not remembered.
WatchedForgetsPages(w, s) ==
  [w EXCEPT !.inserts = Max({@, s.count.inserts}),
            !.insertAge = IF s.count.inserts > w.inserts THEN 0 ELSE @]

\* The tracking attributes after a snapshot: a time is taken when the value
\* it belongs to moves.
Watched(w, s) ==
  LET named == s.count.airline \notin {NoAirline, w.airline}
  IN  [inserts |-> Max({w.inserts, s.count.inserts}),
       insertAge |-> IF s.count.inserts > w.inserts THEN 0 ELSE w.insertAge,
       pages |-> Max({w.pages, s.count.pages}),
       pageAge |-> IF s.count.pages > w.pages THEN 0 ELSE w.pageAge,
       airline |-> IF named THEN s.count.airline ELSE w.airline,
       airlineAge |-> IF named THEN 0 ELSE w.airlineAge,
       hash |-> s.count,
       hashAge |-> IF s.count # w.hash THEN 0 ELSE w.hashAge,
       rateAge |-> IF s.rate THEN 0 ELSE w.rateAge]

\* duplicate_streak's count, with the page count already updated.
PagesSinceInsert(w, s) ==
  IF w.inserts > 0 THEN s.count.pages - w.pages ELSE s.count.pages

\* The triggers in their order; w is already updated, so an age above a
\* threshold belongs to a value that has not moved.
Alarms(w, s) == <<
  [name |-> "no_inserts",
   rings |-> w.insertAge > MaxNoInsert /\ s.count.pages > FewPages],
  [name |-> "reactor_hanging",
   rings |-> w.pageAge > MaxStatic /\ s.count.pages > 0],
  [name |-> "duplicate_streak",
   rings |-> /\ s.count.pages > 0
             /\ s.count.inserts = w.inserts
             /\ s.count.dupes > 0
             /\ PagesSinceInsert(w, s) > MaxDuplicateStreak],
  [name |-> "static_airline",
   rings |-> s.count.airline # NoAirline /\ w.airlineAge > MaxStaticAirline],
  [name |-> "telemetry_frozen",
   rings |-> w.hashAge > MaxStatic /\ s.count.pages > 0],
  [name |-> "zero_throughput",
   rings |-> w.rateAge > MaxStatic /\ s.count.pages > FewPages] >>

\* Mutation: the hard timeout is forgotten.
FirstAlarmUntimed(w, s) ==
  LET ringing == {i \in 1 .. 6 : Alarms(w, s)[i].rings}
  IN  CASE s.saturated -> "scrapy_saturation"
        [] ~s.saturated /\ elapsed >= Warmup /\ ringing # {} ->
             Alarms(w, s)[Min(ringing)].name
        [] OTHER -> "none"

\* Only the hard timeout and the crawler's own verdict count in the warm-up.
FirstAlarm(w, s) ==
  LET ringing == {i \in 1 .. 6 : Alarms(w, s)[i].rings}
  IN  CASE elapsed > HardTimeout -> "hard_timeout"
        [] elapsed <= HardTimeout /\ s.saturated -> "scrapy_saturation"
        [] /\ elapsed \in Warmup .. HardTimeout
           /\ ~s.saturated
           /\ ringing # {} -> Alarms(w, s)[Min(ringing)].name
        [] OTHER -> "none"

-----------------------------------------------------------------------------
(* The governor: run and _terminate. *)

\* One round of the loop up to _update_state, or proc.terminate(), on which
\* Scrapy closes the spider unless the reactor hangs.  A failing read is an
\* empty snapshot.
Poll ==
  /\ gov = "poll"
  /\ Alive
  /\ snap' \in {blob, EmptySnapshot}
  /\ watch' = IF elapsed < Warmup THEN watch ELSE Watched(watch, snap')
  /\ trigger' = FirstAlarm(watch', snap')
  /\ gov' = IF trigger' = "none" THEN "beat" ELSE "graceful"
  /\ UNCHANGED <<childVars, blob, elapsed, state, grown>>

\* heartbeat_fn: _set_status writes a payload without crawl_telemetry, or
\* its exception is swallowed.
Beat ==
  /\ gov = "beat"
  /\ blob' \in {EmptySnapshot, blob}
  /\ gov' = "sleep"
  /\ UNCHANGED <<childVars, snap, watch, elapsed, trigger, state, grown>>

Sleep ==
  /\ gov = "sleep"
  /\ gov' = "poll"
  /\ elapsed' = Aged(elapsed, HardTimeout)
  /\ watch' = [watch EXCEPT !.insertAge = Aged(@, MaxNoInsert),
                            !.pageAge = Aged(@, MaxStatic),
                            !.airlineAge = Aged(@, MaxStaticAirline),
                            !.hashAge = Aged(@, MaxStatic),
                            !.rateAge = Aged(@, MaxStatic)]
  /\ grown' = [pageAge |-> Aged(grown.pageAge, MaxStatic),
               insertAge |-> Aged(grown.insertAge, MaxNoInsert)]
  /\ UNCHANGED <<childVars, blob, snap, trigger, state>>

\* proc.wait() returns; state and _cleanup_redis, which leaves the counters.
WaitReturns ==
  /\ gov \in {"graceful", "killed"}
  /\ ~Alive
  /\ state' = "terminated"
  /\ gov' = "collect"
  /\ UNCHANGED <<childVars, blob, snap, watch, elapsed, trigger, grown>>

\* GRACEFUL_TIMEOUT_S have passed: proc.kill().  A process in the kernel stays.
KillCrawl ==
  /\ gov = "graceful"
  /\ Alive
  /\ child' \in {"failed", "stuck"}
  /\ gov' = "killed"
  /\ UNCHANGED <<work, published, blob, snap, watch, elapsed, trigger, state, grown>>

\* Mutation: _terminate ends with state TERMINATED in every case.
GiveUpTerminated ==
  /\ gov = "killed"
  /\ Alive
  /\ state' = "terminated"
  /\ gov' = "collect"
  /\ UNCHANGED <<childVars, blob, snap, watch, elapsed, trigger, grown>>

\* 5 s later the process is still there: _force_kill_tree, state ZOMBIE.
GiveUp ==
  /\ gov = "killed"
  /\ Alive
  /\ state' = "zombie"
  /\ gov' = "collect"
  /\ UNCHANGED <<childVars, blob, snap, watch, elapsed, trigger, grown>>

\* The loop ends by itself.
PollExited ==
  /\ gov = "poll"
  /\ ~Alive
  /\ state' = IF child = "exited" THEN "completed" ELSE "completed_degraded"
  /\ gov' = "collect"
  /\ UNCHANGED <<childVars, blob, snap, watch, elapsed, trigger, grown>>

\* _collect_result gives up on a process that stays after 10 s; _stage_crawl
\* returns its result.
Collect ==
  /\ gov = "collect"
  /\ gov' = "done"
  /\ UNCHANGED <<childVars, blob, snap, watch, elapsed, trigger, state, grown>>

Crawler == Crawl \/ Publish \/ Hang \/ SpiderClosed \/ Exit

Governor ==
  \/ Poll \/ Beat \/ Sleep \/ PollExited
  \/ WaitReturns \/ KillCrawl \/ GiveUp
  \/ Collect

GovernorNext == Crawler \/ Governor

GovernorSpec == GovernorInit /\ [][GovernorNext]_crawlVars

\* The worker is scheduled; the crawler owes nothing.
FairGovernorSpec == GovernorSpec /\ WF_crawlVars(Governor)

-----------------------------------------------------------------------------
(* Correctness. *)

Reasons == {"hard_timeout", "scrapy_saturation", "no_inserts", "reactor_hanging",
            "duplicate_streak", "static_airline", "telemetry_frozen",
            "zero_throughput"}

GovernorTypeOK ==
  /\ child \in {"running", "hung", "closing", "exited", "failed", "stuck"}
  /\ work \in Counters /\ published \in Counters
  /\ blob \in Snapshots /\ snap \in Snapshots
  /\ gov \in {"poll", "beat", "sleep", "graceful", "killed",
              "collect", "done"}
  /\ watch \in [inserts : 0 .. MaxPages, insertAge : Capped(MaxNoInsert),
                pages : 0 .. MaxPages, pageAge : Capped(MaxStatic),
                airline : Airlines \cup {NoAirline},
                airlineAge : Capped(MaxStaticAirline),
                hash : Counters \cup {Unseen}, hashAge : Capped(MaxStatic),
                rateAge : Capped(MaxStatic)]
  /\ elapsed \in Capped(HardTimeout)
  /\ grown \in [pageAge : Capped(MaxStatic), insertAge : Capped(MaxNoInsert)]
  /\ trigger \in Reasons \cup {"none"}
  /\ state \in {"running", "completed", "completed_degraded", "terminated",
                "zombie"}

\* A crawl is stopped for want of pages or inserts only if no publication has
\* shown a new one for that long, whatever the heartbeats erased in between.
AlarmsAreTrue ==
  [][/\ trigger' = "reactor_hanging" /\ trigger # trigger' =>
          grown.pageAge > MaxStatic
     /\ trigger' = "no_inserts" /\ trigger # trigger' =>
          grown.insertAge > MaxNoInsert]_crawlVars

\* The outcomes _stage_crawl takes for success are those of a crawler that is
\* gone: the next stage does not run beside it, nor its publications beside
\* the next stage's status.
SuccessMeansGone ==
  gov = "done" /\ state \in {"completed", "terminated"} => ~Alive

\* However the crawler behaves, the crawl stage comes to an end.
StageEnds == <>(gov = "done")

=============================================================================
