----------------------------- MODULE CrawlProofs -----------------------------
(***************************************************************************)
(* Proofs about the two halves of a crawl: CrawlGovernor, for any airlines,*)
(* thresholds and number of pages, and ReviewPersistence, for any spiders, *)
(* any reviews, any batch size and any number of items.                    *)
(***************************************************************************)
EXTENDS CrawlGovernor, ReviewPersistence, FiniteSetTheorems, TLAPS

USE AirlineAssumption, ThresholdAssumption
    DEF childVars, govVars

-----------------------------------------------------------------------------
(* The governor: the helpers. *)

LEMMA MaxOfTwo ==
  ASSUME NEW a \in Int, NEW b \in Int
  PROVE Max({a, b}) = IF a >= b THEN a ELSE b
<1>1. \E x \in {a, b} : \A y \in {a, b} : x >= y
  OBVIOUS
<1> QED BY <1>1 DEF Max

LEMMA MinOfAlarms ==
  ASSUME NEW S \in SUBSET (1 .. 6), S # {}
  PROVE Min(S) \in S
<1>1. \E x \in S : \A y \in S : x <= y
  <2>1. CASE 1 \in S
    BY <2>1
  <2>2. CASE 1 \notin S /\ 2 \in S
    BY <2>2
  <2>3. CASE 1 \notin S /\ 2 \notin S /\ 3 \in S
    BY <2>3
  <2>4. CASE 1 \notin S /\ 2 \notin S /\ 3 \notin S /\ 4 \in S
    BY <2>4
  <2>5. CASE 1 \notin S /\ 2 \notin S /\ 3 \notin S /\ 4 \notin S /\ 5 \in S
    BY <2>5
  <2>6. CASE 1 \notin S /\ 2 \notin S /\ 3 \notin S /\ 4 \notin S /\ 5 \notin S
    <3>1. \A y \in S : y = 6
      BY <2>6
    <3>2. PICK x \in S : TRUE
      OBVIOUS
    <3> QED BY <3>1, <3>2
  <2> QED BY <2>1, <2>2, <2>3, <2>4, <2>5, <2>6
<1> QED BY <1>1 DEF Min

\* An alarm that ends the crawl is one that rings.
LEMMA FirstAlarmRings ==
  ASSUME NEW w, NEW s, elapsed \in Nat, s.saturated \in BOOLEAN
  PROVE \/ FirstAlarm(w, s) \in {"hard_timeout", "scrapy_saturation", "none"}
        \/ \E i \in 1 .. 6 : /\ FirstAlarm(w, s) = Alarms(w, s)[i].name
                             /\ Alarms(w, s)[i].rings
<1> DEFINE ringing == {i \in 1 .. 6 : Alarms(w, s)[i].rings}
<1>1. CASE elapsed > HardTimeout
  BY <1>1 DEF FirstAlarm
<1>2. CASE elapsed <= HardTimeout /\ s.saturated
  BY <1>2 DEF FirstAlarm
<1>3. CASE elapsed \in Warmup .. HardTimeout /\ ~s.saturated /\ ringing # {}
  <2>1. FirstAlarm(w, s) = Alarms(w, s)[Min(ringing)].name
    BY <1>3 DEF FirstAlarm
  <2>2. Min(ringing) \in ringing
    BY <1>3, MinOfAlarms
  <2> QED BY <2>1, <2>2
<1>4. CASE /\ elapsed <= HardTimeout /\ ~s.saturated
           /\ ~(elapsed \in Warmup .. HardTimeout /\ ringing # {})
  BY <1>4 DEF FirstAlarm
<1> QED BY <1>1, <1>2, <1>3, <1>4

LEMMA AlarmNames ==
  ASSUME NEW w, NEW s, NEW i \in 1 .. 6
  PROVE /\ Alarms(w, s)[i].name \in Reasons
        /\ Alarms(w, s)[i].name = "reactor_hanging" /\ Alarms(w, s)[i].rings =>
             w.pageAge > MaxStatic /\ s.count.pages > 0
        /\ Alarms(w, s)[i].name = "no_inserts" /\ Alarms(w, s)[i].rings =>
             w.insertAge > MaxNoInsert /\ s.count.pages > FewPages
<1>1. i = 1 \/ i = 2 \/ i = 3 \/ i = 4 \/ i = 5 \/ i = 6
  OBVIOUS
<1> USE DEF Alarms, Reasons
<1>2. CASE i = 1
  BY <1>2
<1>3. CASE i = 2
  BY <1>3
<1>4. CASE i = 3
  BY <1>4
<1>5. CASE i = 4
  BY <1>5
<1>6. CASE i = 5
  BY <1>6
<1>7. CASE i = 6
  BY <1>7
<1> QED BY <1>1, <1>2, <1>3, <1>4, <1>5, <1>6, <1>7

\* What the alarms of pages and inserts mean.
LEMMA AlarmMeans ==
  ASSUME NEW w, NEW s, elapsed \in Nat, s.saturated \in BOOLEAN
  PROVE /\ FirstAlarm(w, s) \in Reasons \cup {"none"}
        /\ FirstAlarm(w, s) = "reactor_hanging" =>
             w.pageAge > MaxStatic /\ s.count.pages > 0
        /\ FirstAlarm(w, s) = "no_inserts" =>
             w.insertAge > MaxNoInsert /\ s.count.pages > FewPages
  BY FirstAlarmRings, AlarmNames DEF Reasons

-----------------------------------------------------------------------------
(* Types. *)

WatchType ==
  [inserts : 0 .. MaxPages, insertAge : Capped(MaxNoInsert),
   pages : 0 .. MaxPages, pageAge : Capped(MaxStatic),
   airline : Airlines \cup {NoAirline}, airlineAge : Capped(MaxStaticAirline),
   hash : Counters \cup {Unseen}, hashAge : Capped(MaxStatic),
   rateAge : Capped(MaxStatic)]

\* Every page is counted once, by its new reviews or its known ones.
PagesSplit == work.inserts + work.dupes = work.pages

TypeInv == GovernorTypeOK /\ PagesSplit

LEMMA AgedType ==
  ASSUME NEW n \in Nat, NEW age \in Capped(n)
  PROVE Aged(age, n) \in Capped(n)
  BY DEF Aged, Capped

LEMMA EmptyType == NoCount \in Counters /\ EmptySnapshot \in Snapshots
  BY DEF NoCount, Counters, EmptySnapshot, Snapshots

LEMMA WatchedType ==
  ASSUME NEW w \in WatchType, NEW s \in Snapshots
  PROVE Watched(w, s) \in WatchType
<1>1. s.count \in Counters /\ s.count.inserts \in 0 .. MaxPages
      /\ s.count.pages \in 0 .. MaxPages
      /\ s.count.airline \in Airlines \cup {NoAirline}
  BY DEF Snapshots, Counters
<1>2. /\ Max({w.inserts, s.count.inserts}) \in 0 .. MaxPages
      /\ Max({w.pages, s.count.pages}) \in 0 .. MaxPages
  BY <1>1, MaxOfTwo DEF WatchType
<1>3. 0 \in Capped(MaxNoInsert) /\ 0 \in Capped(MaxStatic)
      /\ 0 \in Capped(MaxStaticAirline)
  BY DEF Capped
<1> QED BY <1>1, <1>2, <1>3 DEF Watched, WatchType

LEMMA TypeInit == GovernorInit => TypeInv
<1> SUFFICES ASSUME GovernorInit PROVE TypeInv
  OBVIOUS
<1>1. watch \in WatchType
  BY DEF GovernorInit, WatchType, Capped
<1> QED BY <1>1, EmptyType DEF GovernorInit, TypeInv, GovernorTypeOK, WatchType,
                               PagesSplit, NoCount, Capped

LEMMA TypeStep == TypeInv /\ [GovernorNext]_crawlVars => TypeInv'
<1> SUFFICES ASSUME TypeInv, [GovernorNext]_crawlVars PROVE TypeInv'
  OBVIOUS
<1> USE DEF TypeInv, GovernorTypeOK
<1>1. CASE UNCHANGED crawlVars
  BY <1>1 DEF crawlVars, PagesSplit
<1>2. CASE Crawl
  <2>1. PICK a \in Airlines, new \in {0, 1} :
          work' = [pages |-> work.pages + 1, inserts |-> work.inserts + new,
                   dupes |-> work.dupes + 1 - new, airline |-> a]
    BY <1>2 DEF Crawl
  <2>2. work' \in Counters /\ PagesSplit'
    BY <1>2, <2>1 DEF Crawl, Counters, PagesSplit
  <2> QED BY <1>2, <2>2 DEF Crawl
<1>3. CASE Publish \/ SpiderClosed
  <2>1. /\ blob' \in Snapshots /\ published' \in Counters
        /\ grown' \in [pageAge : Capped(MaxStatic), insertAge : Capped(MaxNoInsert)]
    BY <1>3 DEF Publish, SpiderClosed, Publishes, Snapshots, Capped
  <2> QED BY <1>3, <2>1 DEF Publish, SpiderClosed, PagesSplit
<1>4. CASE Hang \/ Exit
  BY <1>4 DEF Hang, Exit, PagesSplit
<1>5. CASE Poll
  <2>1. snap' \in Snapshots /\ snap'.saturated \in BOOLEAN
    BY <1>5, EmptyType DEF Poll, Snapshots
  <2>2. watch' \in WatchType
    BY <1>5, <2>1, WatchedType DEF Poll, WatchType
  <2>3. trigger' \in Reasons \cup {"none"}
    <3>1. elapsed \in Nat
      BY DEF Capped
    <3> QED BY <1>5, <2>1, <3>1, AlarmMeans DEF Poll
  <2> QED BY <1>5, <2>1, <2>2, <2>3 DEF Poll, WatchType, PagesSplit
<1>6. CASE Beat
  BY <1>6, EmptyType DEF Beat, PagesSplit
<1>7. CASE Sleep
  <2>1. watch' \in WatchType
    BY <1>7, AgedType DEF Sleep, WatchType
  <2>2. /\ elapsed' \in Capped(HardTimeout)
        /\ grown' \in [pageAge : Capped(MaxStatic), insertAge : Capped(MaxNoInsert)]
    BY <1>7, AgedType DEF Sleep
  <2> QED BY <1>7, <2>1, <2>2 DEF Sleep, WatchType, PagesSplit
<1>8. CASE KillCrawl
  BY <1>8 DEF KillCrawl, PagesSplit
<1>9. CASE WaitReturns \/ GiveUp \/ PollExited \/ Collect
  BY <1>9 DEF WaitReturns, GiveUp, PollExited, Collect, PagesSplit
<1> QED BY <1>1, <1>2, <1>3, <1>4, <1>5, <1>6, <1>7, <1>8, <1>9
     DEF GovernorNext, Crawler, Governor

\* Every variable keeps its type: counters, ages and outcomes stay in range.
THEOREM GovernorTypeCorrect == GovernorSpec => []GovernorTypeOK
<1>1. TypeInv => GovernorTypeOK
  BY DEF TypeInv
<1> QED BY <1>1, TypeInit, TypeStep, PTL DEF GovernorSpec

THEOREM TypeInvariant == GovernorSpec => []TypeInv
  BY TypeInit, TypeStep, PTL DEF GovernorSpec

-----------------------------------------------------------------------------
(* SuccessMeansGone: an outcome taken for success is decided by a dead     *)
(* crawler, and no step brings one back.                                   *)

GoneInv == gov \in {"collect", "done"} /\ state \in {"completed", "terminated"} => ~Alive

LEMMA GoneStep == GoneInv /\ [GovernorNext]_crawlVars => GoneInv'
<1> SUFFICES ASSUME GoneInv, [GovernorNext]_crawlVars PROVE GoneInv'
  OBVIOUS
<1> USE DEF GoneInv, Alive
<1>1. CASE UNCHANGED crawlVars
  BY <1>1 DEF crawlVars
<1>2. CASE Crawler
  BY <1>2 DEF Crawler, Crawl, Publish, Hang, SpiderClosed, Exit
<1>3. CASE Poll \/ Beat \/ Sleep \/ KillCrawl \/ GiveUp
  BY <1>3 DEF Poll, Beat, Sleep, KillCrawl, GiveUp
<1>4. CASE PollExited \/ WaitReturns \/ Collect
  BY <1>4 DEF PollExited, WaitReturns, Collect
<1> QED BY <1>1, <1>2, <1>3, <1>4 DEF GovernorNext, Governor

\* A crawl that _stage_crawl takes for a success is over: the next stage does
\* not run beside the crawler.
THEOREM SuccessIsGone == GovernorSpec => []SuccessMeansGone
<1>1. GovernorInit => GoneInv
  BY DEF GovernorInit, GoneInv
<1>2. GoneInv => SuccessMeansGone
  BY DEF GoneInv, SuccessMeansGone
<1> QED BY <1>1, <1>2, GoneStep, PTL DEF GovernorSpec

-----------------------------------------------------------------------------
(* AlarmsAreTrue: what the governor has seen lags behind what was          *)
(* published, and an age it keeps for the newest number is no older than   *)
(* that number, though heartbeats erase snapshots in between.              *)

Lag ==
  /\ published.pages <= work.pages /\ published.inserts <= work.inserts
  /\ blob.count \in {published, NoCount}
  /\ watch.pages <= published.pages /\ watch.inserts <= published.inserts
  /\ watch.pages = published.pages => watch.pageAge <= grown.pageAge
  /\ watch.inserts = published.inserts => watch.insertAge <= grown.insertAge

LEMMA AgedMonotone ==
  ASSUME NEW n \in Nat, NEW a \in Capped(n), NEW b \in Capped(n), a <= b
  PROVE Aged(a, n) <= Aged(b, n)
  BY DEF Aged, Capped

\* What a round of the loop makes of a snapshot.
LEMMA WatchedLags ==
  ASSUME TypeInv, Lag, NEW s \in Snapshots, s.count \in {published, NoCount}
  PROVE LET w == Watched(watch, s)
        IN /\ w.pages <= published.pages /\ w.inserts <= published.inserts
           /\ w.pages = published.pages => w.pageAge <= grown.pageAge
           /\ w.inserts = published.inserts => w.insertAge <= grown.insertAge
           /\ s.count.pages > 0 => /\ w.pages = published.pages
                                   /\ w.inserts = published.inserts
<1>1. /\ s.count.pages \in Nat /\ s.count.inserts \in Nat
      /\ watch.pages \in Nat /\ watch.inserts \in Nat
      /\ published.pages \in Nat /\ published.inserts \in Nat
      /\ grown.pageAge \in Nat /\ grown.insertAge \in Nat
  BY DEF TypeInv, GovernorTypeOK, Snapshots, Counters, Capped
<1>2. /\ s.count.pages <= published.pages /\ s.count.inserts <= published.inserts
      /\ s.count.pages > 0 => s.count = published
  BY <1>1 DEF NoCount
<1>3. /\ Watched(watch, s).pages = IF watch.pages >= s.count.pages
                                   THEN watch.pages ELSE s.count.pages
      /\ Watched(watch, s).inserts = IF watch.inserts >= s.count.inserts
                                     THEN watch.inserts ELSE s.count.inserts
      /\ Watched(watch, s).pageAge = IF s.count.pages > watch.pages
                                     THEN 0 ELSE watch.pageAge
      /\ Watched(watch, s).insertAge = IF s.count.inserts > watch.inserts
                                       THEN 0 ELSE watch.insertAge
  BY <1>1, MaxOfTwo DEF Watched
<1> QED BY <1>1, <1>2, <1>3 DEF Lag

LEMMA PollReads ==
  ASSUME GovernorTypeOK, Lag, Poll
  PROVE /\ snap' \in Snapshots /\ snap'.count \in {published, NoCount}
        /\ snap'.saturated \in BOOLEAN /\ snap'.count.pages \in Nat
<1>1. snap' = blob \/ snap' = EmptySnapshot
  BY DEF Poll
<1>2. blob \in Snapshots /\ blob.count \in {published, NoCount}
  BY DEF GovernorTypeOK, Lag
<1>3. EmptySnapshot \in Snapshots /\ EmptySnapshot.count = NoCount
  BY EmptyType DEF EmptySnapshot
<1>4. snap' \in Snapshots /\ snap'.count \in {published, NoCount}
  BY <1>1, <1>2, <1>3
<1> QED BY <1>4 DEF Snapshots, Counters

LEMMA LagInit == GovernorInit => Lag
  BY DEF GovernorInit, Lag, NoCount, EmptySnapshot

LEMMA LagStep == TypeInv /\ Lag /\ [GovernorNext]_crawlVars => Lag'
<1> SUFFICES ASSUME TypeInv, Lag, [GovernorNext]_crawlVars PROVE Lag'
  OBVIOUS
<1>0. GovernorTypeOK
  BY DEF TypeInv
<1>1. CASE UNCHANGED crawlVars
  BY <1>1 DEF crawlVars, Lag
<1>2. CASE Crawl
  <2>1. PICK a \in Airlines, new \in {0, 1} :
          work' = [pages |-> work.pages + 1, inserts |-> work.inserts + new,
                   dupes |-> work.dupes + 1 - new, airline |-> a]
    BY <1>2 DEF Crawl
  <2>2. work'.pages = work.pages + 1 /\ work'.inserts >= work.inserts
    BY <1>0, <2>1 DEF GovernorTypeOK, Counters
  <2> QED BY <1>0, <1>2, <2>2 DEF Crawl, Lag, GovernorTypeOK, Counters
<1>3. CASE Publish \/ SpiderClosed
  <2>1. /\ published' = work /\ blob'.count = work
        /\ grown'.pageAge = IF work.pages > published.pages THEN 0 ELSE grown.pageAge
        /\ grown'.insertAge = IF work.inserts > published.inserts THEN 0
                              ELSE grown.insertAge
        /\ UNCHANGED <<work, watch>>
    BY <1>3 DEF Publish, SpiderClosed, Publishes
  <2>2. /\ work.pages \in Nat /\ work.inserts \in Nat
        /\ published.pages \in Nat /\ published.inserts \in Nat
        /\ watch.pages \in Nat /\ watch.inserts \in Nat
    BY <1>0 DEF GovernorTypeOK, Counters
  <2> QED BY <2>1, <2>2 DEF Lag
<1>4. CASE Hang \/ Exit \/ WaitReturns \/ KillCrawl \/ GiveUp \/ PollExited \/ Collect
  BY <1>4 DEF Hang, Exit, WaitReturns, KillCrawl, GiveUp, PollExited, Collect, Lag
<1>5. CASE Poll
  <2>1. snap' \in Snapshots /\ snap'.count \in {published, NoCount}
    BY <1>0, <1>5, PollReads
  <2> QED BY <1>5, <2>1, WatchedLags DEF Poll, Lag
<1>6. CASE Beat
  BY <1>6 DEF Beat, Lag, EmptySnapshot
<1>7. CASE Sleep
  <2>1. /\ watch'.pages = watch.pages /\ watch'.inserts = watch.inserts
        /\ watch'.pageAge = Aged(watch.pageAge, MaxStatic)
        /\ watch'.insertAge = Aged(watch.insertAge, MaxNoInsert)
        /\ grown'.pageAge = Aged(grown.pageAge, MaxStatic)
        /\ grown'.insertAge = Aged(grown.insertAge, MaxNoInsert)
        /\ UNCHANGED <<work, published, blob>>
    BY <1>0, <1>7 DEF Sleep, GovernorTypeOK
  <2>2. /\ watch.pageAge \in Capped(MaxStatic) /\ grown.pageAge \in Capped(MaxStatic)
        /\ watch.insertAge \in Capped(MaxNoInsert)
        /\ grown.insertAge \in Capped(MaxNoInsert)
    BY <1>0 DEF GovernorTypeOK
  <2> QED BY <2>1, <2>2, AgedMonotone DEF Lag
<1> QED BY <1>1, <1>2, <1>3, <1>4, <1>5, <1>6, <1>7 DEF GovernorNext, Crawler, Governor

LEMMA AlarmStep ==
  ASSUME TypeInv, Lag, GovernorNext, trigger # trigger'
  PROVE /\ trigger' = "reactor_hanging" => grown.pageAge > MaxStatic
        /\ trigger' = "no_inserts" => grown.insertAge > MaxNoInsert
<1>0. GovernorTypeOK
  BY DEF TypeInv
<1>1. Poll
  BY DEF GovernorNext, Crawler, Governor, Crawl, Publish, Hang, SpiderClosed, Exit, Beat,
     Sleep, WaitReturns, KillCrawl, GiveUp, PollExited, Collect
<1>2. snap' \in Snapshots /\ snap'.count \in {published, NoCount}
      /\ snap'.saturated \in BOOLEAN /\ snap'.count.pages \in Nat
  BY <1>0, <1>1, PollReads
<1>3. elapsed \in Nat
  BY <1>0 DEF GovernorTypeOK, Capped
<1>4. /\ trigger' \in {"reactor_hanging", "no_inserts"} =>
           watch' = Watched(watch, snap') /\ snap'.count.pages > 0
      /\ trigger' = "reactor_hanging" => watch'.pageAge > MaxStatic
      /\ trigger' = "no_inserts" => watch'.insertAge > MaxNoInsert
  <2>1. trigger' = FirstAlarm(watch', snap')
    BY <1>1 DEF Poll
  <2>2. elapsed < Warmup => FirstAlarm(watch', snap') \notin {"reactor_hanging", "no_inserts"}
    BY <1>2, <1>3 DEF FirstAlarm
  <2> QED BY <1>1, <1>2, <1>3, <2>1, <2>2, AlarmMeans DEF Poll
<1>5. /\ grown.pageAge \in Nat /\ grown.insertAge \in Nat
  BY <1>0 DEF GovernorTypeOK, Capped
<1>6. watch' \in WatchType
  BY <1>0, <1>1, <1>2, WatchedType DEF Poll, GovernorTypeOK, WatchType
<1> QED BY <1>2, <1>4, <1>5, <1>6, WatchedLags DEF WatchType, Capped

\* For all thresholds: a crawl is stopped for want of pages or inserts only
\* when no publication has shown a new one for that long.
THEOREM AlarmsTellTheTruth == GovernorSpec => AlarmsAreTrue
<1>1. TypeInv /\ Lag /\ [GovernorNext]_crawlVars =>
        [/\ trigger' = "reactor_hanging" /\ trigger # trigger' =>
              grown.pageAge > MaxStatic
         /\ trigger' = "no_inserts" /\ trigger # trigger' =>
              grown.insertAge > MaxNoInsert]_crawlVars
  BY AlarmStep
<1> QED BY <1>1, TypeInit, TypeStep, LagInit, LagStep, PTL DEF GovernorSpec, AlarmsAreTrue

-----------------------------------------------------------------------------
(* The persistence pipelines. *)

HIDE DEF childVars, govVars
USE KeysAssumption, BatchAssumption DEF sessionVars

-----------------------------------------------------------------------------
Working(s) == pc[s] \in {"airline", "touch", "review"}

\* What holds of one spider's session between two steps.
Counted(s) ==
  /\ IsFiniteSet(Rows(s)) /\ IsFiniteSet(stored[s])
  /\ Cardinality(Rows(s)) <= pending[s]
  /\ inserted[s] = Cardinality(stored[s]) + Cardinality(Rows(s)) + lost[s]
  /\ inserted[s] <= seen[s]
  /\ Working(s) => inserted[s] < seen[s]

Placed(s) ==
  /\ stored[s] \subseteq table
  /\ Rows(s) \cap table = {}
  /\ Working(s) /\ item[s] # Airline => item[s] \notin txn[s]
  /\ pc[s] = "review" => item[s] # Airline

Paced(s) ==
  /\ poisoned[s] => Rows(s) = {} /\ pc[s] \in {"ready", "closing", "closed"}
  /\ pc[s] = "ready" \/ Working(s) => poisoned[s] \/ pending[s] < BatchSize

Sound(s) == Counted(s) /\ Placed(s) /\ Paced(s)

\* A review is in one open transaction at most.
Exclusive == \A s, t \in Spiders : s # t => Rows(s) \cap Rows(t) = {}

IInv == TypeOK /\ Exclusive /\ \A s \in Spiders : Sound(s)

\* A step of s: it touches no other session, commits only what is its own and
\* takes no review another one holds.
Only(s) ==
  /\ \A t \in Spiders \ {s} :
       /\ txn'[t] = txn[t] /\ pending'[t] = pending[t]
       /\ inserted'[t] = inserted[t] /\ poisoned'[t] = poisoned[t]
       /\ pc'[t] = pc[t] /\ item'[t] = item[t] /\ seen'[t] = seen[t]
       /\ stored'[t] = stored[t] /\ lost'[t] = lost[t]
       /\ Rows(s)' \cap Rows(t) = {}
  /\ table \subseteq table'
  /\ table' \cap Reviews \subseteq table \cup Rows(s)

LEMMA Composed ==
  ASSUME IInv, NEW s \in Spiders, Only(s), TypeOK', Sound(s)'
  PROVE IInv'
<1>1. ASSUME NEW t \in Spiders, t # s PROVE Sound(t)'
  <2>1. Sound(t) /\ Rows(s) \cap Rows(t) = {} /\ Rows(t)' = Rows(t)
    BY <1>1 DEF IInv, Exclusive, Only, Rows
  <2>2. Counted(t)'
    BY <1>1, <2>1 DEF Sound, Counted, Only, Working
  <2>3. Placed(t)'
    <3>1. Rows(t) \cap table' = {}
      BY <2>1 DEF Only, Sound, Placed, Rows
    <3> QED BY <1>1, <2>1, <3>1 DEF Sound, Placed, Only, Working
  <2>4. Paced(t)'
    BY <1>1, <2>1 DEF Sound, Paced, Only, Working
  <2> QED BY <2>2, <2>3, <2>4 DEF Sound
<1>2. Exclusive'
  <2> SUFFICES ASSUME NEW t \in Spiders, NEW u \in Spiders, t # u
               PROVE (Rows(t) \cap Rows(u))' = {}
    BY DEF Exclusive
  <2>1. CASE t # s /\ u # s
    BY <2>1 DEF IInv, Exclusive, Only, Rows
  <2>2. CASE t = s
    BY <2>2 DEF Only, Rows
  <2>3. CASE u = s
    BY <2>3 DEF Only, Rows
  <2> QED BY <2>1, <2>2, <2>3
<1> QED BY <1>1, <1>2 DEF IInv

LEMMA Counts ==
  ASSUME IInv, NEW s \in Spiders
  PROVE /\ Cardinality(Rows(s)) \in Nat /\ Cardinality(stored[s]) \in Nat
        /\ lost[s] \in Nat /\ inserted[s] \in Nat /\ seen[s] \in 0 .. MaxItems
        /\ pending[s] \in 0 .. BatchSize
        /\ lost[s] + Cardinality(Rows(s)) \in 0 .. MaxItems
        /\ Sound(s) /\ TypeOK
<1>1. Sound(s) /\ TypeOK
  BY DEF IInv
<1>2. Cardinality(Rows(s)) \in Nat /\ Cardinality(stored[s]) \in Nat
  BY <1>1, FS_CardinalityType DEF Sound, Counted
<1>3. /\ lost[s] \in Nat /\ inserted[s] \in Nat /\ seen[s] \in 0 .. MaxItems
      /\ pending[s] \in 0 .. BatchSize
  BY <1>1 DEF TypeOK
<1> QED BY <1>1, <1>2, <1>3 DEF Sound, Counted

\* What a rollback does to the session it ends.
LEMMA RolledBack ==
  ASSUME IInv, NEW s \in Spiders, Rollback(s)
  PROVE /\ txn' \in [Spiders -> SUBSET Keys] /\ dirty' \in [Spiders -> BOOLEAN]
        /\ lost' \in [Spiders -> 0 .. MaxItems]
        /\ Rows(s)' = {} /\ IsFiniteSet(Rows(s)') /\ Cardinality(Rows(s)') = 0
        /\ lost'[s] = lost[s] + Cardinality(Rows(s))
        /\ \A t \in Spiders \ {s} : txn'[t] = txn[t] /\ lost'[t] = lost[t]
<1>1. /\ txn' \in [Spiders -> SUBSET Keys] /\ dirty' \in [Spiders -> BOOLEAN]
      /\ txn'[s] = {}
      /\ lost'[s] = lost[s] + Cardinality(Rows(s))
      /\ \A t \in Spiders \ {s} : txn'[t] = txn[t] /\ lost'[t] = lost[t]
  BY DEF Rollback, IInv, TypeOK
<1>2. lost' \in [Spiders -> 0 .. MaxItems]
  BY Counts DEF Rollback, IInv, TypeOK
<1>3. Rows(s)' = {}
  BY <1>1 DEF Rows
<1> QED BY <1>1, <1>2, <1>3, FS_EmptySet

LEMMA RaisesKeeps ==
  ASSUME IInv, NEW s \in Spiders, Raises(s), pc[s] # "closed"
  PROVE IInv'
<1>1. TypeOK /\ Rollback(s)
  BY DEF IInv, Raises
<1>2. TypeOK'
  BY <1>1, RolledBack DEF Raises, TypeOK, PipelineStates
<1>3. Only(s)
  BY <1>1, RolledBack DEF Raises, Only, TypeOK, Rows
<1>4. pc'[s] \in {"ready", "closed"} /\ poisoned'[s]
  BY <1>1 DEF Raises, TypeOK
<1>5. Counted(s)'
  BY <1>1, <1>4, RolledBack, Counts DEF Raises, Counted, Sound, Working
<1>6. Placed(s)'
  BY <1>1, <1>4, RolledBack, Counts DEF Raises, Placed, Sound, Working
<1>7. Paced(s)'
  BY <1>1, <1>4, RolledBack DEF Paced, Working
<1> QED BY <1>2, <1>3, <1>5, <1>6, <1>7, Composed DEF Sound

-----------------------------------------------------------------------------
LEMMA IInvInit == Init => IInv
<1> SUFFICES ASSUME Init PROVE IInv
  OBVIOUS
<1>1. TypeOK
  BY DEF Init, TypeOK, Keys, PipelineStates
<1>2. ASSUME NEW s \in Spiders PROVE Sound(s) /\ Rows(s) = {}
  <2>1. Rows(s) = {} /\ stored[s] = {} /\ pc[s] = "ready" /\ ~poisoned[s]
        /\ inserted[s] = 0 /\ seen[s] = 0 /\ lost[s] = 0 /\ pending[s] = 0
    BY DEF Init, Rows
  <2> QED BY <2>1, FS_EmptySet DEF Sound, Counted, Placed, Paced, Working
<1> QED BY <1>1, <1>2 DEF IInv, Exclusive

LEMMA ProcessKeeps ==
  ASSUME IInv, NEW s \in Spiders, Process(s)
  PROVE IInv'
<1>1. /\ pc[s] = "ready" /\ seen[s] < MaxItems
      /\ seen' = [seen EXCEPT ![s] = @ + 1]
      /\ UNCHANGED <<table, txn, pending, inserted, poisoned, stored, lost>>
  BY DEF Process, ProcessRefused, ProcessAirline, ProcessReview
<1>2. TypeOK /\ Sound(s) /\ Rows(s)' = Rows(s)
  BY <1>1, Counts DEF Rows
<1>3. \A t \in Spiders \ {s} : pc'[t] = pc[t] /\ item'[t] = item[t]
  BY <1>2 DEF Process, ProcessRefused, ProcessAirline, ProcessReview, TypeOK
<1>4. /\ dirty' \in [Spiders -> BOOLEAN]
      /\ pc' \in [Spiders -> PipelineStates]
      /\ item' \in [Spiders -> Reviews \cup {Airline}]
  BY <1>2 DEF Process, ProcessRefused, ProcessAirline, ProcessReview, TypeOK,
     PipelineStates
<1>5. TypeOK'
  BY <1>1, <1>2, <1>4 DEF TypeOK
<1>6. Only(s)
  BY <1>1, <1>2, <1>3 DEF Only, TypeOK, Rows, IInv, Exclusive
<1>7. seen'[s] = seen[s] + 1
  BY <1>1, <1>2 DEF TypeOK
<1>8. pc'[s] \in {"ready", "airline", "touch"}
  BY <1>1, <1>2 DEF Process, ProcessRefused, ProcessAirline, ProcessReview, TypeOK
<1>9. Counted(s)'
  BY <1>1, <1>2, <1>7, Counts DEF Sound, Counted, Working
<1>10. Placed(s)'
  <2>1. Working(s)' /\ item'[s] # Airline => item'[s] \notin txn[s]
    BY <1>1, <1>2 DEF Process, ProcessRefused, ProcessAirline, ProcessReview, TypeOK,
       Working, Visible
  <2> QED BY <1>1, <1>2, <1>8, <2>1 DEF Sound, Placed
<1>11. Paced(s)'
  <2>1. poisoned[s] => pc'[s] = "ready"
    BY <1>1, <1>2 DEF Process, ProcessRefused, ProcessAirline, ProcessReview, TypeOK
  <2> QED BY <1>1, <1>2, <1>8, <2>1 DEF Sound, Paced, Working
<1> QED BY <1>5, <1>6, <1>9, <1>10, <1>11, Composed DEF Sound

\* A write that is counted towards the batch, with or without a new review.
LEMMA MarkWriteKeeps ==
  ASSUME IInv, NEW s \in Spiders, MarkWrite(s), Working(s)
  PROVE /\ pending' \in [Spiders -> 0 .. BatchSize]
        /\ pc' \in [Spiders -> PipelineStates]
        /\ pending'[s] = pending[s] + 1
        /\ pc'[s] \in {"ready", "commit"}
        /\ pc'[s] = "ready" => pending'[s] < BatchSize
        /\ \A t \in Spiders \ {s} : pending'[t] = pending[t] /\ pc'[t] = pc[t]
<1>1. Sound(s) /\ TypeOK /\ pending[s] \in Nat
  BY Counts
<1>2. pending[s] < BatchSize
  BY <1>1 DEF Sound, Paced, Working
<1> QED BY <1>1, <1>2 DEF MarkWrite, TypeOK, PipelineStates

LEMMA FlushAirlineKeeps ==
  ASSUME IInv, NEW s \in Spiders, FlushAirline(s)
  PROVE IInv'
<1>1. TypeOK /\ Sound(s) /\ pc[s] = "airline" /\ Working(s)
  BY Counts DEF FlushAirline, Working
<1>2. CASE Raises(s)
  BY <1>1, <1>2, RaisesKeeps
<1>3. CASE ~Raises(s)
  <2>1. /\ txn' = [txn EXCEPT ![s] = @ \cup {Airline}]
        /\ UNCHANGED <<table, inserted, dirty, poisoned, item, seen, stored, lost>>
    BY <1>3 DEF FlushAirline
  <2>2. Rows(s)' = Rows(s)
    BY <1>1, <2>1 DEF Rows, TypeOK
  <2>3. /\ pending' \in [Spiders -> 0 .. BatchSize]
        /\ pc' \in [Spiders -> PipelineStates]
        /\ \A t \in Spiders \ {s} : pending'[t] = pending[t] /\ pc'[t] = pc[t]
        /\ pending'[s] >= pending[s]
        /\ \/ pc'[s] \in {"ready", "commit"}
           \/ pc'[s] = "review" /\ item[s] # Airline /\ pending'[s] = pending[s]
        /\ pc'[s] = "ready" => pending'[s] < BatchSize
    <3>1. CASE MarkWrite(s)
      BY <1>1, <3>1, MarkWriteKeeps, Counts
    <3>2. CASE ~MarkWrite(s)
      BY <1>1, <1>3, <3>2, Counts DEF FlushAirline, TypeOK, PipelineStates
    <3> QED BY <3>1, <3>2
  <2>4. TypeOK'
    BY <1>1, <2>1, <2>3 DEF TypeOK, Keys
  <2>5. Only(s)
    BY <1>1, <2>1, <2>2, <2>3 DEF Only, TypeOK, IInv, Exclusive
  <2>6. Counted(s)'
    BY <1>1, <2>1, <2>2, <2>3, <2>4, Counts DEF Sound, Counted, TypeOK
  <2>7. Placed(s)'
    BY <1>1, <2>1, <2>2, <2>3 DEF Sound, Placed, Working, TypeOK
  <2>8. Paced(s)'
    BY <1>1, <2>1, <2>2, <2>3 DEF Sound, Paced, Working
  <2> QED BY <2>4, <2>5, <2>6, <2>7, <2>8, Composed DEF Sound
<1> QED BY <1>2, <1>3
LEMMA FlushTouchKeeps ==
  ASSUME IInv, NEW s \in Spiders, FlushTouch(s)
  PROVE IInv'
<1>1. TypeOK /\ Sound(s) /\ pc[s] = "touch" /\ Working(s)
  BY Counts DEF FlushTouch, Working
<1>2. /\ txn' \in [Spiders -> SUBSET Keys] /\ dirty' \in [Spiders -> BOOLEAN]
      /\ \A t \in Spiders : txn'[t] \cap Reviews = txn[t] \cap Reviews
      /\ \A t \in Spiders \ {s} : txn'[t] = txn[t]
      /\ UNCHANGED <<table, inserted, poisoned, item, seen, stored, lost>>
  BY <1>1 DEF FlushTouch, TypeOK, Keys
<1>3. /\ pending' \in [Spiders -> 0 .. BatchSize]
      /\ pc' \in [Spiders -> PipelineStates]
      /\ \A t \in Spiders \ {s} : pending'[t] = pending[t] /\ pc'[t] = pc[t]
      /\ pending'[s] >= pending[s]
      /\ \/ pc'[s] \in {"ready", "commit"}
         \/ pc'[s] = "review" /\ item[s] # Airline /\ pending'[s] = pending[s]
      /\ pc'[s] = "ready" => pending'[s] < BatchSize
  <2>1. CASE MarkWrite(s)
    BY <1>1, <2>1, MarkWriteKeeps, Counts
  <2>2. CASE ~MarkWrite(s)
    BY <1>1, <2>2, Counts DEF FlushTouch, TypeOK, PipelineStates
  <2> QED BY <2>1, <2>2
<1>4. TypeOK'
  BY <1>1, <1>2, <1>3 DEF TypeOK
<1>5. \A t \in Spiders : Rows(t)' = Rows(t)
  BY <1>2 DEF Rows
<1>6. Only(s)
  BY <1>1, <1>2, <1>3, <1>5 DEF Only, TypeOK, IInv, Exclusive
<1>7. Counted(s)'
  BY <1>1, <1>2, <1>3, <1>5, <1>4, Counts DEF Sound, Counted, TypeOK
<1>8. Placed(s)'
  <2>1. Working(s)' /\ item[s] # Airline => item[s] \notin txn'[s]
    BY <1>1, <1>2 DEF Sound, Placed, TypeOK
  <2> QED BY <1>1, <1>2, <1>3, <1>5, <2>1 DEF Sound, Placed
<1>9. Paced(s)'
  BY <1>1, <1>2, <1>3, <1>5 DEF Sound, Paced, Working
<1> QED BY <1>4, <1>6, <1>7, <1>8, <1>9, Composed DEF Sound

LEMMA FlushReviewKeeps ==
  ASSUME IInv, NEW s \in Spiders, FlushReview(s)
  PROVE IInv'
<1>1. TypeOK /\ Sound(s) /\ pc[s] = "review" /\ Working(s) /\ item[s] \in Reviews
  BY Counts DEF FlushReview, Working, Sound, Placed, TypeOK
<1>2. CASE Raises(s)
  BY <1>1, <1>2, RaisesKeeps
\* A duplicate that slipped past the lookup.
<1>3. CASE item[s] \in table \ Oversized
  <2>1. /\ Rollback(s)
        /\ pc' = [pc EXCEPT ![s] = "ready"]
        /\ UNCHANGED <<table, pending, inserted, poisoned, item, seen, stored>>
    BY <1>3 DEF FlushReview
  <2>2. pc'[s] = "ready" /\ \A t \in Spiders \ {s} : pc'[t] = pc[t]
    BY <1>1, <2>1 DEF TypeOK
  <2>3. TypeOK'
    BY <1>1, <2>1, RolledBack DEF TypeOK, PipelineStates
  <2>4. Only(s)
    BY <1>1, <2>1, <2>2, RolledBack DEF Only, Rows
  <2>5. Counted(s)'
    BY <1>1, <2>1, <2>2, RolledBack, Counts DEF Counted, Sound, Working
  <2>6. Placed(s)' /\ Paced(s)'
    BY <1>1, <2>1, <2>2, RolledBack DEF Placed, Paced, Sound, Working
  <2> QED BY <2>3, <2>4, <2>5, <2>6, Composed DEF Sound
\* A new review: no other open transaction has it.
<1>4. CASE item[s] \notin table \cup Oversized
  <2>1. /\ txn' = [txn EXCEPT ![s] = @ \cup {item[s]}]
        /\ inserted' = [inserted EXCEPT ![s] = @ + 1]
        /\ dirty' = [dirty EXCEPT ![s] = TRUE]
        /\ MarkWrite(s)
        /\ UNCHANGED <<table, poisoned, item, seen, stored, lost>>
    BY <1>4 DEF FlushReview
  <2>2. Rows(s)' = Rows(s) \cup {item[s]} /\ item[s] \notin Rows(s)
    BY <1>1, <2>1 DEF Rows, TypeOK, Sound, Placed
  <2>3. \A t \in Spiders \ {s} : item[s] \notin txn[t]
    BY <1>1, <1>4 DEF FlushReview, Granted, WaitsFor, Wants
  <2>4. /\ IsFiniteSet(Rows(s)')
        /\ Cardinality(Rows(s)') = Cardinality(Rows(s)) + 1
    <3>1. /\ IsFiniteSet(Rows(s) \cup {item[s]})
          /\ Cardinality(Rows(s) \cup {item[s]}) = Cardinality(Rows(s)) + 1
      BY <1>1, <2>2, FS_AddElement DEF Sound, Counted
    <3> QED BY <2>2, <3>1
  <2>5. inserted'[s] = inserted[s] + 1 /\ inserted[s] < seen[s]
    BY <1>1, <2>1 DEF Sound, Counted, TypeOK
  <2>6. TypeOK'
    <3>1. inserted' \in [Spiders -> 0 .. MaxItems]
      BY <1>1, <2>1, <2>5, Counts DEF TypeOK
    <3>2. txn' \in [Spiders -> SUBSET Keys]
      BY <1>1, <2>1 DEF TypeOK, Keys
    <3> QED BY <1>1, <2>1, <3>1, <3>2, MarkWriteKeeps DEF TypeOK
  <2>7. Only(s)
    <3>1. \A t \in Spiders \ {s} : Rows(s)' \cap Rows(t) = {}
      BY <2>2, <2>3 DEF IInv, Exclusive, Rows
    <3>2. \A t \in Spiders \ {s} : /\ txn'[t] = txn[t] /\ inserted'[t] = inserted[t]
                                   /\ pending'[t] = pending[t] /\ pc'[t] = pc[t]
      BY <1>1, <2>1, MarkWriteKeeps DEF TypeOK
    <3> QED BY <2>1, <3>1, <3>2 DEF Only
  <2>8. Counted(s)'
    <3>1. /\ stored'[s] = stored[s] /\ lost'[s] = lost[s] /\ seen'[s] = seen[s]
          /\ pending'[s] = pending[s] + 1
          /\ pc'[s] \in {"ready", "commit"}
      BY <1>1, <2>1, MarkWriteKeeps
    <3>2. Counted(s)
      BY <1>1 DEF Sound
    <3> QED BY <2>4, <2>5, <3>1, <3>2, Counts DEF Counted, Working
  <2>9. Placed(s)' /\ Paced(s)'
    <3>1. pc'[s] \in {"ready", "commit"} /\ (pc'[s] = "ready" => pending'[s] < BatchSize)
          /\ ~poisoned'[s]
      BY <1>1, <2>1, MarkWriteKeeps DEF Sound, Paced
    <3> QED BY <1>1, <1>4, <2>1, <2>2, <3>1 DEF Sound, Placed, Paced, Working
  <2> QED BY <2>6, <2>7, <2>8, <2>9, Composed DEF Sound
<1> QED BY <1>1, <1>2, <1>3, <1>4 DEF FlushReview

LEMMA CommitKeeps ==
  ASSUME IInv, NEW s \in Spiders, Commit(s)
  PROVE IInv'
<1>1. TypeOK /\ Sound(s) /\ pc[s] \in {"commit", "closing"}
  BY Counts DEF Commit
<1>2. CASE poisoned[s]
  BY <1>1, <1>2, RaisesKeeps DEF Commit
<1>3. CASE ~poisoned[s]
  <2>1. /\ table' = table \cup (txn[s] \ {Touch})
        /\ stored' = [stored EXCEPT ![s] = @ \cup Rows(s)]
        /\ txn' = [txn EXCEPT ![s] = {}]
        /\ dirty' = [dirty EXCEPT ![s] = FALSE]
        /\ pending' = [pending EXCEPT ![s] = 0]
        /\ pc' = [pc EXCEPT ![s] = IF @ = "closing" THEN "closed" ELSE "ready"]
        /\ UNCHANGED <<inserted, poisoned, item, seen, lost>>
    BY <1>3 DEF Commit
  <2>2. /\ Rows(s)' = {} /\ stored'[s] = stored[s] \cup Rows(s)
        /\ pc'[s] \in {"closed", "ready"} /\ pending'[s] = 0
    BY <1>1, <2>1 DEF Rows, TypeOK
  <2>3. stored[s] \cap Rows(s) = {}
    BY <1>1 DEF Sound, Placed
  <2>4. /\ IsFiniteSet(stored'[s])
        /\ Cardinality(stored'[s]) = Cardinality(stored[s]) + Cardinality(Rows(s))
    <3>1. /\ IsFiniteSet(stored[s] \cup Rows(s))
          /\ Cardinality(stored[s] \cup Rows(s))
               = Cardinality(stored[s]) + Cardinality(Rows(s)) - Cardinality({})
      BY <1>1, <2>3, FS_Union DEF Sound, Counted
    <3> QED BY <2>2, <3>1, FS_EmptySet, Counts
  <2>5. TypeOK'
    <3>1. stored' \in [Spiders -> SUBSET Reviews]
      BY <1>1, <2>1 DEF TypeOK, Rows
    <3> QED BY <1>1, <2>1, <3>1 DEF TypeOK, Keys, PipelineStates
  <2>6. Only(s)
    BY <1>1, <2>1, <2>2 DEF Only, TypeOK, Rows
  <2>7. Counted(s)'
    BY <1>1, <2>1, <2>2, <2>4, FS_EmptySet, Counts DEF Sound, Counted, Working
  <2>8. Placed(s)' /\ Paced(s)'
    BY <1>1, <1>3, <2>1, <2>2 DEF Sound, Placed, Paced, Working, Rows
  <2> QED BY <2>5, <2>6, <2>7, <2>8, Composed DEF Sound
<1> QED BY <1>2, <1>3

LEMMA CloseKeeps ==
  ASSUME IInv, NEW s \in Spiders, Close(s) \/ Kill(s)
  PROVE IInv'
<1>1. TypeOK /\ Sound(s)
      /\ UNCHANGED <<table, pending, inserted, poisoned, item, seen, stored>>
  BY Counts DEF Close, Kill
<1>2. CASE Rollback(s) /\ pc' = [pc EXCEPT ![s] = "closed"]
  <2>1. TypeOK'
    BY <1>1, <1>2, RolledBack DEF TypeOK, PipelineStates
  <2>2. Only(s) /\ pc'[s] = "closed"
    BY <1>1, <1>2, RolledBack DEF Only, Rows, TypeOK
  <2>3. Counted(s)'
    BY <1>1, <1>2, <2>2, RolledBack, Counts DEF Sound, Counted, Working
  <2>4. Placed(s)' /\ Paced(s)'
    BY <1>1, <1>2, <2>2, RolledBack DEF Sound, Placed, Paced, Working
  <2> QED BY <2>1, <2>2, <2>3, <2>4, Composed DEF Sound
<1>3. CASE /\ pc' = [pc EXCEPT ![s] = "closing"]
           /\ UNCHANGED <<txn, dirty, lost>>
  <2>1. TypeOK'
    BY <1>1, <1>3 DEF TypeOK, PipelineStates
  <2>2. pc'[s] = "closing" /\ Rows(s)' = Rows(s)
    BY <1>1, <1>3 DEF TypeOK, Rows
  <2>3. Only(s)
    BY <1>1, <1>3 DEF Only, Rows, TypeOK, IInv, Exclusive
  <2>4. Counted(s)' /\ Placed(s)' /\ Paced(s)'
    BY <1>1, <1>3, <2>2 DEF Sound, Counted, Placed, Paced, Working
  <2> QED BY <2>1, <2>3, <2>4, Composed DEF Sound
<1> QED BY <1>2, <1>3 DEF Close, Kill

LEMMA IInvStep == IInv /\ [Next]_vars => IInv'
<1> SUFFICES ASSUME IInv, [Next]_vars PROVE IInv'
  OBVIOUS
<1>1. CASE UNCHANGED vars
  <2> USE <1>1 DEF vars
  <2>1. TypeOK' /\ \A s \in Spiders : Rows(s)' = Rows(s)
    BY DEF IInv, TypeOK, Rows
  <2>2. ASSUME NEW s \in Spiders PROVE Sound(s)'
    BY <2>1 DEF IInv, Sound, Counted, Placed, Paced, Working
  <2> QED BY <2>1, <2>2 DEF IInv, Exclusive
<1>2. ASSUME NEW s \in Spiders, Flush(s) PROVE IInv'
  BY <1>2, FlushAirlineKeeps, FlushTouchKeeps, FlushReviewKeeps, CommitKeeps DEF Flush
<1>3. ASSUME NEW s \in Spiders, AbortVictim(s) PROVE IInv'
  <2>1. pc[s] # "closed"
    <3>1. Wants(s) # {}
      BY <1>3 DEF AbortVictim, Deadlocked, WaitsFor
    <3> QED BY <3>1 DEF Wants
  <2> QED BY <1>3, <2>1, RaisesKeeps DEF AbortVictim
<1> QED BY <1>1, <1>2, <1>3, ProcessKeeps, CloseKeeps DEF Next

-----------------------------------------------------------------------------
THEOREM Inductive == Spec => []IInv
  BY IInvInit, IInvStep, PTL DEF Spec

\* Every variable keeps its type, whatever the spiders do to each other: the
\* counters of open_spider stay within the batch and the items.
THEOREM TypeCorrect == Spec => []TypeOK
<1>1. IInv => TypeOK
  BY DEF IInv
<1> QED BY <1>1, Inductive, PTL

\* For every batch size: a crash or rollback costs no more than the writes of
\* the open batch, and close_spider's "nothing pending" hides no review.
THEOREM BoundedLoss == Spec => []LossBounded
<1>1. IInv => LossBounded
  <2> SUFFICES ASSUME IInv, NEW s \in Spiders
               PROVE /\ Cardinality(Rows(s)) <= pending[s]
                     /\ pc[s] = "ready" => pending[s] < BatchSize \/ Rows(s) = {}
    BY DEF LossBounded
  <2> QED BY DEF IInv, Sound, Counted, Paced
<1> QED BY <1>1, Inductive, PTL

\* inserted_reviews is what was committed, what still can be and what was
\* rolled back, whatever duplicates, deadlocks and kills there were.
THEOREM CountsAreReconciled == Spec => []CountsReconcile
<1>1. IInv => CountsReconcile
  BY DEF IInv, Sound, Counted, CountsReconcile
<1> QED BY <1>1, Inductive, PTL

=============================================================================
