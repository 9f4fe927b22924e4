---------------------------- MODULE AviationSync ----------------------------
(***************************************************************************)
(* The transactions that fill the aviation tables: AviationMasterSync      *)
(* .run (aviation/master_data/sync.py), the two of run_enrichment_pass     *)
(* (scripts/bootstrap_aviation.py) and the one of _stage_aviation_metadata *)
(* that joins them, and a crawl, which is one in AviationMetadataPipeline. *)
(* Autoflush is off: a session reads what is committed and what it has     *)
(* flushed, while what it is about to write stays in its objects.          *)
(*                                                                         *)
(* A transaction is a plan of steps, each a read or a write of the         *)
(* database.  A flush waits for the session that has written one of its    *)
(* rows or unique keys, and fails if a key it inserts is there afterwards. *)
(* It is one step: of two that wait for each other, one fails (Fail).      *)
(*                                                                         *)
(* An airline row keeps the columns that resolve identities (one code for  *)
(* IATA and ICAO; a name is its slug), the core airline, the country and   *)
(* the hubs; airports, alliances and hub relations are their keys.         *)
(* Airports without an IATA code, the columns that only fill gaps as the   *)
(* country does, scores, timestamps and metrics are left out.              *)
(***************************************************************************)
EXTENDS Naturals, Sequences, FiniteSets, Functions

CONSTANTS
  Procs,    \* processes, each with one session at a time
  Worlds,   \* bounds: what the sources, the site and the tables may hold
  Nothing   \* NULL

Text == STRING \cup {Nothing}
Fields == {"code", "norm", "name", "core", "country", "hubs"}
Values(f) ==
  CASE f = "name" -> STRING
    [] f = "country" -> {"feed", "core", "page", Nothing}
    [] f = "hubs" -> SUBSET STRING
    [] OTHER -> Text

ASSUME NothingIsNoText == Nothing \notin STRING

\* A row of airline_metadata.
IsRow(r) == DOMAIN r = Fields /\ \A f \in Fields : r[f] \in Values(f)

\* The feed, the core airlines (their slug is unique) and the site in order.
ASSUME WorldsAssumption ==
  \A w \in Worlds :
    /\ w.feed \in Seq([slug : STRING, code : Text])
    /\ w.cores \in Seq([id : STRING, slug : STRING, name : STRING,
                         active : BOOLEAN, hubs : SUBSET STRING])
    /\ \A i, j \in DOMAIN w.cores : w.cores[i].slug = w.cores[j].slug => i = j
    /\ w.pages \in Seq([slug : STRING, country : {"page", Nothing},
                         hubs : SUBSET STRING, alliance : BOOLEAN])
    /\ w.places \in Seq([iata : STRING])
    /\ \A x \in DOMAIN w.rows : IsRow(w.rows[x])

VARIABLES
  rows,     \* airline_metadata: slug to row
  others,   \* unique keys of alliances, airport_metadata, airline_airports
  world,    \* fixed by the initial state
  plan,     \* the steps that are left of each process's transaction
  tx,       \* its session
  outcome,  \* what became of its last transaction
  synced    \* history: a master sync has committed

svars == <<rows, others, world, plan, tx, outcome, synced>>

-----------------------------------------------------------------------------
None == <<>>

\* seen: the objects of the session, changed or not; alias: slug_lookup;
\* linked: linked_ids; next: the entry at hand; pend, new and keys: what the
\* next flush writes, the slugs and keys it inserts; wrote, inserted and held:
\* the same, flushed.  created is what the transaction counts; calm (nobody
\* else has committed since it began) and second (a master sync had, before)
\* are history.
Blank ==
  [kind |-> "none", seen |-> None, alias |-> None, linked |-> {}, next |-> 1,
   pend |-> None, new |-> {}, keys |-> {},
   wrote |-> None, inserted |-> {}, held |-> {},
   created |-> 0, recovered |-> FALSE,
   calm |-> TRUE, second |-> FALSE]

\* The function of x alone; and f, with g where f says nothing.
Only(x, v) == [y \in {x} |-> v]
f ++ g == [x \in DOMAIN f \cup DOMAIN g |-> IF x \in DOMAIN f THEN f[x] ELSE g[x]]

\* A table after changes of some columns of some rows.
Over(table, changes) ==
  [x \in DOMAIN table \cup DOMAIN changes |->
     IF x \in DOMAIN table \cap DOMAIN changes THEN changes[x] ++ table[x]
     ELSE IF x \in DOMAIN table THEN table[x] ELSE changes[x]]

Visible(p) == Over(rows, tx[p].wrote)
VisibleKeys(p) == others \cup tx[p].held

\* The identity map: a query does not refresh an object that is still referred
\* to, and after a flush none is.
Object(p, t, x) == IF x \in DOMAIN t.seen THEN t.seen[x] ELSE Visible(p)[x]

\* Assignments to attributes of the objects of some rows, or of row x.
Assigned(p, t, changes) ==
  [t EXCEPT !.seen = Over([x \in DOMAIN changes |-> Object(p, t, x)] ++ @, changes),
            !.pend = Over(@, changes)]
Changed(p, t, x, c) == IF DOMAIN c = {} THEN t ELSE Assigned(p, t, Only(x, c))

\* session.add, of some rows or of row x
AddedAll(t, fresh) ==
  [t EXCEPT !.seen = fresh ++ @, !.pend = fresh ++ @, !.new = @ \cup DOMAIN fresh,
            !.created = @ + Cardinality(DOMAIN fresh)]
Added(t, x, row) == AddedAll(t, Only(x, row))

At(p, step) == plan[p] # <<>> /\ Head(plan[p]) = step
Advance(p) == plan' = [plan EXCEPT ![p] = Tail(@)]
Session(p, t) == tx' = [tx EXCEPT ![p] = t]
NoWrite == UNCHANGED <<rows, others, world, outcome, synced>>

Begin(p, kind, steps) ==
  /\ plan' = [plan EXCEPT ![p] = steps]
  /\ Session(p, [Blank EXCEPT !.kind = kind, !.second = synced])
  /\ outcome' = [outcome EXCEPT ![p] = "running"]
  /\ UNCHANGED <<rows, others, world, synced>>

\* The session is closed; what it has not committed is gone.
Leave(p, what) ==
  /\ plan' = [plan EXCEPT ![p] = <<>>]
  /\ Session(p, Blank)
  /\ outcome' = [outcome EXCEPT ![p] = what]
  /\ UNCHANGED <<rows, others, world, synced>>

\* An error of the database or of a source, the loser of a deadlock, a spider
\* killed at its timeout: the transaction is rolled back.
Fail(p) == plan[p] # <<>> /\ Leave(p, "raised")

-----------------------------------------------------------------------------
(* The plans. *)

MasterSteps ==
  <<"preflight", "seed", "flush", "load", "resolve", "flushAirlines",
    "airports", "flush", "link", "flush", "load", "backfill", "flush", "commit">>
SyncSteps == <<"preflight", "seed", "flush", "sync", "flush", "commit">>
PairsSteps == <<"pairs", "flush", "commit">>
StageSteps == <<"seed", "flush", "sync", "flush", "pairs", "flush", "commit">>
CrawlSteps(items) ==
  [i \in 1 .. 2 * Len(items) + 1 |->
     IF i > 2 * Len(items) THEN "commit" ELSE IF i % 2 = 1 THEN "item" ELSE "flushItem"]

\* ensure_aviation_runtime_ready finds iata_code missing, which ends a sync
\* with an error and an enrichment after its alliances.
Preflight(p) ==
  /\ At(p, "preflight")
  /\ NoWrite
  /\ UNCHANGED tx
  /\ \/ Advance(p)
     \/ tx[p].kind = "sync"
        /\ plan' = [plan EXCEPT ![p] = <<"seed", "flush", "commit">>]

Drift(p) ==
  At(p, "preflight") /\ tx[p].kind = "master" /\ Leave(p, "error")

\* _ensure_alliances, seed_alliances; one alliance stands for the three.
Alliance == <<"alliance">>
Airport(a) == <<"airport", a>>
Pair(x, a) == <<"pair", x, a>>

Seed(p) ==
  /\ At(p, "seed")
  /\ Session(p, [tx[p] EXCEPT !.keys = {Alliance} \ VisibleKeys(p)])
  /\ Advance(p)
  /\ NoWrite

-----------------------------------------------------------------------------
(* AviationMasterSync. *)

Same(f) == [x \in DOMAIN f |-> x]

\* build_airline_slug_lookup, and the core airlines that have their metadata,
\* which only the backfill asks for.
Load(p) ==
  /\ At(p, "load")
  /\ LET v == Visible(p)
     IN Session(p, [tx[p] EXCEPT !.seen = v, !.alias = Same(v), !.next = 1,
                                 !.linked = {v[x].core : x \in DOMAIN v} \ {Nothing}])
  /\ Advance(p)
  /\ NoWrite

\* semantic_airline_lookup: a row with the code, else one with the name.
Semantic(p, code, name) ==
  LET v == Visible(p)
      coded == {x \in DOMAIN v : code # Nothing /\ v[x].code = code}
  IN IF coded # {} THEN coded ELSE {x \in DOMAIN v : v[x].norm = name}

Gap(row, f, v) == IF row[f] = Nothing /\ v # Nothing THEN Only(f, v) ELSE None

\* Mutation: the country of the feed goes over what is there.
MergedOver(row, e) ==
  Gap(row, "code", e.code) ++ Only("country", "feed") ++ Gap(row, "norm", e.slug)
    ++ (IF <<e.slug, row.name>> \in world.longer THEN Only("name", e.slug) ELSE None)

\* merge_airline_metadata_from_openflights
Merged(row, e) ==
  Gap(row, "code", e.code) ++ Gap(row, "country", "feed") ++ Gap(row, "norm", e.slug)
    ++ (IF <<e.slug, row.name>> \in world.longer THEN Only("name", e.slug) ELSE None)

NewRow(name, code, norm, core, country, hubs) ==
  [code |-> code, norm |-> norm, name |-> name, core |-> core,
   country |-> country, hubs |-> hubs]

\* A loop over list goes on to the next entry, or is over.
Turn(p, list) == IF tx[p].next < Len(list) THEN UNCHANGED plan ELSE Advance(p)

\* resolve_airline_identity for one active airline of the feed.
Resolved(p, e) ==
  LET t == [tx[p] EXCEPT !.next = @ + 1]
      found == IF e.slug \in DOMAIN t.alias THEN {t.alias[e.slug]}
               ELSE Semantic(p, e.code, e.slug)
  IN \/ \E x \in found :
          Session(p, Changed(p, [t EXCEPT !.alias = @ ++ Only(e.slug, x)],
                             x, Merged(Object(p, t, x), e)))
     \/ /\ found = {}
        /\ Session(p, Added([t EXCEPT !.alias = @ ++ Only(e.slug, e.slug)], e.slug,
             NewRow(e.slug, e.code, e.slug, Nothing, "feed", {})))

Resolve(p) ==
  /\ At(p, "resolve")
  /\ IF tx[p].next \in DOMAIN world.feed THEN Resolved(p, world.feed[tx[p].next])
     ELSE UNCHANGED tx
  /\ Turn(p, world.feed)
  /\ NoWrite

\* _sync_airports, for a feed without duplicates.
Airports(p) ==
  /\ At(p, "airports")
  /\ Session(p, [tx[p] EXCEPT
       !.keys = {Airport(a) : a \in world.airports} \ VisibleKeys(p)])
  /\ Advance(p)
  /\ NoWrite

\* The core airline of an object without one: by slug, by the slug of its name,
\* by a name that contains the other; the first one that fits.
Candidates(x, row) ==
  LET Fit(Test(_)) == {i \in DOMAIN world.cores : Test(world.cores[i])}
      BySlug(c) == c.slug = x
      ByName(c) == c.name = row.name
      BySubstring(c) == <<row.name, c.id>> \in world.similar
  IN IF Fit(BySlug) # {} THEN Fit(BySlug)
     ELSE IF Fit(ByName) # {} THEN Fit(ByName) ELSE Fit(BySubstring)

Match(x, row) ==
  world.cores[CHOOSE i \in Candidates(x, row) : \A j \in Candidates(x, row) : i <= j]

\* _link_to_core_airlines
Link(p) ==
  /\ At(p, "link")
  /\ LET v == Visible(p)
         o == [x \in DOMAIN v |-> Object(p, tx[p], x)]
         unlinked == {x \in DOMAIN v : v[x].core = Nothing /\ Candidates(x, o[x]) # {}}
     IN Session(p, Assigned(p, tx[p], [x \in unlinked |->
          Only("core", Match(x, o[x]).id) ++ Gap(o[x], "country", "core")]))
  /\ Advance(p)
  /\ NoWrite

Known(f, x, y) == IF x \in DOMAIN f THEN {f[x]} ELSE IF y \in DOMAIN f THEN {f[y]} ELSE {}

\* The rows a core airline resolves to; session.scalar returns any of them.
Resolves(p, t, c) ==
  LET k == Known(t.alias, c.slug, c.name)
  IN IF k # {} THEN k ELSE Semantic(p, Nothing, c.name)

\* Mutation: a core airline that resolves to a row is left at that.
BackfilledLax(p, t, c, x) ==
  LET u == [t EXCEPT !.alias = @ ++ Only(c.slug, x) ++ Only(c.name, x)]
  IN IF Resolves(p, t, c) = {}
     THEN Added(u, x, NewRow(c.name, Nothing, c.name, c.id, "core", {}))
     ELSE u

\* One turn of _backfill_from_core, with the row x.
Backfilled(p, t, c, x) ==
  LET u == [t EXCEPT !.alias = @ ++ Only(c.slug, x) ++ Only(c.name, x)]
  IN IF Resolves(p, t, c) = {}
     THEN Added(u, x, NewRow(c.name, Nothing, c.name, c.id, "core", {}))
     ELSE Changed(p, u, x, Gap(Object(p, t, x), "core", c.id)
                             ++ Gap(Object(p, t, x), "country", "core"))

Targets(p, t, c) == IF Resolves(p, t, c) = {} THEN {c.slug} ELSE Resolves(p, t, c)

\* A turn for every core airline, active and without a linked row or not.
Backfill(p) ==
  /\ At(p, "backfill")
  /\ LET i == tx[p].next
         t == [tx[p] EXCEPT !.next = @ + 1]
     IN IF i \in DOMAIN world.cores /\ world.cores[i].active
             /\ world.cores[i].id \notin t.linked
        THEN \E x \in Targets(p, t, world.cores[i]) :
               Session(p, Backfilled(p, t, world.cores[i], x))
        ELSE Session(p, t)
  /\ Turn(p, world.cores)
  /\ NoWrite

-----------------------------------------------------------------------------
(* The enrichment. *)

\* sync_airlines_to_metadata: the row with the core airline's slug is its row.
Sync(p) ==
  /\ At(p, "sync")
  /\ LET v == Visible(p)
         active == {c \in Range(world.cores) : c.active}
         slugs == {c.slug : c \in active}
         Core(x) == CHOOSE c \in active : c.slug = x
         Updated(x) ==
           Only("core", Core(x).id) ++ Only("name", Core(x).name)
             ++ Gap(v[x], "country", "core") ++ Gap(v[x], "norm", x)
             ++ (IF v[x].hubs = {} THEN Only("hubs", Core(x).hubs) ELSE None)
         New(x) == NewRow(Core(x).name, Nothing, x, Core(x).id, "core", Core(x).hubs)
     IN Session(p, AddedAll(
          Assigned(p, tx[p], [x \in slugs \cap DOMAIN v |-> Updated(x)]),
          [x \in slugs \ DOMAIN v |-> New(x)]))
  /\ Advance(p)
  /\ NoWrite

\* FUSION_SAFE_MODE
SkipSync(p) ==
  /\ At(p, "sync")
  /\ tx[p].kind = "sync"
  /\ Advance(p)
  /\ UNCHANGED <<tx, rows, others, world, outcome, synced>>

\* Relations that rows' hubs ask for and airport_metadata allows.
Asked(p, slugs) ==
  {k \in UNION {{Pair(x, a) : a \in Visible(p)[x].hubs} : x \in slugs} :
     Airport(k[3]) \in VisibleKeys(p)} \ VisibleKeys(p)

\* The linking loop.  An enrichment out of time commits the airlines it has
\* done; _stage_aviation_metadata has no such limit.
Pairs(p) ==
  /\ At(p, "pairs")
  /\ \E done \in SUBSET DOMAIN Visible(p) :
       /\ tx[p].kind = "stage" => done = DOMAIN Visible(p)
       /\ Session(p, [tx[p] EXCEPT !.keys = Asked(p, done)])
  /\ Advance(p)
  /\ NoWrite

-----------------------------------------------------------------------------
(* AviationMetadataPipeline. *)

\* Mutation: the columns that a page never has are written as well.
AirlineItemAll(p, item) ==
  LET t == [tx[p] EXCEPT !.next = @ + 1,
              !.keys = IF item.alliance THEN {Alliance} \ VisibleKeys(p) ELSE {}]
      fields == [name |-> item.slug, country |-> item.country, hubs |-> item.hubs,
                 code |-> Nothing, norm |-> Nothing]
  IN IF item.slug \in DOMAIN Visible(p)
     THEN Changed(p, t, item.slug, fields)
     ELSE Added(t, item.slug, fields ++ [core |-> Nothing])

\* _upsert_airline writes every field, those the page does not have as NULL.
AirlineItem(p, item) ==
  LET t == [tx[p] EXCEPT !.next = @ + 1,
              !.keys = IF item.alliance THEN {Alliance} \ VisibleKeys(p) ELSE {}]
      fields == [name |-> item.slug, country |-> item.country, hubs |-> item.hubs]
  IN IF item.slug \in DOMAIN Visible(p)
     THEN Changed(p, t, item.slug, fields)
     ELSE Added(t, item.slug, fields ++ [code |-> Nothing, norm |-> Nothing,
                                         core |-> Nothing])

\* _upsert_airport
AirportItem(p, item) ==
  [tx[p] EXCEPT !.next = @ + 1, !.keys = {Airport(item.iata)} \ VisibleKeys(p)]

Items(p) == IF tx[p].kind = "crawlAirlines" THEN world.pages ELSE world.places

Item(p) ==
  /\ At(p, "item")
  /\ tx[p].next \in DOMAIN Items(p)
  /\ LET item == Items(p)[tx[p].next]
     IN Session(p, IF tx[p].kind = "crawlAirlines" THEN AirlineItem(p, item)
                   ELSE AirportItem(p, item))
  /\ Advance(p)
  /\ NoWrite

-----------------------------------------------------------------------------
(* Flushes and commits. *)

Free(p) ==
  \A q \in Procs \ {p} :
    /\ DOMAIN tx[p].pend \cap DOMAIN tx[q].wrote = {}
    /\ tx[p].keys \cap tx[q].held = {}

Taken(p) ==
  {<<x>> : x \in tx[p].new \cap DOMAIN rows} \cup (tx[p].keys \cap others)

Flush(p) ==
  /\ At(p, "flush") \/ At(p, "flushAirlines") \/ At(p, "flushItem")
  /\ Free(p)
  /\ Taken(p) = {}
  /\ Session(p, [tx[p] EXCEPT
       !.wrote = Over(@, tx[p].pend), !.inserted = @ \cup tx[p].new,
       !.held = @ \cup tx[p].keys, !.seen = None, !.pend = None, !.new = {},
       !.keys = {}])
  /\ Advance(p)
  /\ NoWrite

Clash(p) ==
  At(p, "flush") /\ Free(p) /\ Taken(p) # {} /\ Leave(p, "raised")

\* Mutation: the first attempt's counts stay.
CountAnew(t) == t.created

CountFromZero(t) == 0

\* A slug has been taken: back to the SAVEPOINT, and once more from the lookup.
Recover(p) ==
  /\ At(p, "flushAirlines")
  /\ Free(p)
  /\ Taken(p) # {}
  /\ ~tx[p].recovered
  /\ Session(p, [tx[p] EXCEPT !.seen = None, !.alias = None, !.pend = None,
                              !.new = {}, !.recovered = TRUE,
                              !.created = CountFromZero(tx[p])])
  /\ plan' = [plan EXCEPT ![p] = <<"load", "resolve">> \o @]
  /\ NoWrite

ClashAgain(p) ==
  /\ At(p, "flushAirlines")
  /\ Free(p)
  /\ Taken(p) # {}
  /\ tx[p].recovered
  /\ Leave(p, "raised")

\* _flush: an IntegrityError rolls back all that the crawl has upserted.
DropCrawl(p) ==
  /\ At(p, "flushItem")
  /\ Free(p)
  /\ Taken(p) # {} /\ Alliance \notin Taken(p)
  /\ Session(p, [Blank EXCEPT !.kind = tx[p].kind, !.next = tx[p].next,
                              !.calm = tx[p].calm, !.second = tx[p].second])
  /\ Advance(p)
  /\ NoWrite

\* _resolve_alliance flushes without that: the session refuses all that
\* follows, and scrapy still ends well.
BreakCrawl(p) ==
  /\ At(p, "flushItem")
  /\ Free(p)
  /\ Alliance \in Taken(p)
  /\ Leave(p, "ok")

Disturbed(p, q) ==
  IF q # p /\ plan[q] # <<>> THEN [tx[q] EXCEPT !.calm = FALSE]
  ELSE IF q = p THEN Blank ELSE tx[q]

Commit(p) ==
  /\ At(p, "commit")
  /\ rows' = Visible(p)
  /\ others' = VisibleKeys(p)
  /\ tx' = [q \in Procs |-> Disturbed(p, q)]
  /\ plan' = [plan EXCEPT ![p] = <<>>]
  /\ outcome' = [outcome EXCEPT ![p] = "ok"]
  /\ synced' = (synced \/ tx[p].kind = "master")
  /\ UNCHANGED world

Step(p) ==
  \/ Preflight(p) \/ Drift(p) \/ Seed(p)
  \/ Load(p) \/ Resolve(p) \/ Airports(p) \/ Link(p) \/ Backfill(p)
  \/ Sync(p) \/ SkipSync(p) \/ Pairs(p)
  \/ Item(p)
  \/ Flush(p) \/ Clash(p) \/ Recover(p) \/ ClashAgain(p)
  \/ DropCrawl(p) \/ BreakCrawl(p)
  \/ Commit(p)
  \/ Fail(p)

SyncInit ==
  /\ world \in Worlds
  /\ rows = world.rows
  /\ others = world.others
  /\ plan = [p \in Procs |-> <<>>]
  /\ tx = [p \in Procs |-> Blank]
  /\ outcome = [p \in Procs |-> "none"]
  /\ synced = FALSE

=============================================================================
