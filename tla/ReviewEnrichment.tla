--------------------------- MODULE ReviewEnrichment ---------------------------
(***************************************************************************)
(* The tables derived from the reviews: review_intelligence, filled in     *)
(* batches by run_metadata_extraction_until_done                           *)
(* (analytics/metadata_extractor.py), and nlp_results, filled by           *)
(* _enrich_pending (worker/jobs.py), which then rebuilds topic_snapshots   *)
(* (nlp/topics.py).  Either is run by a stage of the full refresh, which   *)
(* takes no lock, and by an RQ job of its own under a job lock that does   *)
(* not always exclude (JobLock): any two passes may overlap.               *)
(*                                                                         *)
(* A pass works on the reviews without a derived row, oldest created_at    *)
(* first; review_id is unique in both tables, so an insert waits for       *)
(* another transaction's uncommitted row of that review and fails when it  *)
(* has been committed.  Each statement sees what is committed when it      *)
(* starts (READ COMMITTED).  The two tables never meet, so a behaviour is  *)
(* about one of them, the kind chosen in Init.                             *)
(***************************************************************************)
EXTENDS Integers, FiniteSets

CONSTANTS
  Reviews,    \* reviews the spider may store: a number is its created_at
  Tasks,      \* passes
  Stages,     \* the passes that are a stage of the refresh
  Passes,     \* the passes there are over each of the two tables
  Subject,    \* of each review: its airline and the polarity of its result
  Batch,      \* batch_size of the extractor, limit of the enrichment
  MaxBatches  \* max_batches of run_metadata_extraction_until_done

ASSUME ReviewsAssumption == Reviews \subseteq Nat /\ IsFiniteSet(Reviews)
ASSUME TasksAssumption ==
  Stages \subseteq Tasks /\ Passes \in [{"metadata", "nlp"} -> SUBSET Tasks]
ASSUME BatchAssumption == Batch \in Nat \ {0} /\ MaxBatches \in Nat \ {0}

VARIABLES
  kind,    \* the derived table of this behaviour
  stored,  \* committed reviews
  late,    \* history: a review was committed after a younger one
  author,  \* the committed derived rows: review |-> the pass that wrote it
  held,    \* reviews whose row a pass has inserted and not committed
  pc,      \* control point of every pass
  loc,     \* a pass's local variables
  result,  \* what a pass has returned
  topics,  \* generations of topic_snapshots rows: by whom, over which rows
  locked,  \* the generations a pass has deleted and not committed
  overlap  \* history: another topic refresh ran during this pass's

rest == <<topics, locked, overlap>>
vars == <<kind, stored, late, author, held, pc, loc, result, rest>>

Derived == DOMAIN author

Active(t) == pc[t] \notin {"idle", "ended"}
Refreshing(t) == pc[t] \in {"delete", "airlines", "label", "publish"}

Subjects == {Subject[r] : r \in Reviews}

NoLoc == [due |-> {}, seen |-> {}, corpus |-> 0, total |-> 0, before |-> 0,
          analysed |-> 0, batches |-> 0, snap |-> {}, unread |-> {}, upto |-> {}]
NoResult == [outcome |-> "none", analysed |-> 0, remaining |-> 0]

-----------------------------------------------------------------------------
Init ==
  /\ kind \in {"metadata", "nlp"}
  /\ stored = {}
  /\ late = FALSE
  /\ author = [r \in {} |-> r]
  /\ held = [t \in Tasks |-> {}]
  /\ pc = [t \in Tasks |-> "idle"]
  /\ loc = [t \in Tasks |-> NoLoc]
  /\ result = [t \in Tasks |-> NoResult]
  /\ topics = {}
  /\ locked = [t \in Tasks |-> {}]
  /\ overlap = [t \in Tasks |-> FALSE]

\* The spider commits a review: created_at is set when the row is flushed,
\* up to a batch before its commit, so that crawls side by side commit
\* reviews in any order.
Arrive(r) ==
  /\ r \notin stored
  /\ stored' = stored \cup {r}
  /\ late' = (late \/ \E s \in stored : s > r)
  /\ UNCHANGED <<kind, author, held, pc, loc, result, rest>>

Goto(t, point) == pc' = [pc EXCEPT ![t] = point]

\* The pass returns, raises or dies: what it has not committed is rolled back.
End(t, outcome, analysed, remaining) ==
  /\ Goto(t, "ended")
  /\ result' = [result EXCEPT ![t] = [outcome |-> outcome,
                  analysed |-> analysed, remaining |-> remaining]]
  /\ held' = [held EXCEPT ![t] = {}]
  /\ locked' = [locked EXCEPT ![t] = {}]
  /\ loc' = [loc EXCEPT ![t] = [NoLoc EXCEPT !.seen =
                IF outcome = "covered" THEN loc[t].seen ELSE {}]]

-----------------------------------------------------------------------------
(* The rows of a batch. *)

\* The query of the pending reviews: ORDER BY created_at LIMIT Batch.
Pending ==
  LET open == stored \ Derived
  IN {r \in open : Cardinality({s \in open : s < r}) < Batch}

\* Mutation: rows are inserted in no particular order.
NextRowUnordered(t) == loc[t].due \ held[t]

\* The unit of work inserts in the order of session.add, oldest first.
NextRow(t) ==
  {r \in loc[t].due \ held[t] : \A s \in loc[t].due \ held[t] : r <= s}

Insert(t) ==
  /\ pc[t] = "insert"
  /\ \E r \in NextRow(t) :
       /\ r \notin Derived
       /\ \A x \in Tasks \ {t} : r \notin held[x]
       /\ held' = [held EXCEPT ![t] = @ \cup {r}]
  /\ UNCHANGED <<kind, stored, late, author, pc, loc, result, rest>>

\* Mutation: the batch that is rolled back is counted as analysed.
ConflictCounted(t) ==
  /\ pc[t] = "insert"
  /\ \E r \in NextRow(t) : r \in Derived
  /\ \/ /\ kind = "metadata"
        /\ End(t, "error", loc[t].analysed + Cardinality(loc[t].due),
               IF loc[t].total > loc[t].before
               THEN loc[t].total - loc[t].before ELSE 0)
     \/ /\ kind = "nlp"
        /\ End(t, "raised", 0, 0)
  /\ UNCHANGED <<kind, stored, late, author, topics, overlap>>

\* IntegrityError: the whole batch is rolled back.  The extractor returns an
\* error with what the earlier batches had analysed, the enrichment raises.
Conflict(t) ==
  /\ pc[t] = "insert"
  /\ \E r \in NextRow(t) : r \in Derived
  /\ \/ /\ kind = "metadata"
        /\ End(t, "error", loc[t].analysed,
               IF loc[t].total > loc[t].before
               THEN loc[t].total - loc[t].before ELSE 0)
     \/ /\ kind = "nlp"
        /\ End(t, "raised", 0, 0)
  /\ UNCHANGED <<kind, stored, late, author, topics, overlap>>

Commit(t) ==
  /\ pc[t] = "insert"
  /\ loc[t].due = held[t]
  /\ author' = [r \in Derived \cup held[t] |->
                  IF r \in held[t] THEN t ELSE author[r]]
  /\ held' = [held EXCEPT ![t] = {}]
  /\ Goto(t, IF kind = "metadata" THEN "recount" ELSE "refresh")
  /\ UNCHANGED <<kind, stored, late, loc, result, rest>>

-----------------------------------------------------------------------------
(* run_metadata_extraction_until_done, inside _stage_metadata or the job. *)

Open(t) ==
  /\ pc[t] = "idle"
  /\ t \in Passes[kind]
  /\ Goto(t, IF kind = "metadata" THEN "count" ELSE "load")
  /\ UNCHANGED <<kind, stored, late, author, held, loc, result, rest>>

\* collect_table_counts before the first batch: only the stage uses the number
\* of reviews, and a count of them that fails is 0.
CountTables(t) ==
  /\ pc[t] = "count"
  /\ \E count \in {0, Cardinality(stored)} :
       loc' = [loc EXCEPT ![t].corpus = IF t \in Stages THEN count ELSE 0]
  /\ Goto(t, "load")
  /\ UNCHANGED <<kind, stored, late, author, held, result, rest>>

Load(t) ==
  /\ pc[t] = "load"
  /\ loc' = [loc EXCEPT ![t].due = Pending, ![t].seen = stored,
                        ![t].batches = @ + 1]
  /\ Goto(t, IF kind = "metadata" THEN "total" ELSE "insert")
  /\ UNCHANGED <<kind, stored, late, author, held, result, rest>>

CountReviews(t) ==
  /\ pc[t] = "total"
  /\ loc' = [loc EXCEPT ![t].total = Cardinality(stored)]
  /\ Goto(t, "before")
  /\ UNCHANGED <<kind, stored, late, author, held, result, rest>>

CountBefore(t) ==
  /\ pc[t] = "before"
  /\ loc' = [loc EXCEPT ![t].before = Cardinality(Derived)]
  /\ Goto(t, "insert")
  /\ UNCHANGED <<kind, stored, late, author, held, result, rest>>

\* A query fails before the batch is built: the extractor returns an error,
\* the enrichment raises.  If it is the first count of the derived rows, no
\* batch is tried.
QueryFails(t) ==
  /\ pc[t] \in {"count", "load", "total", "before"}
  /\ IF kind = "metadata" THEN End(t, "error", loc[t].analysed, -1)
                          ELSE End(t, "raised", 0, 0)
  /\ UNCHANGED <<kind, stored, late, author, topics, overlap>>

\* Mutation: a batch that fits is taken for the last one.
StopsBySize(t, created, remaining) ==
  Cardinality(loc[t].due) <= Batch

\* The loop's break.
Stops(t, created, remaining) == created = 0 \/ remaining = 0

\* range(max_batches) is used up.
LastBatch(t) == loc[t].batches >= MaxBatches

\* The count after the commit, the alarm "metadata_commit_no_rows_visible",
\* and the loop: stop, give up after MaxBatches, or take the next batch.
Recount(t) ==
  /\ pc[t] = "recount"
  /\ LET created == Cardinality(loc[t].due)
         rows == Cardinality(Derived)
         remaining == IF loc[t].total > rows THEN loc[t].total - rows ELSE 0
     IN  IF created > 0 /\ rows <= loc[t].before
         THEN End(t, "invisible", loc[t].analysed, remaining)
         ELSE /\ loc' = [loc EXCEPT ![t].analysed = @ + created,
                           ![t].due = {}, ![t].total = 0, ![t].before = 0]
              /\ \/ /\ Stops(t, created, remaining)
                    /\ result' = [result EXCEPT ![t].outcome = "covered",
                                                ![t].remaining = remaining]
                    /\ Goto(t, "after")
                 \/ /\ ~Stops(t, created, remaining)
                    /\ LastBatch(t)
                    /\ result' = [result EXCEPT ![t].outcome = "capped",
                                                ![t].remaining = remaining]
                    /\ Goto(t, "after")
                 \/ /\ ~Stops(t, created, remaining)
                    /\ ~LastBatch(t)
                    /\ Goto(t, "load")
                    /\ UNCHANGED result
              /\ UNCHANGED <<held, locked>>
  /\ UNCHANGED <<kind, stored, late, author, topics, overlap>>

\* The counts after the loop.  The stage raises "metadata_persistence_empty"
\* when there are reviews and no row is counted, also when the count has
\* failed ("misread"): -1 becomes 0.
After(t) ==
  /\ pc[t] = "after"
  /\ \E failed \in BOOLEAN :
       LET gap == t \in Stages /\ loc[t].corpus > 0
       IN End(t, IF gap /\ failed THEN "misread"
                 ELSE IF gap /\ Derived = {} THEN "empty"
                 ELSE result[t].outcome,
              loc[t].analysed, result[t].remaining)
  /\ UNCHANGED <<kind, stored, late, author, topics, overlap>>

-----------------------------------------------------------------------------
(* TopicModelingService.refresh_snapshots: one transaction. *)

\* The DELETE starts: it will delete what it sees now.
StartRefresh(t) ==
  /\ pc[t] = "refresh"
  /\ loc' = [loc EXCEPT ![t].snap = topics]
  /\ Goto(t, "delete")
  /\ overlap' = [x \in Tasks |->
       IF x = t THEN \E y \in Tasks : Refreshing(y)
                ELSE overlap[x] \/ Refreshing(x)]
  /\ UNCHANGED <<kind, stored, late, author, held, result, topics, locked>>

\* Mutation: only the pass's own generations are deleted.
DeleteOwn(t) ==
  /\ pc[t] = "delete"
  /\ \A x \in Tasks \ {t} : locked[x] \cap loc[t].snap = {}
  /\ locked' = [locked EXCEPT ![t] = {g \in loc[t].snap : g.by = t}]
  /\ Goto(t, "airlines")
  /\ UNCHANGED <<kind, stored, late, author, held, loc, result, topics,
                 overlap>>

\* It waits for a transaction that has deleted one of these rows, and then
\* goes on without seeing what that one has inserted.
Delete(t) ==
  /\ pc[t] = "delete"
  /\ \A x \in Tasks \ {t} : locked[x] \cap loc[t].snap = {}
  /\ locked' = [locked EXCEPT ![t] = loc[t].snap \cap topics]
  /\ Goto(t, "airlines")
  /\ UNCHANGED <<kind, stored, late, author, held, loc, result, topics,
                 overlap>>

\* The airlines are read: those of all stored reviews, at least.
Airlines(t) ==
  /\ pc[t] = "airlines"
  /\ \E list \in SUBSET Subjects :
       /\ {Subject[r] : r \in stored} \subseteq list
       /\ loc' = [loc EXCEPT ![t].unread = list]
       /\ Goto(t, IF list = {} THEN "publish" ELSE "label")
  /\ UNCHANGED <<kind, stored, late, author, held, result, rest>>

\* Mutation: only the results of this pass are read.
LabelOwn(t) ==
  /\ pc[t] = "label"
  /\ \E s \in loc[t].unread :
       /\ loc' = [loc EXCEPT ![t].unread = @ \ {s},
                   ![t].upto = @ \cup {r \in Derived : Subject[r] = s /\ author[r] = t}]
       /\ Goto(t, IF loc[t].unread = {s} THEN "publish" ELSE "label")
  /\ UNCHANGED <<kind, stored, late, author, held, result, rest>>

\* One query per airline and polarity: its results that are committed by now.
Label(t) ==
  /\ pc[t] = "label"
  /\ \E s \in loc[t].unread :
       /\ loc' = [loc EXCEPT ![t].unread = @ \ {s},
                              ![t].upto = @ \cup {r \in Derived : Subject[r] = s}]
       /\ Goto(t, IF loc[t].unread = {s} THEN "publish" ELSE "label")
  /\ UNCHANGED <<kind, stored, late, author, held, result, rest>>

\* The COMMIT; no result, no snapshot row.
Publish(t) ==
  /\ pc[t] = "publish"
  /\ topics' = (topics \ locked[t])
       \cup (IF loc[t].upto = {} THEN {}
                                 ELSE {[by |-> t, upto |-> loc[t].upto]})
  /\ End(t, "covered", Cardinality(loc[t].due), 0)
  /\ UNCHANGED <<kind, stored, late, author, overlap>>

-----------------------------------------------------------------------------
\* The worker is killed, or a statement outside the handlers fails: the
\* transaction is rolled back and what the pass did is not reported.
Dies(t) ==
  /\ Active(t)
  /\ End(t, "died", 0, 0)
  /\ UNCHANGED <<kind, stored, late, author, topics, overlap>>

Step(t) ==
  \/ CountTables(t) \/ Load(t) \/ CountReviews(t) \/ CountBefore(t) \/ QueryFails(t)
  \/ Insert(t) \/ Conflict(t) \/ Commit(t) \/ Recount(t) \/ After(t)
  \/ StartRefresh(t) \/ Delete(t) \/ Airlines(t) \/ Label(t) \/ Publish(t)

Next ==
  \/ \E r \in Reviews : Arrive(r)
  \/ \E t \in Tasks : Open(t) \/ Step(t) \/ Dies(t)

Spec == Init /\ [][Next]_vars

\* A worker that runs a pass keeps running it.
FairSpec == Spec /\ \A t \in Tasks : WF_vars(Step(t))

-----------------------------------------------------------------------------
(* Properties. *)

Points == {"idle", "count", "load", "total", "before", "insert", "recount", "after",
           "refresh", "delete", "airlines", "label", "publish", "ended"}
Outcomes == {"none", "covered", "capped", "error", "raised", "invisible",
             "empty", "misread", "died"}
Generations == [by : Tasks, upto : SUBSET Reviews]
Locs == [due : SUBSET Reviews, seen : SUBSET Reviews, corpus : Nat,
         total : Nat, before : Nat, analysed : Nat, batches : 0..MaxBatches,
         snap : SUBSET Generations, unread : SUBSET Subjects, upto : SUBSET Reviews]

TypeOK ==
  /\ kind \in {"metadata", "nlp"}
  /\ stored \subseteq Reviews
  /\ late \in BOOLEAN
  /\ author \in [Derived -> Tasks] /\ Derived \subseteq stored
  /\ held \in [Tasks -> SUBSET Reviews]
  /\ pc \in [Tasks -> Points]
  /\ loc \in [Tasks -> Locs]
  /\ result \in [Tasks -> [outcome : Outcomes, analysed : Nat, remaining : Int]]
  /\ topics \subseteq Generations
  /\ locked \in [Tasks -> SUBSET Generations]
  /\ overlap \in [Tasks -> BOOLEAN]

\* What a pass that has returned says it analysed are the rows it wrote:
\* batches lost to a conflict with another pass are not counted, the ones
\* committed before them are.  And while its queries work, an extraction never
\* raises one of its two alarms: the rows it has committed, or another pass has
\* committed in its place, are seen by its counts.
Written(t) == {r \in Derived : author[r] = t}
ReportedIsWritten ==
  \A t \in Tasks :
    /\ result[t].outcome \in {"covered", "capped", "error", "misread"} /\ ~Active(t) =>
         result[t].analysed = Cardinality(Written(t))
    /\ result[t].outcome \notin {"invisible", "empty"}

\* When reviews are committed in the order of created_at, an extraction that
\* stops before its batches run out has covered every review that was stored
\* when its last batch began, although `remaining` is the difference of two
\* counts taken at different times.
CoveredMeansCovered ==
  \A t \in Tasks :
    kind = "metadata" /\ result[t].outcome = "covered" /\ ~late =>
      loc[t].seen \subseteq Derived

\* Every pass that has begun ends: passes that wait for each other's rows do
\* not wait in a circle, and the loop over the batches is finite.
PassesSettle == <>[](\A t \in Tasks : ~Active(t))

\* A topic refresh that no other overlaps leaves at most one generation of
\* snapshots, whatever overlapping ones have left behind.
SoloRefreshHeals ==
  [][\A t \in Tasks :
       pc[t] = "publish" /\ pc'[t] = "ended" /\ ~overlap[t] =>
         result'[t].outcome = "died" \/ Cardinality(topics') <= 1]_vars

\* Once every enrichment has ended without dying, some generation counts all
\* the results there are: whoever commits last has yet to read all of them.
TopicsCatchUp ==
  kind = "nlp" /\ Derived # {} /\ (\A t \in Tasks : ~Active(t))
  /\ (\A t \in Tasks : result[t].outcome # "died")
    => \E g \in topics : g.upto = Derived
=============================================================================
