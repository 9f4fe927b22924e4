-------------------------- MODULE ReviewPersistence --------------------------
(***************************************************************************)
(* PostgresPersistencePipeline (scraper/pipelines/scrapy_pipeline.py): how *)
(* the spiders of concurrent crawls (the refresh pipeline's, the scheduled *)
(* ones) store reviews in batches, each in one SQLAlchemy session that is  *)
(* committed every BatchSize writes and rolled back when a duplicate slips *)
(* past the lookup.                                                        *)
(*                                                                         *)
(* Postgres at READ COMMITTED: a transaction sees committed rows and its   *)
(* own; inserting a key another open transaction has inserted, or updating *)
(* a row another one has updated, waits for that transaction's end; a      *)
(* cycle of waits is broken by an error in one of its members.  An error   *)
(* in flush leaves the session unusable until session.rollback(), which    *)
(* only _insert_review calls, and only after an IntegrityError.            *)
(*                                                                         *)
(* All reviews belong to one airline, whose row is created or updated by   *)
(* the same sessions.                                                      *)
(***************************************************************************)
EXTENDS Naturals, FiniteSets

CONSTANTS
  Spiders,    \* crawls, each with its pipeline and session
  Reviews,    \* fingerprints
  Oversized,  \* reviews with a value its column cannot hold
  Airline,    \* the unique slug of the airline
  Touch,      \* the row lock of an UPDATE of the airline
  BatchSize,  \* SCRAPY_DB_BATCH_SIZE
  MaxItems    \* bound: items a spider yields

ASSUME KeysAssumption ==
  Oversized \subseteq Reviews /\ Airline \notin Reviews /\ Touch \notin Reviews
ASSUME BatchAssumption == BatchSize \in Nat \ {0} /\ MaxItems \in Nat

VARIABLES
  table,     \* committed fingerprints, and Airline once its row exists
  txn,       \* keys a session's open transaction holds exclusively
  pending,   \* pending_writes
  inserted,  \* inserted_reviews
  dirty,     \* the session's Airline object has unflushed changes
  poisoned,  \* the session refuses every statement
  pc,        \* control point of every pipeline
  item,      \* the item being processed
  seen,      \* items a spider has yielded
  stored,    \* history: reviews a spider has committed
  lost       \* history: counted reviews that were rolled back

sessionVars == <<txn, pending, inserted, dirty, poisoned>>
vars == <<table, sessionVars, pc, item, seen, stored, lost>>

Keys == Reviews \cup {Airline, Touch}
PipelineStates ==
  {"ready", "airline", "touch", "review", "commit", "closing", "closed"}

Rows(s) == txn[s] \cap Reviews
Visible(s) == table \cup txn[s]
Open(s) == pc[s] # "closed"

\* open_spider; scripts/seed_airlines.py may have created the airline.
Init ==
  /\ table \in {{}, {Airline}}
  /\ txn = [s \in Spiders |-> {}]
  /\ pending = [s \in Spiders |-> 0]
  /\ inserted = [s \in Spiders |-> 0]
  /\ dirty = [s \in Spiders |-> FALSE]
  /\ poisoned = [s \in Spiders |-> FALSE]
  /\ pc = [s \in Spiders |-> "ready"]
  /\ item = [s \in Spiders |-> Airline]
  /\ seen = [s \in Spiders |-> 0]
  /\ stored = [s \in Spiders |-> {}]
  /\ lost = [s \in Spiders |-> 0]

-----------------------------------------------------------------------------
(* Postgres. *)

\* The key the statement a session executes next must own.
Wants(s) ==
  CASE pc[s] = "airline" -> {Airline}
    [] pc[s] = "review" -> {item[s]} \ Oversized
    [] pc[s] \in {"touch", "commit", "closing"} /\ dirty[s] -> {Touch}
    [] OTHER -> {}

WaitsFor(s, t) == s # t /\ Wants(s) \cap txn[t] # {}

Granted(s) == \A t \in Spiders : ~WaitsFor(s, t)

Deadlocked(s) ==
  \E cycle \in SUBSET Spiders :
    /\ s \in cycle
    /\ \A x \in cycle : /\ \E y \in cycle : WaitsFor(x, y)
                        /\ \E y \in cycle : WaitsFor(y, x)

\* The transaction is gone, with the counted reviews in it.
Rollback(s) ==
  /\ txn' = [txn EXCEPT ![s] = {}]
  /\ lost' = [lost EXCEPT ![s] = @ + Cardinality(Rows(s))]
  /\ dirty' = [dirty EXCEPT ![s] = FALSE]

\* An exception nobody catches inside the pipeline: Scrapy drops the item, the
\* session stays as the failed flush left it.
Raises(s) ==
  /\ Rollback(s)
  /\ poisoned' = [poisoned EXCEPT ![s] = TRUE]
  /\ pc' = [pc EXCEPT ![s] = IF @ = "closing" THEN "closed" ELSE "ready"]
  /\ UNCHANGED <<table, pending, inserted, item, seen, stored>>

-----------------------------------------------------------------------------
(* process_item. *)

\* Mutation: the batch counter is reset although nothing was committed.
MarkWriteForgets(s) ==
  LET full == pending[s] + 1 >= BatchSize
  IN  /\ pending' = [pending EXCEPT ![s] = IF full THEN 0 ELSE @ + 1]
      /\ pc' = [pc EXCEPT ![s] = "ready"]

\* _mark_write.
MarkWrite(s) ==
  /\ pending' = [pending EXCEPT ![s] = @ + 1]
  /\ pc' = [pc EXCEPT ![s] =
              IF pending[s] + 1 >= BatchSize THEN "commit" ELSE "ready"]

\* The lookups of _upsert_airline and _insert_review on a dead session raise.
ProcessRefused(s) ==
  /\ pc[s] = "ready"
  /\ poisoned[s]
  /\ seen[s] < MaxItems
  /\ seen' = [seen EXCEPT ![s] = @ + 1]
  /\ UNCHANGED <<table, sessionVars, pc, item, stored, lost>>

\* _upsert_airline up to its flush; the item may change the row or not.
ProcessAirline(s) ==
  /\ pc[s] = "ready"
  /\ ~poisoned[s]
  /\ seen[s] < MaxItems
  /\ seen' = [seen EXCEPT ![s] = @ + 1]
  /\ item' = [item EXCEPT ![s] = Airline]
  /\ \/ /\ Airline \notin Visible(s)
        /\ pc' = [pc EXCEPT ![s] = "airline"]
        /\ UNCHANGED dirty
     \/ /\ Airline \in Visible(s)
        /\ pc' = [pc EXCEPT ![s] = "touch"]
        /\ \E changed \in BOOLEAN : dirty' = [dirty EXCEPT ![s] = @ \/ changed]
  /\ UNCHANGED <<table, txn, pending, inserted, poisoned, stored, lost>>

\* _insert_review up to its first flush: a known fingerprint is skipped.
ProcessReview(s, r) ==
  /\ pc[s] = "ready"
  /\ ~poisoned[s]
  /\ seen[s] < MaxItems
  /\ seen' = [seen EXCEPT ![s] = @ + 1]
  /\ \/ /\ r \in Visible(s)
        /\ UNCHANGED <<pc, item>>
     \/ /\ r \notin Visible(s)
        /\ item' = [item EXCEPT ![s] = r]
        /\ pc' = [pc EXCEPT ![s] =
                    IF Airline \in Visible(s) THEN "touch" ELSE "airline"]
  /\ UNCHANGED <<table, sessionVars, stored, lost>>

\* The INSERT of the airline by _upsert_airline or _get_or_create_airline.
FlushAirline(s) ==
  /\ pc[s] = "airline"
  /\ Granted(s)
  /\ \/ /\ Airline \in table
        /\ Raises(s)
     \/ /\ Airline \notin table
        /\ txn' = [txn EXCEPT ![s] = @ \cup {Airline}]
        /\ \/ /\ item[s] = Airline
              /\ MarkWrite(s)
           \/ /\ item[s] # Airline
              /\ pc' = [pc EXCEPT ![s] = "review"]
              /\ UNCHANGED pending
        /\ UNCHANGED <<table, inserted, dirty, poisoned, item, seen, stored, lost>>

\* The UPDATE of a changed airline, which a flush emits before the INSERT.
FlushTouch(s) ==
  /\ pc[s] = "touch"
  /\ Granted(s)
  /\ txn' = [txn EXCEPT ![s] = IF dirty[s] THEN @ \cup {Touch} ELSE @]
  /\ dirty' = [dirty EXCEPT ![s] = FALSE]
  /\ \/ /\ item[s] = Airline
        /\ MarkWrite(s)
     \/ /\ item[s] # Airline
        /\ pc' = [pc EXCEPT ![s] = "review"]
        /\ UNCHANGED pending
  /\ UNCHANGED <<table, inserted, poisoned, item, seen, stored, lost>>

\* Mutation: the counter goes up before the flush can fail.
FlushReviewCountsFirst(s) ==
  /\ pc[s] = "review"
  /\ Granted(s)
  /\ inserted' = [inserted EXCEPT ![s] = @ + 1]
  /\ \/ /\ item[s] \in table
        /\ Rollback(s)
        /\ pc' = [pc EXCEPT ![s] = "ready"]
        /\ UNCHANGED <<pending, poisoned>>
     \/ /\ item[s] \notin table \cup Oversized
        /\ txn' = [txn EXCEPT ![s] = @ \cup {item[s]}]
        /\ dirty' = [dirty EXCEPT ![s] = TRUE]
        /\ MarkWrite(s)
        /\ UNCHANGED <<poisoned, lost>>
  /\ UNCHANGED <<table, item, seen, stored>>

\* The INSERT of the review: a DataError is raised on; an IntegrityError
\* rolls the whole transaction back; otherwise last_scraped_at is set.
FlushReview(s) ==
  /\ pc[s] = "review"
  /\ Granted(s)
  /\ \/ /\ item[s] \in Oversized
        /\ Raises(s)
     \/ /\ item[s] \in table \ Oversized
        /\ Rollback(s)
        /\ pc' = [pc EXCEPT ![s] = "ready"]
        /\ UNCHANGED <<table, pending, inserted, poisoned, item, seen, stored>>
     \/ /\ item[s] \notin table \cup Oversized
        /\ txn' = [txn EXCEPT ![s] = @ \cup {item[s]}]
        /\ inserted' = [inserted EXCEPT ![s] = @ + 1]
        /\ dirty' = [dirty EXCEPT ![s] = TRUE]
        /\ MarkWrite(s)
        /\ UNCHANGED <<table, poisoned, item, seen, stored, lost>>

\* session.commit() of a full batch or of close_spider: a pending UPDATE of
\* the airline goes first.  A dead session raises PendingRollbackError.
Commit(s) ==
  /\ pc[s] \in {"commit", "closing"}
  /\ Granted(s)
  /\ \/ /\ poisoned[s]
        /\ Raises(s)
     \/ /\ ~poisoned[s]
        /\ table' = table \cup (txn[s] \ {Touch})
        /\ stored' = [stored EXCEPT ![s] = @ \cup Rows(s)]
        /\ txn' = [txn EXCEPT ![s] = {}]
        /\ dirty' = [dirty EXCEPT ![s] = FALSE]
        /\ pending' = [pending EXCEPT ![s] = 0]
        /\ pc' = [pc EXCEPT ![s] = IF @ = "closing" THEN "closed" ELSE "ready"]
        /\ UNCHANGED <<inserted, poisoned, item, seen, lost>>

\* Postgres picks a member of a cycle: OperationalError, which nobody catches.
AbortVictim(s) == Deadlocked(s) /\ Raises(s)

-----------------------------------------------------------------------------
\* Mutation: an idle connection keeps its transaction.
CloseKeepsTransaction(s) ==
  /\ pc[s] = "ready"
  /\ pc' = [pc EXCEPT ![s] = "closed"]
  /\ UNCHANGED <<table, sessionVars, item, seen, stored, lost>>

\* close_spider: nothing pending, nothing to commit; session.close().
Close(s) ==
  /\ pc[s] = "ready"
  /\ \/ /\ pending[s] > 0
        /\ pc' = [pc EXCEPT ![s] = "closing"]
        /\ UNCHANGED <<txn, dirty, lost>>
     \/ /\ pending[s] = 0
        /\ Rollback(s)
        /\ pc' = [pc EXCEPT ![s] = "closed"]
  /\ UNCHANGED <<table, pending, inserted, poisoned, item, seen, stored>>

\* The governor's SIGKILL, or the container's end.
Kill(s) ==
  /\ Open(s)
  /\ Rollback(s)
  /\ pc' = [pc EXCEPT ![s] = "closed"]
  /\ UNCHANGED <<table, pending, inserted, poisoned, item, seen, stored>>

Flush(s) == FlushAirline(s) \/ FlushTouch(s) \/ FlushReview(s) \/ Commit(s)

Process(s) ==
  \/ ProcessRefused(s)
  \/ ProcessAirline(s)
  \/ \E r \in Reviews : ProcessReview(s, r)

Next == \E s \in Spiders :
  Process(s) \/ Flush(s) \/ AbortVictim(s) \/ Close(s) \/ Kill(s)

Spec == Init /\ [][Next]_vars

\* A spider runs out of pages; Postgres executes statements and finds
\* deadlocks (deadlock_timeout).
FairSpec ==
  /\ Spec
  /\ \A s \in Spiders :
       WF_vars(Flush(s)) /\ WF_vars(AbortVictim(s)) /\ WF_vars(Process(s) \/ Close(s))

-----------------------------------------------------------------------------
(* Correctness. *)

\* Every variable keeps its type (the attributes of open_spider).
TypeOK ==
  /\ table \subseteq Reviews \cup {Airline}
  /\ txn \in [Spiders -> SUBSET Keys]
  /\ pending \in [Spiders -> 0 .. BatchSize]
  /\ inserted \in [Spiders -> 0 .. MaxItems]
  /\ dirty \in [Spiders -> BOOLEAN]
  /\ poisoned \in [Spiders -> BOOLEAN]
  /\ pc \in [Spiders -> PipelineStates]
  /\ item \in [Spiders -> Reviews \cup {Airline}]
  /\ seen \in [Spiders -> 0 .. MaxItems]
  /\ stored \in [Spiders -> SUBSET Reviews]
  /\ lost \in [Spiders -> 0 .. MaxItems]

\* What a crash can cost is bounded by the batch, and close_spider's "nothing
\* pending" never hides an uncommitted review.
LossBounded ==
  \A s \in Spiders :
    /\ Cardinality(Rows(s)) <= pending[s]
    /\ pc[s] = "ready" => pending[s] < BatchSize \/ Rows(s) = {}

\* inserted_reviews, which telemetry shows while the crawl runs, is what was
\* committed, what still can be, and what a rollback took, no more or less.
CountsReconcile ==
  \A s \in Spiders :
    inserted[s] = Cardinality(stored[s]) + Cardinality(Rows(s)) + lost[s]

\* Crawls that wait for each other's uncommitted rows all come to an end.
EveryCrawlCloses == \A s \in Spiders : <>(pc[s] = "closed")

=============================================================================
