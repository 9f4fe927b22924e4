------------------------- MODULE MCAviationPipeline -------------------------
(***************************************************************************)
(* Instances of AviationPipeline for TLC.                                  *)
(***************************************************************************)
EXTENDS AviationPipeline, TLC

Core(id, slug, name, hubs) ==
  [id |-> id, slug |-> slug, name |-> name, active |-> TRUE, hubs |-> hubs]

Jobs(s, r, b) == (SyncJob :> s) @@ (Refresh :> r) @@ (Boot :> b)

\* Two feed entries with one code; a core airline with a slug of its own.
Twins ==
  [feed |-> <<[slug |-> "tam", code |-> "LA"], [slug |-> "latam", code |-> "LA"]>>,
   airports |-> {"GRU"}, cores |-> <<Core("1", "latam-airlines", "latam", {"GRU"})>>,
   pages |-> <<>>, places |-> <<[iata |-> "GRU"]>>, rows |-> None, others |-> {},
   similar |-> {}, longer |-> {<<"latam", "tam">>},
   propagation |-> TRUE, losses |-> {"worker", "expiry"}, jobs |-> Jobs(2, 0, 0)]

\* A row that only its normalised name identifies; a disagreeing page; rows
\* that other jobs insert.
Disputed ==
  [Twins EXCEPT
     !.feed = <<[slug |-> "azul", code |-> "AD"], [slug |-> "gol", code |-> Nothing]>>,
     !.cores = <<Core("1", "azul-air", "azul", {"GRU"}), Core("2", "gol", "gol", {})>>,
     !.pages = <<[slug |-> "gol", country |-> Nothing, hubs |-> {"GRU"}, alliance |-> TRUE]>>,
     !.rows = "ad" :> NewRow("ad", Nothing, "azul", Nothing, "page", {}),
     !.losses = {}, !.jobs = Jobs(1, 0, 1)]

\* The two pipelines insert the same airline: the lock of one is deleted when
\* the other is accepted.
Rivals ==
  [Disputed EXCEPT
     !.feed = <<[slug |-> "gol", code |-> "G3"]>>,
     !.cores = <<Core("2", "gol", "gol", {})>>, !.airports = {}, !.places = <<>>,
     !.rows = None, !.others = {Alliance}, !.propagation = FALSE,
     !.losses = {"accept"}, !.jobs = Jobs(1, 1, 0)]

\* The two pipelines exclude each other.
Locks == [Rivals EXCEPT !.losses = {}, !.jobs = Jobs(2, 1, 0)]

\* The worker of a run dies, and everybody deletes its lock.
Watched ==
  [Locks EXCEPT !.feed = <<>>, !.cores = <<>>, !.pages = <<>>,
                !.losses = {"worker"} \cup Causes, !.jobs = Jobs(1, 0, 0)]

\* A crawl of a new airline, and of one under a longer name, amid two
\* refreshes.
Again ==
  [Rivals EXCEPT
     !.feed = <<[slug |-> "azul", code |-> "AD"], [slug |-> "tam", code |-> "JJ"],
                [slug |-> "gol", code |-> "G3"]>>,
     !.pages = <<[slug |-> "gol", country |-> Nothing, hubs |-> {}, alliance |-> FALSE],
                 [slug |-> "azul-air", country |-> Nothing, hubs |-> {"GRU"},
                  alliance |-> FALSE]>>,
     !.rows = "azul-air" :> NewRow("azul-air", Nothing, "azul", Nothing, "page", {}),
     !.cores = <<Core("3", "tam", "tam", {})>>,
     !.losses = {}, !.jobs = Jobs(0, 2, 1)]

SmallWorlds == {Twins, Disputed, Rivals, Locks, Watched, Again}

=============================================================================
