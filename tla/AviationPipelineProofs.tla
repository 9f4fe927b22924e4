---------------------- MODULE AviationPipelineProofs ----------------------
(***************************************************************************)
(* Proofs about AviationPipeline, for any airlines, sources and bounds:    *)
(* what the lock of the two pipelines guarantees, what a run that says     *)
(* "completed" has done, and what a transaction that commits has done to   *)
(* the airline table: it has filled gaps only, counted what it inserts and *)
(* covered the core airlines.                                              *)
(*                                                                         *)
(* The first part (PipelineInv) needs no more of a transaction than that   *)
(* it is over when its part is.  The second (SyncInv) follows each session *)
(* through its plan: what it sees, what its objects hold and what its next *)
(* flush writes are three functions that the lemmas on Over and ++ relate. *)
(***************************************************************************)
EXTENDS AviationPipeline, FiniteSetTheorems, SequenceTheorems, WellFoundedInduction,
        TLAPS

\* The two jobs that take the lock.
Pipelines == {SyncJob, Refresh}

\* Two names are of at most two things.
LEMMA AtMostTwo == \A a, b : Cardinality({a, b}) <= 2
<1> SUFFICES ASSUME NEW a, NEW b PROVE Cardinality({a, b}) <= 2
  OBVIOUS
<1>1. IsFiniteSet({a}) /\ Cardinality({a}) = 1
  BY FS_Singleton
<1>2. {a, b} = {a} \cup {b}
  OBVIOUS
<1>3. Cardinality({a} \cup {b}) = IF b \in {a} THEN Cardinality({a}) ELSE Cardinality({a}) + 1
  BY <1>1, FS_AddElement
<1> QED BY <1>1, <1>2, <1>3

\* The three processes are three.
LEMMA Distinct ==
  /\ Procs = {SyncJob, Refresh, Boot}
  /\ SyncJob # Refresh /\ SyncJob # Boot /\ Refresh # Boot
  /\ Nothing \notin Procs /\ Pipelines \subseteq Procs
<1>1. Procs = {SyncJob, Refresh, Boot} /\ Cardinality(Procs) = 3 /\ Nothing \notin Procs
  BY ThreeJobs
<1>2. ASSUME SyncJob = Refresh \/ SyncJob = Boot \/ Refresh = Boot PROVE FALSE
  <2>1. PICK a, b \in Procs : Procs = {a, b}
    BY <1>1, <1>2
  <2>2. Cardinality(Procs) <= 2
    BY <2>1, AtMostTwo
  <2> QED BY <1>1, <2>2
<1> QED BY <1>1, <1>2 DEF Pipelines

-----------------------------------------------------------------------------
(* The invariant.                                                          *)

\* As long as no one running has lost it, a pipeline that runs has the lock.
LockKept == lost = {} => \A p \in Pipelines : job[p] # "idle" => lock = p

Ahead(s) == \E i \in 1 .. Len(todo[SyncJob]) : todo[SyncJob][i] = s
Accounted(s) == s \in stored \/ (s \in DOMAIN results /\ results[s] \in {"error", "drift"})

\* A stage that a run has passed has committed, or has a result that says
\* that it did not.
RunAccounted ==
  Running(SyncJob) => \A s \in {"master", "metadata"} : Ahead(s) \/ Accounted(s)

TodoType == DOMAIN todo = Procs /\ todo[SyncJob] \in Seq(Stages)

\* A transaction of the run belongs to a part that is still ahead.
UnderWay ==
  /\ DOMAIN plan = Procs /\ DOMAIN outcome = Procs
  /\ plan[SyncJob] # <<>> => outcome[SyncJob] = "running"
  /\ outcome[SyncJob] # "none" => Running(SyncJob) /\ todo[SyncJob] # <<>>

PipelineInv == TypeOK /\ TodoType /\ UnderWay /\ LockKept /\ RunAccounted /\ CompletedIsTold

-----------------------------------------------------------------------------
(* Who runs, and who holds the lock.                                       *)

\* What the steps of others than the jobs leave alone, and what they may write.
LEMMA OthersLeave ==
  ASSUME Expires \/ Judge \/ WriteBack \/ CleanUp \/ Accepts \/ Resets
  PROVE  /\ UNCHANGED <<svars, job, todo, left, results, errors, stored>>
         /\ UNCHANGED <<lock, lost>> \/ \E cause \in Causes : Removed(cause)
         /\ blob' = blob \/ blob'.status # "completed"
<1>1. CASE Expires
  BY <1>1 DEF Expires, Causes
<1>2. CASE Judge
  BY <1>2 DEF Judge
<1>3. CASE WriteBack
  BY <1>3 DEF WriteBack
<1>4. CASE CleanUp
  BY <1>4 DEF CleanUp, Causes
<1>5. CASE Accepts
  BY <1>5 DEF Accepts, Causes, Status
<1>6. CASE Resets
  BY <1>6 DEF Resets, Causes, Status
<1> QED BY <1>1, <1>2, <1>3, <1>4, <1>5, <1>6

\* The lock, and who took it, have their types.
Held == lock \in {Nothing, SyncJob, Refresh} /\ lost \subseteq Causes

LEMMA LockKeptStep == PipelineInv /\ [Next]_vars => LockKept' /\ Held'
<1> SUFFICES ASSUME TypeOK, LockKept, [Next]_vars PROVE LockKept' /\ Held'
  BY DEF PipelineInv
<1> USE Distinct
<1>0. /\ lock \in {Nothing, SyncJob, Refresh} /\ lost \subseteq Causes
      /\ job \in [Procs -> {"idle", "running", "failing"}]
  BY DEF TypeOK
<1>1. CASE UNCHANGED <<lock, job, lost>>
  BY <1>0, <1>1 DEF LockKept, Held
<1>2. ASSUME NEW p \in Pipelines, job[p] = "idle", Lock(p), lost' = lost,
             job' = job \/ job' = [job EXCEPT ![p] = "running"]
      PROVE  LockKept' /\ Held'
  BY <1>0, <1>2 DEF Lock, LockKept, Pipelines, Held
<1>3. ASSUME NEW p \in Pipelines, job[p] # "idle", job' = [job EXCEPT ![p] = "idle"], Unlock(p)
      PROVE  LockKept' /\ Held'
  BY <1>0, <1>3 DEF Unlock, StillLost, LockKept, Pipelines, Held
<1>4. CASE StartSync
  BY <1>2, <1>4 DEF StartSync, Takes, Pipelines
<1>5. CASE StartRaises
  BY <1>2, <1>5 DEF StartRaises, Pipelines
<1>6. CASE StartRefresh
  BY <1>2, <1>6 DEF StartRefresh, Takes, Pipelines
<1>7. CASE StartBoot
  BY <1>0, <1>7 DEF StartBoot, Takes, LockKept, Pipelines, Held
<1>8. CASE Skip \/ StageEnds \/ StageWithout
  BY <1>1, <1>8 DEF Skip, StageEnds, StageWithout
<1>9. CASE Breaks
  BY <1>0, <1>9 DEF Breaks, Running, LockKept, Pipelines, Held
<1>10. CASE Completes
  BY <1>3, <1>10 DEF Completes, Running, Unlock, Pipelines
<1>11. CASE Fails
  BY <1>3, <1>11 DEF Fails, Unlock, Pipelines
<1>12. CASE RefreshEnds
  BY <1>3, <1>12 DEF RefreshEnds, Running, Unlock, Pipelines
<1>13. CASE BootEnds
  BY <1>0, <1>13 DEF BootEnds, LockKept, Pipelines, Held
<1>14. CASE Expires \/ Judge \/ WriteBack \/ CleanUp \/ Accepts \/ Resets
  <2>1. job' = job /\ (UNCHANGED <<lock, lost>> \/ \E cause \in Causes : Removed(cause))
    BY <1>14, OthersLeave
  <2>2. ASSUME NEW cause \in Causes, Removed(cause) PROVE LockKept' /\ Held'
    BY <1>0, <2>1, <2>2 DEF Removed, LockKept, Pipelines, Held
  <2> QED BY <1>1, <2>1, <2>2
<1>15. ASSUME NEW p \in Procs, Crash(p) PROVE LockKept' /\ Held'
  BY <1>0, <1>15 DEF Crash, StillLost, LockKept, Pipelines, Held
<1>16. ASSUME NEW p \in Procs, Part(p) \/ PartEnds(p) \/ (Step(p) /\ UNCHANGED pvars)
       PROVE  UNCHANGED <<lock, job, lost>>
  BY <1>16 DEF Part, PartEnds, pvars
<1>17. CASE UNCHANGED vars
  BY <1>1, <1>17 DEF vars, pvars
<1> QED BY <1>0, <1>1, <1>4, <1>5, <1>6, <1>7, <1>8, <1>9, <1>10, <1>11, <1>12, <1>13, <1>14,
           <1>15, <1>16, <1>17 DEF Next

-----------------------------------------------------------------------------
(* What a run knows of its stages.                                         *)

\* The result of a stage leaves those of the others alone.
LEMMA OneResult ==
  ASSUME NEW stage \in Stages, NEW r, Result(stage, r), DOMAIN results \subseteq Stages
  PROVE  /\ DOMAIN results' \subseteq Stages
         /\ stage \in DOMAIN results' /\ results'[stage] = r
         /\ \A s \in DOMAIN results : s # stage =>
              s \in DOMAIN results' /\ results'[s] = results[s]
  BY DEF Result

\* A part that is over is not ahead any more, but the others are.
LEMMA TailAhead ==
  ASSUME NEW parts \in Seq(Stages), parts # <<>>
  PROVE  /\ Head(parts) \in Stages /\ Tail(parts) \in Seq(Stages)
         /\ \A s : (\E i \in 1 .. Len(parts) : parts[i] = s)
                   => s = Head(parts) \/ \E i \in 1 .. Len(Tail(parts)) : Tail(parts)[i] = s
<1>1. /\ Head(parts) = parts[1] /\ Len(Tail(parts)) = Len(parts) - 1 /\ Len(parts) \in Nat
      /\ \A i \in 1 .. Len(Tail(parts)) : Tail(parts)[i] = parts[i + 1]
      /\ Head(parts) \in Stages /\ Tail(parts) \in Seq(Stages)
  OBVIOUS
<1>2. ASSUME NEW s, NEW i \in 1 .. Len(parts), parts[i] = s, s # Head(parts)
      PROVE  \E j \in 1 .. Len(Tail(parts)) : Tail(parts)[j] = s
  <2>1. i - 1 \in 1 .. Len(Tail(parts)) /\ (i - 1) + 1 = i
    BY <1>1, <1>2
  <2> QED BY <1>1, <1>2, <2>1
<1> QED BY <1>1, <1>2

\* A stage that is over moves out of todo, and leaves a result if it has not
\* committed.
LEMMA StageOver ==
  ASSUME PipelineInv, Running(SyncJob), todo[SyncJob] # <<>>, job' = job,
         stored \subseteq stored', stored' \subseteq Stages,
         todo' = [todo EXCEPT ![SyncJob] = Tail(@)],
         NEW r, Result(Head(todo[SyncJob]), r),
         Head(todo[SyncJob]) \in {"master", "metadata"}
           => r \in {"error", "drift"} \/ Head(todo[SyncJob]) \in stored'
  PROVE  RunAccounted' /\ TodoType' /\ DOMAIN results' \cup stored' \subseteq Stages
<1> DEFINE parts == todo[SyncJob]
           stage == Head(parts)
<1>1. /\ parts \in Seq(Stages) /\ todo' = [todo EXCEPT ![SyncJob] = Tail(parts)]
      /\ DOMAIN todo = Procs /\ SyncJob \in Procs /\ DOMAIN results \subseteq Stages
  BY Distinct DEF PipelineInv, TodoType, TypeOK
<1>2. stage \in Stages /\ Tail(parts) \in Seq(Stages)
  BY <1>1, TailAhead
<1>3. todo'[SyncJob] = Tail(parts) /\ DOMAIN todo' = Procs
  BY <1>1
<1>4. /\ DOMAIN results' \subseteq Stages
      /\ stage \in DOMAIN results' /\ results'[stage] = r
      /\ \A s \in DOMAIN results : s # stage => s \in DOMAIN results' /\ results'[s] = results[s]
  BY <1>1, <1>2, OneResult
<1>5. ASSUME NEW s \in {"master", "metadata"} PROVE Ahead(s)' \/ Accounted(s)'
  <2>1. Ahead(s) \/ Accounted(s)
    BY DEF PipelineInv, RunAccounted
  <2>2. CASE s = stage
    BY <1>4, <2>2 DEF Accounted
  <2>3. CASE s # stage /\ Accounted(s)
    BY <1>4, <2>3 DEF Accounted
  <2>4. CASE s # stage /\ Ahead(s)
    <3>1. \E i \in 1 .. Len(Tail(parts)) : Tail(parts)[i] = s
      BY <1>1, <2>4, TailAhead DEF Ahead
    <3> QED BY <1>3, <3>1 DEF Ahead
  <2> QED BY <2>1, <2>2, <2>3, <2>4
<1> QED BY <1>2, <1>3, <1>4, <1>5 DEF RunAccounted, TodoType

\* What keeps the invariant of a step that does not touch the stages.
LEMMA StagesRest ==
  ASSUME PipelineInv, UNCHANGED <<results, stored>>, errors' \subseteq errors \cup {"pipeline"},
         todo'[SyncJob] = todo[SyncJob], DOMAIN todo' = Procs,
         Running(SyncJob)' => Running(SyncJob),
         blob' = blob \/ blob'.op # SyncJob \/ blob'.status # "completed"
  PROVE  RunAccounted' /\ TodoType' /\ CompletedIsTold'
         /\ DOMAIN results' \cup stored' \subseteq Stages
         /\ errors' \subseteq Stages \cup {"pipeline"}
  BY DEF PipelineInv, TypeOK, TodoType, RunAccounted, Ahead, Accounted, CompletedIsTold

\* A run that completes has accounted for both stages, and tells.
LEMMA CompletesTells == PipelineInv /\ Completes => CompletedIsTold'
<1> SUFFICES ASSUME PipelineInv, Completes, blob'.status = "completed",
                    NEW s \in {"master", "metadata"}
             PROVE  s \in stored' \cup blob'.failed \/ results'[s] = "reconciled"
  BY DEF CompletedIsTold
<1>1. /\ stored' = stored
      /\ blob'.failed = errors' \cup {x \in DOMAIN results' : results'[x] \in {"error", "drift"}}
  BY DEF Completes, Status, Failed
<1>2. Accounted(s)
  <2>1. Running(SyncJob) /\ todo[SyncJob] = <<>>
    BY DEF Completes
  <2>2. ~Ahead(s)
    BY <2>1 DEF Ahead
  <2> QED BY <2>1, <2>2 DEF PipelineInv, RunAccounted
<1>3. CASE UNCHANGED results
  BY <1>1, <1>2, <1>3 DEF Accounted
<1>4. CASE "master" \in DOMAIN results /\ results' = [results EXCEPT !["master"] = "reconciled"]
  BY <1>1, <1>2, <1>4 DEF Accounted
<1> QED BY <1>3, <1>4 DEF Completes, Reconciled

-----------------------------------------------------------------------------
(* What the steps of a transaction leave to the job that runs it.          *)

LEMMA StepOfPlan ==
  ASSUME NEW p \in Procs, Step(p), DOMAIN plan = Procs, DOMAIN outcome = Procs
  PROVE  /\ plan[p] # <<>>
         /\ DOMAIN plan' = Procs /\ DOMAIN outcome' = Procs
         /\ \A q \in Procs : q # p => plan'[q] = plan[q] /\ outcome'[q] = outcome[q]
         /\ plan'[p] # <<>> => outcome'[p] = outcome[p]
<1>1. ASSUME plan[p] # <<>>, NEW what, Leave(p, what)
      PROVE  /\ DOMAIN plan' = Procs /\ DOMAIN outcome' = Procs
             /\ \A q \in Procs : q # p => plan'[q] = plan[q] /\ outcome'[q] = outcome[q]
             /\ plan'[p] # <<>> => outcome'[p] = outcome[p]
  BY <1>1 DEF Leave
<1>2. ASSUME NEW steps, plan' = [plan EXCEPT ![p] = steps] \/ plan' = plan, outcome' = outcome
      PROVE  /\ DOMAIN plan' = Procs /\ DOMAIN outcome' = Procs
             /\ \A q \in Procs : q # p => plan'[q] = plan[q] /\ outcome'[q] = outcome[q]
             /\ plan'[p] # <<>> => outcome'[p] = outcome[p]
  BY <1>2
<1>3. CASE Drift(p) \/ Clash(p) \/ ClashAgain(p) \/ BreakCrawl(p) \/ Fail(p)
  BY <1>1, <1>3 DEF Drift, Clash, ClashAgain, BreakCrawl, Fail, At
<1>4. CASE Seed(p) \/ Load(p) \/ Airports(p) \/ Link(p) \/ Sync(p) \/ SkipSync(p)
           \/ Pairs(p) \/ Item(p) \/ Flush(p) \/ DropCrawl(p)
  <2>1. plan[p] # <<>> /\ Advance(p) /\ outcome' = outcome
    BY <1>4 DEF Seed, Load, Airports, Link, Sync, SkipSync, Pairs, Item, Flush, DropCrawl,
                At, NoWrite
  <2> QED BY <1>2, <2>1 DEF Advance
<1>5. CASE Preflight(p)
  BY <1>2, <1>5 DEF Preflight, At, Advance, NoWrite
<1>6. CASE Resolve(p) \/ Backfill(p)
  <2>1. plan[p] # <<>> /\ (Advance(p) \/ plan' = plan) /\ outcome' = outcome
    BY <1>6 DEF Resolve, Backfill, Turn, At, NoWrite
  <2> QED BY <1>2, <2>1 DEF Advance
<1>7. CASE Recover(p)
  BY <1>2, <1>7 DEF Recover, At, NoWrite
<1>8. CASE Commit(p)
  BY <1>8 DEF Commit, At
<1> QED BY <1>3, <1>4, <1>5, <1>6, <1>7, <1>8 DEF Step

\* The invariant holds in the beginning ...
LEMMA PipelineInit == Init => PipelineInv
<1> SUFFICES ASSUME Init PROVE PipelineInv
  OBVIOUS
<1>1. DOMAIN results = {}
  BY DEF Init, None
<1>2. TypeOK
  BY <1>1 DEF Init, TypeOK
<1>3. TodoType /\ UnderWay /\ LockKept /\ RunAccounted /\ CompletedIsTold
  BY Distinct DEF Init, SyncInit, TodoType, UnderWay, LockKept, RunAccounted, Running,
    CompletedIsTold, Status, Pipelines
<1> QED BY <1>2, <1>3 DEF PipelineInv

\* ... and is kept by every step.
LEMMA PipelineStep == PipelineInv /\ [Next]_vars => PipelineInv'
<1> SUFFICES ASSUME PipelineInv, [Next]_vars PROVE PipelineInv'
  OBVIOUS
<1> DEFINE Goal == /\ RunAccounted' /\ TodoType' /\ UnderWay' /\ CompletedIsTold'
                   /\ DOMAIN results' \cup stored' \subseteq Stages
                   /\ errors' \subseteq Stages \cup {"pipeline"}
                   /\ job' \in [Procs -> {"idle", "running", "failing"}]
<1> USE Distinct
<1>0. /\ job \in [Procs -> {"idle", "running", "failing"}]
      /\ DOMAIN results \cup stored \subseteq Stages
      /\ errors \subseteq Stages \cup {"pipeline"}
      /\ DOMAIN todo = Procs /\ todo[SyncJob] \in Seq(Stages)
      /\ DOMAIN plan = Procs /\ DOMAIN outcome = Procs
      /\ plan[SyncJob] # <<>> => outcome[SyncJob] = "running"
      /\ outcome[SyncJob] # "none" => Running(SyncJob) /\ todo[SyncJob] # <<>>
  BY DEF PipelineInv, TypeOK, TodoType, UnderWay
<1>1. LockKept' /\ Held'
  BY LockKeptStep
<1>2. ASSUME Goal PROVE PipelineInv'
  BY <1>1, <1>2 DEF PipelineInv, TypeOK, Held
\* A job that starts or ends, or a worker that dies: no transaction is left.
<1>3. CASE StartSync
  <2>1. /\ todo'[SyncJob] = <<"master", "discovery", "metadata", "hubs">>
        /\ DOMAIN todo' = Procs /\ results' = None /\ errors' = {} /\ stored' = {}
        /\ blob'.status = "running" /\ job[SyncJob] = "idle" /\ UNCHANGED svars
        /\ job' \in [Procs -> {"idle", "running", "failing"}]
    BY <1>0, <1>3 DEF StartSync, Takes, SyncParts, Status
  <2>2. todo'[SyncJob] \in Seq(Stages)
    BY <2>1 DEF Stages
  <2>3. ASSUME NEW s \in {"master", "metadata"} PROVE Ahead(s)'
    <3>1. /\ Len(todo'[SyncJob]) = 4
          /\ todo'[SyncJob][1] = "master" /\ todo'[SyncJob][3] = "metadata"
      BY <2>1
    <3> QED BY <3>1 DEF Ahead
  <2>4. DOMAIN results' = {}
    BY <2>1 DEF None
  <2>5. UnderWay'
    BY <1>0, <2>1 DEF UnderWay, Running, svars
  <2>6. Goal
    BY <2>1, <2>2, <2>3, <2>4, <2>5 DEF RunAccounted, TodoType, CompletedIsTold
  <2> QED BY <1>2, <2>6
<1>4. CASE StartRaises \/ Skip
  <2>1. Goal
    BY <1>0, <1>4, StagesRest DEF StartRaises, Skip, Running, svars, UnderWay
  <2> QED BY <1>2, <2>1
<1>5. CASE StartRefresh
  <2>1. blob'.op = Refresh
    BY <1>5 DEF StartRefresh, Status
  <2>2. Goal
    BY <1>0, <1>5, <2>1, StagesRest DEF StartRefresh, Takes, Running, svars, UnderWay
  <2> QED BY <1>2, <2>2
<1>6. CASE StartBoot
  <2>1. Goal
    BY <1>0, <1>6, StagesRest DEF StartBoot, Takes, Running, svars, UnderWay
  <2> QED BY <1>2, <2>1
\* The parts of a run.
<1>7. CASE StageEnds
  <2> DEFINE stage == Head(todo[SyncJob])
  <2>1. /\ Running(SyncJob) /\ plan[SyncJob] = <<>> /\ todo[SyncJob] # <<>> /\ job' = job
        /\ todo' = [todo EXCEPT ![SyncJob] = Tail(@)] /\ blob'.status = "running"
        /\ plan' = plan /\ outcome' = [outcome EXCEPT ![SyncJob] = "none"]
    BY <1>0, <1>7 DEF StageEnds, PartOver, Progress, Status, Close
  <2>2. stage \in Stages
    BY <1>0, <2>1, TailAhead
  <2>3. stored' = IF outcome[SyncJob] = "ok" THEN stored \cup {stage} ELSE stored
    BY <1>7 DEF StageEnds
  <2>4. PICK r : /\ Result(stage, r)
                 /\ errors' = errors \/ errors' = errors \cup {stage}
                 /\ r \in {"error", "drift"} \/ outcome[SyncJob] = "ok" \/ stage = "discovery"
    BY <1>7 DEF StageEnds, Returned, Raised
  <2>5. /\ stored \subseteq stored' /\ stored' \subseteq Stages
        /\ stage \in {"master", "metadata"} => r \in {"error", "drift"} \/ stage \in stored'
    BY <1>0, <2>2, <2>3, <2>4
  <2>6. RunAccounted' /\ TodoType' /\ DOMAIN results' \cup stored' \subseteq Stages
    BY <2>1, <2>4, <2>5, StageOver
  <2>7. errors' \subseteq Stages \cup {"pipeline"}
    BY <1>0, <2>2, <2>4
  <2>8. UnderWay'
    BY <1>0, <2>1 DEF UnderWay
  <2>9. Goal
    BY <1>0, <2>1, <2>6, <2>7, <2>8 DEF CompletedIsTold
  <2> QED BY <1>2, <2>9
<1>8. CASE StageWithout
  <2> DEFINE stage == Head(todo[SyncJob])
  <2>1. /\ Running(SyncJob) /\ Resting(SyncJob) /\ todo[SyncJob] # <<>> /\ job' = job
        /\ todo' = [todo EXCEPT ![SyncJob] = Tail(@)] /\ blob'.status = "running"
        /\ stored' = stored /\ UNCHANGED svars
    BY <1>8 DEF StageWithout, Progress, Status
  <2>2. stage \in Stages
    BY <1>0, <2>1, TailAhead
  <2>3. PICK r : /\ Result(stage, r)
                 /\ errors' = errors \/ errors' = errors \cup {stage}
                 /\ r = "error" \/ stage = "hubs"
    BY <1>8 DEF StageWithout, Returned, Raised
  <2>4. RunAccounted' /\ TodoType' /\ DOMAIN results' \cup stored' \subseteq Stages
    BY <1>0, <2>1, <2>3, StageOver
  <2>5. errors' \subseteq Stages \cup {"pipeline"}
    BY <1>0, <2>2, <2>3
  <2>6. UnderWay'
    BY <1>0, <2>1 DEF UnderWay, Resting, svars
  <2>7. Goal
    BY <1>0, <2>1, <2>4, <2>5, <2>6 DEF CompletedIsTold
  <2> QED BY <1>2, <2>7
<1>9. CASE Breaks
  <2>1. /\ job' = [job EXCEPT ![SyncJob] = "failing"] /\ todo' = [todo EXCEPT ![SyncJob] = <<>>]
        /\ Resting(SyncJob) /\ UNCHANGED <<svars, results, errors, blob, stored>>
    BY <1>9 DEF Breaks
  <2>2. RunAccounted' /\ TodoType' /\ UnderWay'
    BY <1>0, <2>1 DEF RunAccounted, Running, TodoType, UnderWay, Resting, svars
  <2>3. CompletedIsTold'
    BY <2>1 DEF PipelineInv, CompletedIsTold
  <2>4. Goal
    BY <1>0, <2>1, <2>2, <2>3
  <2> QED BY <1>2, <2>4
<1>10. CASE Completes
  <2>1. /\ job' = [job EXCEPT ![SyncJob] = "idle"] /\ Resting(SyncJob)
        /\ UNCHANGED <<svars, todo, stored>>
        /\ DOMAIN results' = DOMAIN results /\ errors' \subseteq errors
    BY <1>10 DEF Completes, Reconciled
  <2>2. RunAccounted' /\ TodoType' /\ UnderWay'
    BY <1>0, <2>1 DEF RunAccounted, Running, TodoType, UnderWay, Resting, svars
  <2>3. Goal
    BY <1>0, <1>10, <2>1, <2>2, CompletesTells
  <2> QED BY <1>2, <2>3
<1>11. CASE Fails
  <2>1. /\ job[SyncJob] = "failing" /\ job' = [job EXCEPT ![SyncJob] = "idle"]
        /\ UNCHANGED <<svars, todo, results, stored>> /\ errors' = errors \cup {"pipeline"}
        /\ blob' = blob \/ blob'.status = "failed"
    BY <1>11 DEF Fails, Status
  <2>2. RunAccounted' /\ TodoType' /\ UnderWay'
    BY <1>0, <2>1 DEF RunAccounted, Running, TodoType, UnderWay, svars
  <2>3. CompletedIsTold'
    BY <2>1 DEF PipelineInv, CompletedIsTold
  <2>4. Goal
    BY <1>0, <2>1, <2>2, <2>3
  <2> QED BY <1>2, <2>4
\* The other jobs.
<1>12. CASE RefreshEnds
  <2>1. blob'.op = Refresh
    BY <1>12 DEF RefreshEnds, Status
  <2>2. Goal
    BY <1>0, <1>12, <2>1, StagesRest DEF RefreshEnds, Running, svars, UnderWay
  <2> QED BY <1>2, <2>2
<1>13. CASE BootEnds
  <2>1. Goal
    BY <1>0, <1>13, StagesRest DEF BootEnds, Running, svars, UnderWay
  <2> QED BY <1>2, <2>1
<1>14. ASSUME NEW p \in Procs, PartEnds(p) PROVE PipelineInv'
  <2>1. /\ p # SyncJob /\ \E rest : todo' = [todo EXCEPT ![p] = rest]
        /\ blob' = blob \/ blob'.op = Refresh
        /\ UNCHANGED <<job, results, errors, stored, plan>>
        /\ outcome' = [outcome EXCEPT ![p] = "none"]
    BY <1>14 DEF PartEnds, Close, Status
  <2>2. todo'[SyncJob] = todo[SyncJob] /\ DOMAIN todo' = Procs
    BY <1>0, <2>1
  <2>3. UnderWay'
    BY <1>0, <2>1, <2>2 DEF UnderWay, Running
  <2>4. Goal
    BY <1>0, <2>1, <2>2, <2>3, StagesRest DEF Running
  <2> QED BY <1>2, <2>4
<1>15. ASSUME NEW p \in Procs, Crash(p) PROVE PipelineInv'
  <2>1. /\ job' = [job EXCEPT ![p] = "idle"] /\ todo' = [todo EXCEPT ![p] = <<>>]
        /\ UNCHANGED <<results, errors, blob, stored>>
        /\ plan' = [plan EXCEPT ![p] = <<>>] /\ outcome' = [outcome EXCEPT ![p] = "none"]
    BY <1>15 DEF Crash, Leave
  <2>2. UnderWay' /\ TodoType'
    BY <1>0, <2>1 DEF UnderWay, TodoType, Running
  <2>3. RunAccounted'
    <3>1. CASE p = SyncJob
      BY <1>0, <2>1, <3>1 DEF RunAccounted, Running
    <3>2. CASE p # SyncJob
      <4>1. job'[SyncJob] = job[SyncJob] /\ todo'[SyncJob] = todo[SyncJob]
        BY <1>0, <2>1, <3>2
      <4> QED BY <2>1, <4>1 DEF PipelineInv, RunAccounted, Running, Ahead, Accounted
    <3> QED BY <3>1, <3>2
  <2>4. CompletedIsTold'
    BY <2>1 DEF PipelineInv, CompletedIsTold
  <2>5. Goal
    BY <1>0, <2>1, <2>2, <2>3, <2>4
  <2> QED BY <1>2, <2>5
\* The transactions.
<1>16. ASSUME NEW p \in Procs, Part(p) PROVE PipelineInv'
  <2>1. /\ Running(p) /\ todo[p] # <<>> /\ UNCHANGED pvars
        /\ \E steps : plan' = [plan EXCEPT ![p] = steps]
        /\ outcome' = [outcome EXCEPT ![p] = "running"]
    BY <1>16 DEF Part, Begin
  <2>2. UnderWay'
    BY <1>0, <2>1 DEF UnderWay, Running, pvars
  <2>3. Goal
    BY <1>0, <2>1, <2>2, StagesRest DEF Running, pvars
  <2> QED BY <1>2, <2>3
<1>17. ASSUME NEW p \in Procs, Step(p), UNCHANGED pvars PROVE PipelineInv'
  <2>1. UnderWay'
    BY <1>0, <1>17, StepOfPlan DEF UnderWay, Running, pvars
  <2>2. Goal
    BY <1>0, <1>17, <2>1, StagesRest DEF Running, pvars
  <2> QED BY <1>2, <2>2
<1>18. CASE UNCHANGED vars
  <2>1. Goal
    BY <1>0, <1>18, StagesRest DEF vars, svars, pvars, Running, UnderWay
  <2> QED BY <1>2, <2>1
<1>19. CASE Expires \/ Judge \/ WriteBack \/ CleanUp \/ Accepts \/ Resets
  <2>1. /\ UNCHANGED <<svars, job, todo, left, results, errors, stored>>
        /\ blob' = blob \/ blob'.status # "completed"
    BY <1>19, OthersLeave
  <2>2. Goal
    BY <1>0, <2>1, StagesRest DEF Running, svars, UnderWay
  <2> QED BY <1>2, <2>2
<1> HIDE DEF Goal
<1> QED BY <1>3, <1>4, <1>5, <1>6, <1>7, <1>8, <1>9, <1>10, <1>11, <1>12, <1>13, <1>14, <1>15,
           <1>16, <1>17, <1>18, <1>19 DEF Next

-----------------------------------------------------------------------------
(* Rows, columns and tables.                                               *)

\* Values for some columns.
Columns(c) == DOMAIN c \subseteq Fields /\ \A f \in DOMAIN c : c[f] \in Values(f)

LEMMA NoneIsEmpty == DOMAIN None = {}
  BY DEF None

\* What the constructions on rows and tables are at a point.
LEMMA OnlyAt == \A x, v : DOMAIN Only(x, v) = {x} /\ Only(x, v)[x] = v
  BY DEF Only

LEMMA JoinAt ==
  ASSUME NEW f, NEW g
  PROVE  /\ DOMAIN (f ++ g) = DOMAIN f \cup DOMAIN g
         /\ \A x \in DOMAIN f : (f ++ g)[x] = f[x]
         /\ \A x \in DOMAIN g \ DOMAIN f : (f ++ g)[x] = g[x]
  BY DEF ++

LEMMA JoinAssociates ==
  ASSUME NEW a, NEW b, NEW c
  PROVE  (a ++ b) ++ c = a ++ (b ++ c)
<1> DEFINE l == (a ++ b) ++ c
           r == a ++ (b ++ c)
<1>1. /\ l = [x \in DOMAIN l |-> l[x]] /\ r = [x \in DOMAIN r |-> r[x]]
  BY DEF ++
<1>2. DOMAIN l = DOMAIN r
  BY DEF ++
<1>3. ASSUME NEW x \in DOMAIN l PROVE l[x] = r[x]
  <2>1. CASE x \in DOMAIN a
    BY <2>1 DEF ++
  <2>2. CASE x \notin DOMAIN a /\ x \in DOMAIN b
    BY <2>2 DEF ++
  <2>3. CASE x \notin DOMAIN a /\ x \notin DOMAIN b
    BY <1>3, <2>3 DEF ++
  <2> QED BY <2>1, <2>2, <2>3
<1> HIDE DEF l, r
<1>4. l = r
  BY <1>1, <1>2, <1>3
<1> QED BY <1>4 DEF l, r

\* Changes of columns, put together, are changes of columns.
LEMMA ColumnsJoin ==
  /\ Columns(None)
  /\ \A f \in Fields : \A v \in Values(f) : Columns(Only(f, v))
  /\ \A c, d : Columns(c) /\ Columns(d) => Columns(c ++ d)
  /\ \A c, r : Columns(c) /\ IsRow(r) => IsRow(c ++ r)
  /\ \A r, c : IsRow(r) /\ Columns(c) => IsRow(r ++ c)
  /\ \A r : IsRow(r) => Columns(r)
<1>1. Columns(None)
  BY NoneIsEmpty DEF Columns
<1>2. ASSUME NEW f \in Fields, NEW v \in Values(f) PROVE Columns(Only(f, v))
  BY DEF Columns, Only
<1>3. ASSUME NEW c, NEW d, Columns(c), Columns(d) PROVE Columns(c ++ d)
  BY <1>3 DEF Columns, ++
<1>4. ASSUME NEW c, NEW r, Columns(c), IsRow(r) PROVE IsRow(c ++ r)
  BY <1>4 DEF Columns, IsRow, ++
<1>5. ASSUME NEW r, IsRow(r) PROVE Columns(r)
  BY <1>5 DEF Columns, IsRow
<1>6. ASSUME NEW r, NEW c, IsRow(r), Columns(c) PROVE IsRow(r ++ c)
  BY <1>6 DEF Columns, IsRow, ++
<1> QED BY <1>1, <1>2, <1>3, <1>4, <1>5, <1>6

\* A gap is filled or left alone; what is not a gap is left alone.
LEMMA GapAt ==
  ASSUME NEW row, NEW f \in Fields, NEW v \in Values(f)
  PROVE  /\ Columns(Gap(row, f, v))
         /\ DOMAIN Gap(row, f, v) \subseteq {f}
         /\ row[f] # Nothing => DOMAIN Gap(row, f, v) = {}
         /\ row[f] = Nothing /\ v # Nothing =>
              f \in DOMAIN Gap(row, f, v) /\ Gap(row, f, v)[f] = v
<1>1. CASE row[f] = Nothing /\ v # Nothing
  <2>1. Gap(row, f, v) = Only(f, v)
    BY <1>1 DEF Gap
  <2>2. DOMAIN Only(f, v) = {f} /\ Only(f, v)[f] = v /\ Columns(Only(f, v))
    BY OnlyAt, ColumnsJoin
  <2> QED BY <1>1, <2>1, <2>2
<1>2. CASE ~(row[f] = Nothing /\ v # Nothing)
  <2>1. Gap(row, f, v) = None
    BY <1>2 DEF Gap
  <2> QED BY <1>2, <2>1, NoneIsEmpty, ColumnsJoin
<1> QED BY <1>1, <1>2

LEMMA ValuesAre ==
  /\ Values("code") = Text /\ Values("norm") = Text /\ Values("core") = Text
  /\ Values("name") = STRING /\ Values("hubs") = SUBSET STRING
  /\ Values("country") = {"feed", "core", "page", Nothing}
  BY Zenon DEF Values

LEMMA NewRowIsRow ==
  ASSUME NEW name \in STRING, NEW code \in Text, NEW norm \in Text, NEW core \in Text,
         NEW country \in {"feed", "core", "page", Nothing}, NEW hubs \in SUBSET STRING
  PROVE  IsRow(NewRow(name, code, norm, core, country, hubs))
<1> DEFINE r == NewRow(name, code, norm, core, country, hubs)
<1>1. /\ DOMAIN r = Fields
      /\ r["code"] = code /\ r["norm"] = norm /\ r["core"] = core
      /\ r["name"] = name /\ r["country"] = country /\ r["hubs"] = hubs
  BY DEF NewRow, Fields
<1> HIDE DEF r
<1>2. \A f \in Fields : r[f] \in Values(f)
  BY <1>1, ValuesAre DEF Fields
<1>3. IsRow(r)
  BY <1>1, <1>2 DEF IsRow
<1> QED BY <1>3 DEF r

\* A changed table, at a row.
LEMMA OverAt ==
  ASSUME NEW t, NEW c
  PROVE  /\ DOMAIN Over(t, c) = DOMAIN t \cup DOMAIN c
         /\ \A x \in DOMAIN t \ DOMAIN c : Over(t, c)[x] = t[x]
         /\ \A x \in DOMAIN c \ DOMAIN t : Over(t, c)[x] = c[x]
         /\ \A x \in DOMAIN c \cap DOMAIN t : Over(t, c)[x] = c[x] ++ t[x]
  BY DEF Over

\* Changes written one after the other, or joined and written at once.
LEMMA OverAssociates ==
  ASSUME NEW t, NEW c, NEW d
  PROVE  Over(Over(t, c), d) = Over(t, Over(c, d))
<1> DEFINE l == Over(Over(t, c), d)
           r == Over(t, Over(c, d))
<1>1. l = [x \in DOMAIN l |-> l[x]] /\ r = [x \in DOMAIN r |-> r[x]]
  BY DEF Over
<1>2. DOMAIN l = DOMAIN r
  BY DEF Over
<1>3. ASSUME NEW x \in DOMAIN l PROVE l[x] = r[x]
  <2>1. /\ DOMAIN Over(c, d) = DOMAIN c \cup DOMAIN d
        /\ DOMAIN Over(t, c) = DOMAIN t \cup DOMAIN c
        /\ DOMAIN l = DOMAIN t \cup DOMAIN c \cup DOMAIN d
    BY DEF Over
  <2>2. CASE x \in DOMAIN t /\ x \in DOMAIN c /\ x \in DOMAIN d
    <3>1. l[x] = d[x] ++ (c[x] ++ t[x])
      BY <2>1, <2>2 DEF Over
    <3>2. r[x] = (d[x] ++ c[x]) ++ t[x]
      BY <2>1, <2>2 DEF Over
    <3> QED BY <3>1, <3>2, JoinAssociates
  <2>3. CASE ~(x \in DOMAIN t /\ x \in DOMAIN c /\ x \in DOMAIN d)
    BY <1>3, <2>1, <2>3 DEF Over
  <2> QED BY <2>2, <2>3
<1> HIDE DEF l, r
<1>4. l = r
  BY <1>1, <1>2, <1>3
<1> QED BY <1>4 DEF l, r

\* A table of rows, some of whose columns have changed and some of whose rows
\* are new.
LEMMA OverIsRows ==
  ASSUME NEW t, NEW c,
         \A x \in DOMAIN t : IsRow(t[x]),
         \A x \in DOMAIN c : Columns(c[x]) /\ (x \notin DOMAIN t => IsRow(c[x]))
  PROVE  \A x \in DOMAIN t \cup DOMAIN c : IsRow(Over(t, c)[x])
<1> SUFFICES ASSUME NEW x \in DOMAIN t \cup DOMAIN c PROVE IsRow(Over(t, c)[x])
  OBVIOUS
<1>1. CASE x \in DOMAIN t \ DOMAIN c
  BY <1>1 DEF Over
<1>2. CASE x \in DOMAIN c \ DOMAIN t
  BY <1>2 DEF Over
<1>3. CASE x \in DOMAIN c /\ x \in DOMAIN t
  <2>1. Over(t, c)[x] = c[x] ++ t[x]
    BY <1>3 DEF Over
  <2> QED BY <1>3, <2>1, ColumnsJoin
<1> QED BY <1>1, <1>2, <1>3

-----------------------------------------------------------------------------
(* Sessions.  t is the session of a process, R the committed rows.         *)

TxFields ==
  {"kind", "seen", "alias", "linked", "next", "pend", "new", "keys", "wrote",
   "inserted", "held", "created", "recovered", "calm", "second"}

\* The rows a session can see or is about to insert, and its object of one.
Reach(t, R) == DOMAIN R \cup DOMAIN t.wrote \cup t.new
Obj(t, R, x) == IF x \in DOMAIN t.seen THEN t.seen[x] ELSE Over(R, t.wrote)[x]

Sound(t, R) ==
  /\ DOMAIN t = TxFields
  /\ t.created \in Nat /\ t.next \in Nat
  /\ \A x \in DOMAIN t.seen : IsRow(t.seen[x])
  /\ \A x \in DOMAIN t.pend : Columns(t.pend[x])
  /\ \A x \in DOMAIN t.wrote : Columns(t.wrote[x])
  /\ \A x \in t.new : x \in DOMAIN t.pend /\ x \in DOMAIN t.seen /\ IsRow(t.pend[x])
  /\ \A x \in t.inserted : x \in DOMAIN t.wrote /\ IsRow(t.wrote[x])
  /\ DOMAIN t.pend \subseteq Reach(t, R)
  /\ DOMAIN t.wrote \subseteq DOMAIN R \cup t.inserted
  /\ \A y \in DOMAIN t.alias : t.alias[y] \in Reach(t, R)
  /\ t.keys \cap t.held = {}

TableOf(R) == \A x \in DOMAIN R : IsRow(R[x])

\* The objects are what the table will be after the next flush.
Agrees(t, R) ==
  \A x \in Reach(t, R) : Over(Over(R, t.wrote), t.pend)[x] = Obj(t, R, x)

\* What a synchronisation may only fill.
GapFields == {"code", "norm", "country"}

Kept(t, R) ==
  \A x \in DOMAIN R, f \in GapFields :
    R[x][f] # Nothing => Over(R, t.wrote)[x][f] = R[x][f] /\ Obj(t, R, x)[f] = R[x][f]

\* What a session sees, and its objects, are rows.
LEMMA VisibleRows ==
  ASSUME NEW t, NEW R, Sound(t, R), TableOf(R)
  PROVE  /\ DOMAIN Over(R, t.wrote) = DOMAIN R \cup DOMAIN t.wrote
         /\ \A x \in DOMAIN R \cup DOMAIN t.wrote : IsRow(Over(R, t.wrote)[x])
         /\ \A x \in Reach(t, R) : IsRow(Obj(t, R, x))
<1>1. \A x \in DOMAIN t.wrote : Columns(t.wrote[x]) /\ (x \notin DOMAIN R => IsRow(t.wrote[x]))
  BY DEF Sound
<1>2. \A x \in DOMAIN R \cup DOMAIN t.wrote : IsRow(Over(R, t.wrote)[x])
  BY <1>1, OverIsRows DEF TableOf
<1> QED BY <1>2, OverAt DEF Sound, Reach, Obj

LEMMA ObjectIs ==
  ASSUME NEW p, NEW t, t.wrote = tx[p].wrote
  PROVE  \A x : Object(p, t, x) = Obj(t, rows, x)
  BY DEF Object, Obj, Visible

\* What assignments do to a session.
LEMMA AssignedFields ==
  ASSUME NEW p, NEW t, NEW changes, DOMAIN t = TxFields
  PROVE  LET u == Assigned(p, t, changes)
         IN  /\ DOMAIN u = TxFields
             /\ u.seen = Over([x \in DOMAIN changes |-> Object(p, t, x)] ++ t.seen, changes)
             /\ u.pend = Over(t.pend, changes)
             /\ u.kind = t.kind /\ u.alias = t.alias /\ u.linked = t.linked
             /\ u.next = t.next /\ u.new = t.new /\ u.keys = t.keys /\ u.wrote = t.wrote
             /\ u.inserted = t.inserted /\ u.held = t.held /\ u.created = t.created
             /\ u.recovered = t.recovered /\ u.calm = t.calm /\ u.second = t.second
  BY DEF Assigned, TxFields

\* What an assignment to objects keeps.
LEMMA AssignedKeeps ==
  ASSUME NEW p, NEW t, t.wrote = tx[p].wrote, Sound(t, rows), TableOf(rows),
         NEW changes, DOMAIN changes \subseteq Reach(t, rows),
         \A x \in DOMAIN changes : Columns(changes[x])
  PROVE  LET u == Assigned(p, t, changes)
         IN  /\ Sound(u, rows)
             /\ \A x \in Reach(t, rows) :
                  Obj(u, rows, x) = IF x \in DOMAIN changes THEN changes[x] ++ Obj(t, rows, x)
                                    ELSE Obj(t, rows, x)
             /\ Agrees(t, rows) => Agrees(u, rows)
<1> DEFINE u == Assigned(p, t, changes)
           o == [x \in DOMAIN changes |-> Object(p, t, x)]
<1>1. /\ DOMAIN u = TxFields
      /\ u.seen = Over(o ++ t.seen, changes)
      /\ u.pend = Over(t.pend, changes)
      /\ u.alias = t.alias /\ u.next = t.next /\ u.new = t.new /\ u.keys = t.keys
      /\ u.wrote = t.wrote /\ u.inserted = t.inserted /\ u.held = t.held
      /\ u.created = t.created
  BY AssignedFields DEF Sound
<1> HIDE DEF u
<1>2. \A x \in DOMAIN changes : o[x] = Obj(t, rows, x)
  BY ObjectIs
<1>3. DOMAIN (o ++ t.seen) = DOMAIN changes \cup DOMAIN t.seen
  BY DEF ++
<1>4. DOMAIN u.seen = DOMAIN changes \cup DOMAIN t.seen
  BY <1>1, <1>3 DEF Over
<1>5. \A x \in DOMAIN changes : u.seen[x] = changes[x] ++ Obj(t, rows, x)
  <2> SUFFICES ASSUME NEW x \in DOMAIN changes
               PROVE  u.seen[x] = changes[x] ++ Obj(t, rows, x)
    OBVIOUS
  <2>1. u.seen[x] = changes[x] ++ (o ++ t.seen)[x]
    BY <1>1, <1>3 DEF Over
  <2>2. (o ++ t.seen)[x] = o[x]
    BY DEF ++
  <2> QED BY <1>2, <2>1, <2>2
<1>6. \A x \in DOMAIN t.seen \ DOMAIN changes : u.seen[x] = t.seen[x]
  <2> SUFFICES ASSUME NEW x \in DOMAIN t.seen \ DOMAIN changes
               PROVE  u.seen[x] = t.seen[x]
    OBVIOUS
  <2>1. u.seen[x] = (o ++ t.seen)[x]
    BY <1>1, <1>3 DEF Over
  <2>2. (o ++ t.seen)[x] = t.seen[x]
    BY DEF ++
  <2> QED BY <2>1, <2>2
<1> HIDE DEF o
<1>7. \A x \in Reach(t, rows) : IsRow(Obj(t, rows, x))
  BY VisibleRows
<1>8. ASSUME NEW x \in Reach(t, rows)
      PROVE  Obj(u, rows, x) = IF x \in DOMAIN changes THEN changes[x] ++ Obj(t, rows, x)
                               ELSE Obj(t, rows, x)
  <2>1. CASE x \in DOMAIN changes
    BY <1>4, <1>5, <2>1 DEF Obj
  <2>2. CASE x \notin DOMAIN changes
    BY <1>1, <1>4, <1>6, <2>2 DEF Obj
  <2> QED BY <2>1, <2>2
<1>9. Sound(u, rows)
  <2>1. \A x \in DOMAIN u.seen : IsRow(u.seen[x])
    BY <1>4, <1>5, <1>6, <1>7, ColumnsJoin DEF Sound
  <2>2. DOMAIN u.pend = DOMAIN t.pend \cup DOMAIN changes
    BY <1>1, OverAt
  <2>3. ASSUME NEW x \in DOMAIN u.pend
        PROVE  Columns(u.pend[x]) /\ (x \in t.new => IsRow(u.pend[x]))
    <3>1. CASE x \notin DOMAIN changes
      BY <1>1, <2>2, <2>3, <3>1 DEF Sound, Over
    <3>2. CASE x \in DOMAIN changes /\ x \notin DOMAIN t.pend
      BY <1>1, <3>2 DEF Sound, Over
    <3>3. CASE x \in DOMAIN changes /\ x \in DOMAIN t.pend
      <4>1. u.pend[x] = changes[x] ++ t.pend[x]
        BY <1>1, <3>3 DEF Over
      <4>2. Columns(changes[x]) /\ Columns(t.pend[x]) /\ (x \in t.new => IsRow(t.pend[x]))
        BY <3>3 DEF Sound
      <4> QED BY <4>1, <4>2, ColumnsJoin
    <3> QED BY <2>2, <3>1, <3>2, <3>3
  <2> QED BY <1>1, <1>4, <2>1, <2>2, <2>3 DEF Sound, Reach
<1>10. ASSUME Agrees(t, rows), NEW x \in Reach(u, rows)
       PROVE  Over(Over(rows, u.wrote), u.pend)[x] = Obj(u, rows, x)
  <2> DEFINE T == Over(Over(rows, t.wrote), t.pend)
  <2>1. Over(Over(rows, u.wrote), u.pend) = Over(T, changes)
    BY <1>1, OverAssociates
  <2>2. x \in Reach(t, rows)
    BY <1>1, <1>10 DEF Reach
  <2>3. x \in DOMAIN T /\ T[x] = Obj(t, rows, x)
    BY <1>10, <2>2 DEF Agrees, Reach, Sound, Over
  <2> HIDE DEF T
  <2>4. CASE x \in DOMAIN changes
    BY <1>8, <2>1, <2>2, <2>3, <2>4 DEF Over
  <2>5. CASE x \notin DOMAIN changes
    BY <1>8, <2>1, <2>2, <2>3, <2>5 DEF Over
  <2> QED BY <2>4, <2>5
<1>11. /\ Sound(u, rows)
       /\ \A x \in Reach(t, rows) :
            Obj(u, rows, x) = IF x \in DOMAIN changes THEN changes[x] ++ Obj(t, rows, x)
                              ELSE Obj(t, rows, x)
       /\ Agrees(t, rows) => Agrees(u, rows)
  BY <1>8, <1>9, <1>10 DEF Agrees
<1> QED BY <1>11 DEF u

\* What adding rows does to a session.
LEMMA AddedFields ==
  ASSUME NEW t, NEW fresh, DOMAIN t = TxFields
  PROVE  LET u == AddedAll(t, fresh)
         IN  /\ DOMAIN u = TxFields
             /\ u.seen = fresh ++ t.seen /\ u.pend = fresh ++ t.pend
             /\ u.new = t.new \cup DOMAIN fresh
             /\ u.created = t.created + Cardinality(DOMAIN fresh)
             /\ u.kind = t.kind /\ u.alias = t.alias /\ u.linked = t.linked
             /\ u.next = t.next /\ u.keys = t.keys /\ u.wrote = t.wrote
             /\ u.inserted = t.inserted /\ u.held = t.held
             /\ u.recovered = t.recovered /\ u.calm = t.calm /\ u.second = t.second
  BY DEF AddedAll, TxFields

\* What adding rows keeps.
LEMMA AddedKeeps ==
  ASSUME NEW t, Sound(t, rows), NEW fresh, IsFiniteSet(DOMAIN fresh),
         \A x \in DOMAIN fresh : IsRow(fresh[x])
  PROVE  LET u == AddedAll(t, fresh)
         IN  /\ Sound(u, rows)
             /\ \A x \in DOMAIN fresh : Obj(u, rows, x) = fresh[x]
             /\ \A x \in Reach(t, rows) \ DOMAIN fresh : Obj(u, rows, x) = Obj(t, rows, x)
             /\ Agrees(t, rows) /\ DOMAIN fresh \cap (DOMAIN rows \cup DOMAIN t.wrote) = {} =>
                  Agrees(u, rows)
<1> DEFINE u == AddedAll(t, fresh)
<1>1. /\ DOMAIN u = TxFields
      /\ u.seen = fresh ++ t.seen /\ u.pend = fresh ++ t.pend
      /\ u.new = t.new \cup DOMAIN fresh
      /\ u.created = t.created + Cardinality(DOMAIN fresh)
      /\ u.alias = t.alias /\ u.next = t.next /\ u.keys = t.keys /\ u.wrote = t.wrote
      /\ u.inserted = t.inserted /\ u.held = t.held
  BY AddedFields DEF Sound
<1> HIDE DEF u
<1>2. Cardinality(DOMAIN fresh) \in Nat
  BY FS_CardinalityType
<1>3. /\ DOMAIN u.seen = DOMAIN fresh \cup DOMAIN t.seen
      /\ DOMAIN u.pend = DOMAIN fresh \cup DOMAIN t.pend
      /\ \A x \in DOMAIN fresh : u.seen[x] = fresh[x] /\ u.pend[x] = fresh[x]
      /\ \A x \in DOMAIN t.seen \ DOMAIN fresh : u.seen[x] = t.seen[x]
      /\ \A x \in DOMAIN t.pend \ DOMAIN fresh : u.pend[x] = t.pend[x]
  BY <1>1 DEF ++
<1>4. Sound(u, rows)
  <2>1. u.created \in Nat /\ u.next \in Nat
    BY <1>1, <1>2 DEF Sound
  <2>2. \A x \in DOMAIN u.seen : IsRow(u.seen[x])
    BY <1>3 DEF Sound
  <2>3. \A x \in DOMAIN u.pend : Columns(u.pend[x]) /\ (x \in u.new => IsRow(u.pend[x]))
    <3> SUFFICES ASSUME NEW x \in DOMAIN u.pend
                 PROVE  Columns(u.pend[x]) /\ (x \in u.new => IsRow(u.pend[x]))
      OBVIOUS
    <3>1. CASE x \in DOMAIN fresh
      <4>1. IsRow(fresh[x]) /\ u.pend[x] = fresh[x]
        BY <1>3, <3>1
      <4> QED BY <4>1, ColumnsJoin
    <3>2. CASE x \notin DOMAIN fresh
      BY <1>1, <1>3, <3>2 DEF Sound
    <3> QED BY <3>1, <3>2
  <2> QED BY <1>1, <1>3, <2>1, <2>2, <2>3 DEF Sound, Reach
<1>5. \A x \in DOMAIN fresh : Obj(u, rows, x) = fresh[x]
  BY <1>3 DEF Obj
<1>6. \A x \in Reach(t, rows) \ DOMAIN fresh : Obj(u, rows, x) = Obj(t, rows, x)
  BY <1>1, <1>3 DEF Obj
<1>7. ASSUME Agrees(t, rows), DOMAIN fresh \cap (DOMAIN rows \cup DOMAIN t.wrote) = {},
             NEW x \in Reach(u, rows)
      PROVE  Over(Over(rows, u.wrote), u.pend)[x] = Obj(u, rows, x)
  <2> DEFINE T == Over(rows, t.wrote)
  <2>1. DOMAIN T = DOMAIN rows \cup DOMAIN t.wrote
    BY OverAt
  <2>2. T = Over(rows, u.wrote)
    BY <1>1
  <2> HIDE DEF T
  <2>3. CASE x \in DOMAIN fresh
    <3>1. x \notin DOMAIN T
      BY <1>7, <2>1, <2>3 DEF Reach
    <3>2. Over(T, u.pend)[x] = u.pend[x]
      BY <1>3, <2>3, <3>1 DEF Over
    <3> QED BY <1>3, <1>5, <2>2, <2>3, <3>2
  <2>4. CASE x \notin DOMAIN fresh
    <3>1. x \in Reach(t, rows)
      BY <1>1, <1>7, <2>4 DEF Reach
    <3>2. x \in DOMAIN T \cup DOMAIN t.pend
      BY <2>1, <3>1 DEF Reach, Sound
    <3>3. Over(T, u.pend)[x] = Over(T, t.pend)[x]
      BY <1>3, <2>4, <3>2 DEF Over
    <3>4. Over(T, t.pend)[x] = Obj(t, rows, x)
      BY <1>7, <3>1 DEF Agrees, T
    <3> QED BY <1>6, <2>2, <2>4, <3>1, <3>3, <3>4
  <2> QED BY <2>3, <2>4
<1>8. /\ Sound(u, rows)
      /\ \A x \in DOMAIN fresh : Obj(u, rows, x) = fresh[x]
      /\ \A x \in Reach(t, rows) \ DOMAIN fresh : Obj(u, rows, x) = Obj(t, rows, x)
      /\ Agrees(t, rows) /\ DOMAIN fresh \cap (DOMAIN rows \cup DOMAIN t.wrote) = {} =>
           Agrees(u, rows)
  BY <1>4, <1>5, <1>6, <1>7 DEF Agrees
<1> QED BY <1>8 DEF u

\* A session after a flush.
Flushed(t) ==
  [t EXCEPT !.wrote = Over(@, t.pend), !.inserted = @ \cup t.new, !.held = @ \cup t.keys,
            !.seen = None, !.pend = None, !.new = {}, !.keys = {}]

LEMMA FlushedFields ==
  ASSUME NEW t, DOMAIN t = TxFields
  PROVE  LET u == Flushed(t)
         IN  /\ DOMAIN u = TxFields
             /\ u.wrote = Over(t.wrote, t.pend) /\ u.inserted = t.inserted \cup t.new
             /\ u.held = t.held \cup t.keys /\ u.seen = None /\ u.pend = None
             /\ u.new = {} /\ u.keys = {}
             /\ u.kind = t.kind /\ u.alias = t.alias /\ u.linked = t.linked
             /\ u.next = t.next /\ u.created = t.created
             /\ u.recovered = t.recovered /\ u.calm = t.calm /\ u.second = t.second
  BY DEF Flushed, TxFields

\* What a flush keeps: the objects go, what they held is visible.
LEMMA FlushedKeeps ==
  ASSUME NEW t, Sound(t, rows), TableOf(rows)
  PROVE  LET u == Flushed(t)
         IN  /\ Sound(u, rows)
             /\ Reach(u, rows) = Reach(t, rows)
             /\ Agrees(u, rows)
             /\ Agrees(t, rows) =>
                  \A x \in Reach(t, rows) : /\ Over(rows, u.wrote)[x] = Obj(t, rows, x)
                                            /\ Obj(u, rows, x) = Obj(t, rows, x)
<1> DEFINE u == Flushed(t)
<1>1. /\ DOMAIN u = TxFields
      /\ u.wrote = Over(t.wrote, t.pend) /\ u.inserted = t.inserted \cup t.new
      /\ u.held = t.held \cup t.keys /\ u.seen = None /\ u.pend = None
      /\ u.new = {} /\ u.keys = {}
      /\ u.alias = t.alias /\ u.next = t.next /\ u.created = t.created
  BY FlushedFields DEF Sound
<1> HIDE DEF u
<1>2. DOMAIN u.wrote = DOMAIN t.wrote \cup DOMAIN t.pend
  BY <1>1 DEF Over
<1>3. Reach(u, rows) = Reach(t, rows)
  BY <1>1, <1>2 DEF Reach, Sound
<1>4. \A x \in DOMAIN u.wrote : /\ Columns(u.wrote[x])
                                /\ x \in u.inserted => IsRow(u.wrote[x])
  <2> SUFFICES ASSUME NEW x \in DOMAIN u.wrote
               PROVE  Columns(u.wrote[x]) /\ (x \in u.inserted => IsRow(u.wrote[x]))
    OBVIOUS
  <2>1. CASE x \in DOMAIN t.wrote /\ x \in DOMAIN t.pend
    <3>1. u.wrote[x] = t.pend[x] ++ t.wrote[x]
      BY <1>1, <2>1 DEF Over
    <3>2. /\ Columns(t.pend[x]) /\ Columns(t.wrote[x])
          /\ x \in t.new => IsRow(t.pend[x])
          /\ x \in t.inserted => IsRow(t.wrote[x])
      BY <2>1 DEF Sound
    <3> QED BY <1>1, <3>1, <3>2, ColumnsJoin
  <2>2. CASE x \in DOMAIN t.wrote /\ x \notin DOMAIN t.pend
    BY <1>1, <2>2 DEF Over, Sound
  <2>3. CASE x \notin DOMAIN t.wrote
    BY <1>1, <1>2, <2>3 DEF Over, Sound
  <2> QED BY <2>1, <2>2, <2>3
<1>5. Sound(u, rows)
  BY <1>1, <1>2, <1>3, <1>4, NoneIsEmpty DEF Sound, Reach
<1>6. ASSUME NEW x \in Reach(u, rows)
      PROVE  /\ Obj(u, rows, x) = Over(rows, u.wrote)[x]
             /\ Over(Over(rows, u.wrote), u.pend)[x] = Over(rows, u.wrote)[x]
             /\ Over(rows, u.wrote) = Over(Over(rows, t.wrote), t.pend)
  <2>1. x \in DOMAIN Over(rows, u.wrote)
    BY <1>1, <1>6 DEF Reach, Over
  <2>2. DOMAIN u.pend = {} /\ DOMAIN u.seen = {}
    BY <1>1, NoneIsEmpty
  <2> DEFINE T == Over(rows, u.wrote)
  <2>3. x \in DOMAIN T
    BY <2>1
  <2> HIDE DEF T
  <2>4. Over(T, u.pend)[x] = T[x]
    BY <2>2, <2>3 DEF Over
  <2>5. Over(rows, u.wrote) = Over(Over(rows, t.wrote), t.pend)
    BY <1>1, OverAssociates
  <2> QED BY <2>2, <2>4, <2>5 DEF T, Obj
<1>7. /\ Sound(u, rows)
      /\ Reach(u, rows) = Reach(t, rows)
      /\ Agrees(u, rows)
      /\ Agrees(t, rows) =>
           \A x \in Reach(t, rows) : /\ Over(rows, u.wrote)[x] = Obj(t, rows, x)
                                     /\ Obj(u, rows, x) = Obj(t, rows, x)
  BY <1>3, <1>5, <1>6 DEF Agrees
<1> QED BY <1>7 DEF u

-----------------------------------------------------------------------------
(* Filling gaps.                                                           *)

\* In the columns of S, u has what t had, where t had something.
FillsOnly(t, u, R, S) ==
  /\ u.wrote = t.wrote
  /\ Reach(t, R) \subseteq Reach(u, R)
  /\ \A x \in Reach(t, R), f \in S :
       Obj(t, R, x)[f] # Nothing => Obj(u, R, x)[f] = Obj(t, R, x)[f]

\* Changes that fill gaps keep what the rows had.
LEMMA FillsKeeps ==
  ASSUME NEW t, NEW u, NEW R, NEW S, GapFields \subseteq S, FillsOnly(t, u, R, S), Kept(t, R)
  PROVE  Kept(u, R)
<1> SUFFICES ASSUME NEW x \in DOMAIN R, NEW f \in GapFields, R[x][f] # Nothing
             PROVE  Over(R, u.wrote)[x][f] = R[x][f] /\ Obj(u, R, x)[f] = R[x][f]
  BY DEF Kept
<1>1. Over(R, t.wrote)[x][f] = R[x][f] /\ Obj(t, R, x)[f] = R[x][f]
  BY DEF Kept
<1>2. x \in Reach(t, R) /\ f \in S
  BY DEF Reach
<1> QED BY <1>1, <1>2 DEF FillsOnly

LEMMA SameTables ==
  ASSUME NEW t, NEW u, NEW R,
         u.seen = t.seen, u.pend = t.pend, u.wrote = t.wrote, u.new = t.new
  PROVE  /\ Reach(u, R) = Reach(t, R)
         /\ \A x : Obj(u, R, x) = Obj(t, R, x)
         /\ Agrees(t, R) => Agrees(u, R)
         /\ \A S : FillsOnly(t, u, R, S)
<1>1. Reach(u, R) = Reach(t, R)
  BY DEF Reach
<1>2. \A x : Obj(u, R, x) = Obj(t, R, x)
  BY DEF Obj
<1>3. Agrees(t, R) => Agrees(u, R)
  BY <1>1, <1>2 DEF Agrees
<1>4. \A S : FillsOnly(t, u, R, S)
  BY <1>1, <1>2 DEF FillsOnly
<1> QED BY <1>1, <1>2, <1>3, <1>4

\* Assignments, column by column.
LEMMA AssignedColumns ==
  ASSUME NEW p, NEW t, t.wrote = tx[p].wrote, Sound(t, rows), TableOf(rows),
         NEW changes, DOMAIN changes \subseteq Reach(t, rows),
         \A x \in DOMAIN changes : Columns(changes[x]),
         NEW S \in SUBSET Fields,
         \A x \in DOMAIN changes : \A f \in S \cap DOMAIN changes[x] :
           Obj(t, rows, x)[f] = Nothing
  PROVE  FillsOnly(t, Assigned(p, t, changes), rows, S)
<1> DEFINE u == Assigned(p, t, changes)
<1>0. DOMAIN t = TxFields
  BY DEF Sound
<1>1. /\ u.wrote = t.wrote /\ u.new = t.new
      /\ \A x \in Reach(t, rows) :
           Obj(u, rows, x) = IF x \in DOMAIN changes THEN changes[x] ++ Obj(t, rows, x)
                             ELSE Obj(t, rows, x)
  <2>1. u.wrote = t.wrote /\ u.new = t.new
    BY <1>0 DEF Assigned, TxFields
  <2>2. \A x \in Reach(t, rows) :
           Obj(u, rows, x) = IF x \in DOMAIN changes THEN changes[x] ++ Obj(t, rows, x)
                             ELSE Obj(t, rows, x)
    BY AssignedKeeps
  <2> QED BY <2>1, <2>2
<1> HIDE DEF u
<1>2. ASSUME NEW x \in Reach(t, rows), NEW f \in S, Obj(t, rows, x)[f] # Nothing
      PROVE  Obj(u, rows, x)[f] = Obj(t, rows, x)[f]
  <2>1. CASE x \in DOMAIN changes
    <3>1. Obj(u, rows, x) = changes[x] ++ Obj(t, rows, x)
      BY <1>1, <2>1
    <3>2. IsRow(Obj(t, rows, x))
      BY VisibleRows
    <3>3. f \in DOMAIN Obj(t, rows, x) /\ f \notin DOMAIN changes[x]
      BY <1>2, <2>1, <3>2 DEF IsRow
    <3>4. (changes[x] ++ Obj(t, rows, x))[f] = Obj(t, rows, x)[f]
      BY <3>3 DEF ++
    <3> QED BY <3>1, <3>4
  <2>2. CASE x \notin DOMAIN changes
    BY <1>1, <2>2
  <2> QED BY <2>1, <2>2
<1>3. FillsOnly(t, u, rows, S)
  BY <1>1, <1>2 DEF FillsOnly, Reach
<1> QED BY <1>3 DEF u

\* Changed and Added, for one row.
LEMMA ChangedKeeps ==
  ASSUME NEW p, NEW t, t.wrote = tx[p].wrote, Sound(t, rows), TableOf(rows),
         NEW x \in Reach(t, rows), NEW c, Columns(c)
  PROVE  LET u == Changed(p, t, x, c)
         IN  /\ Sound(u, rows)
             /\ Agrees(t, rows) => Agrees(u, rows)
             /\ Reach(u, rows) = Reach(t, rows)
             /\ \A f \in DOMAIN c : Obj(u, rows, x)[f] = c[f]
             /\ \A S \in SUBSET Fields :
                  (\A f \in S \cap DOMAIN c : Obj(t, rows, x)[f] = Nothing)
                    => FillsOnly(t, u, rows, S)
             /\ u.wrote = t.wrote /\ u.new = t.new /\ u.inserted = t.inserted
             /\ u.kind = t.kind /\ u.alias = t.alias /\ u.linked = t.linked
             /\ u.next = t.next /\ u.created = t.created /\ u.calm = t.calm
<1> DEFINE changes == Only(x, c)
           u == Assigned(p, t, changes)
<1>1. CASE DOMAIN c = {}
  <2>1. Changed(p, t, x, c) = t
    BY <1>1 DEF Changed
  <2>2. \A S \in SUBSET Fields : FillsOnly(t, t, rows, S)
    BY SameTables
  <2> QED BY <1>1, <2>1, <2>2
<1>2. CASE DOMAIN c # {}
  <2>1. Changed(p, t, x, c) = u
    BY <1>2 DEF Changed
  <2>2. DOMAIN changes = {x} /\ changes[x] = c
    BY OnlyAt
  <2> HIDE DEF changes
  <2>3. DOMAIN t = TxFields
    BY DEF Sound
  <2>4. /\ u.wrote = t.wrote /\ u.new = t.new /\ u.inserted = t.inserted
        /\ u.kind = t.kind /\ u.alias = t.alias /\ u.linked = t.linked
        /\ u.next = t.next /\ u.created = t.created /\ u.calm = t.calm
    BY <2>3 DEF Assigned, TxFields
  <2>5. /\ DOMAIN changes \subseteq Reach(t, rows)
        /\ \A y \in DOMAIN changes : Columns(changes[y])
    BY <2>2
  <2>6. /\ Sound(u, rows)
        /\ Obj(u, rows, x) = c ++ Obj(t, rows, x)
        /\ Agrees(t, rows) => Agrees(u, rows)
    BY <2>2, <2>5, AssignedKeeps
  <2>7. \A f \in DOMAIN c : Obj(u, rows, x)[f] = c[f]
    BY <2>6 DEF ++
  <2>8. Reach(u, rows) = Reach(t, rows)
    BY <2>4 DEF Reach
  <2>9. ASSUME NEW S \in SUBSET Fields, \A f \in S \cap DOMAIN c : Obj(t, rows, x)[f] = Nothing
        PROVE  FillsOnly(t, u, rows, S)
    <3>1. \A y \in DOMAIN changes : \A f \in S \cap DOMAIN changes[y] :
            Obj(t, rows, y)[f] = Nothing
      BY <2>2, <2>9
    <3> QED BY <2>5, <3>1, AssignedColumns
  <2> HIDE DEF u
  <2> QED BY <2>1, <2>4, <2>6, <2>7, <2>8, <2>9
<1> QED BY <1>1, <1>2

LEMMA AddedOne ==
  ASSUME NEW t, Sound(t, rows), NEW x, NEW row, IsRow(row)
  PROVE  LET u == Added(t, x, row)
         IN  /\ Sound(u, rows)
             /\ Agrees(t, rows) /\ x \notin Reach(t, rows) => Agrees(u, rows)
             /\ Reach(u, rows) = Reach(t, rows) \cup {x}
             /\ Obj(u, rows, x) = row
             /\ x \notin Reach(t, rows) => \A S : FillsOnly(t, u, rows, S)
             /\ u.new = t.new \cup {x} /\ u.created = t.created + 1
             /\ u.wrote = t.wrote /\ u.inserted = t.inserted
             /\ u.kind = t.kind /\ u.alias = t.alias /\ u.linked = t.linked
             /\ u.next = t.next /\ u.calm = t.calm
<1> DEFINE fresh == Only(x, row)
           u == AddedAll(t, fresh)
<1>1. DOMAIN fresh = {x} /\ fresh[x] = row
  BY OnlyAt
<1>2. Added(t, x, row) = u
  BY DEF Added
<1> HIDE DEF fresh
<1>3. IsFiniteSet(DOMAIN fresh) /\ Cardinality(DOMAIN fresh) = 1
  BY <1>1, FS_Singleton
<1>4. /\ u.new = t.new \cup {x} /\ u.created = t.created + 1
      /\ u.wrote = t.wrote /\ u.inserted = t.inserted
      /\ u.kind = t.kind /\ u.alias = t.alias /\ u.linked = t.linked
      /\ u.next = t.next /\ u.calm = t.calm
  BY <1>1, <1>3, AddedFields DEF Sound
<1>5. \A y \in DOMAIN fresh : IsRow(fresh[y])
  BY <1>1
<1>6. /\ Sound(u, rows)
      /\ \A y \in DOMAIN fresh : Obj(u, rows, y) = fresh[y]
      /\ \A y \in Reach(t, rows) \ DOMAIN fresh : Obj(u, rows, y) = Obj(t, rows, y)
      /\ Agrees(t, rows) /\ DOMAIN fresh \cap (DOMAIN rows \cup DOMAIN t.wrote) = {}
           => Agrees(u, rows)
  BY <1>3, <1>5, AddedKeeps
<1> HIDE DEF u
<1>7. Reach(u, rows) = Reach(t, rows) \cup {x}
  BY <1>4 DEF Reach
<1>8. x \notin Reach(t, rows) => \A S : FillsOnly(t, u, rows, S)
  BY <1>1, <1>4, <1>6, <1>7 DEF FillsOnly
<1>9. x \notin Reach(t, rows) => DOMAIN fresh \cap (DOMAIN rows \cup DOMAIN t.wrote) = {}
  BY <1>1 DEF Reach
<1> QED BY <1>1, <1>2, <1>4, <1>6, <1>7, <1>8, <1>9

-----------------------------------------------------------------------------
(* The plan of a master synchronisation.                                   *)

\* What is left of it from its k-th step on.
MasterFrom(k) == [i \in 1 .. 15 - k |-> MasterSteps[i + k - 1]]

\* The plan of a master synchronisation, from each of its steps.
LEMMA MasterTable ==
  /\ DOMAIN MasterSteps = 1 .. 14 /\ MasterSteps = [i \in 1 .. 14 |-> MasterSteps[i]]
  /\ MasterSteps[1] = "preflight" /\ MasterSteps[2] = "seed" /\ MasterSteps[3] = "flush"
  /\ MasterSteps[4] = "load" /\ MasterSteps[5] = "resolve"
  /\ MasterSteps[6] = "flushAirlines" /\ MasterSteps[7] = "airports"
  /\ MasterSteps[8] = "flush" /\ MasterSteps[9] = "link" /\ MasterSteps[10] = "flush"
  /\ MasterSteps[11] = "load" /\ MasterSteps[12] = "backfill"
  /\ MasterSteps[13] = "flush" /\ MasterSteps[14] = "commit"
<1>1. DOMAIN MasterSteps = 1 .. 14
  BY DEF MasterSteps
<1>2. MasterSteps = [i \in DOMAIN MasterSteps |-> MasterSteps[i]]
  BY DEF MasterSteps
<1>3. /\ MasterSteps[1] = "preflight" /\ MasterSteps[2] = "seed" /\ MasterSteps[3] = "flush"
      /\ MasterSteps[4] = "load" /\ MasterSteps[5] = "resolve"
      /\ MasterSteps[6] = "flushAirlines" /\ MasterSteps[7] = "airports"
  BY DEF MasterSteps
<1>4. /\ MasterSteps[8] = "flush" /\ MasterSteps[9] = "link" /\ MasterSteps[10] = "flush"
      /\ MasterSteps[11] = "load" /\ MasterSteps[12] = "backfill"
      /\ MasterSteps[13] = "flush" /\ MasterSteps[14] = "commit"
  BY DEF MasterSteps
<1> QED BY <1>1, <1>2, <1>3, <1>4

MasterNames == {MasterSteps[i] : i \in 1 .. 14}

LEMMA MasterLeft ==
  ASSUME NEW k \in 1 .. 14
  PROVE  /\ MasterFrom(k) # <<>> /\ Head(MasterFrom(k)) = MasterSteps[k]
         /\ MasterFrom(k) \in Seq(MasterNames) /\ Len(MasterFrom(k)) = 15 - k
<1>1. MasterFrom(k) \in Seq(MasterNames) /\ Len(MasterFrom(k)) = 15 - k
  <2>1. \A i \in 1 .. 15 - k : i + k - 1 \in 1 .. 14
    OBVIOUS
  <2>2. MasterFrom(k) \in [1 .. 15 - k -> MasterNames]
    BY <2>1 DEF MasterFrom, MasterNames
  <2>3. 15 - k \in Nat
    OBVIOUS
  <2> QED BY <2>2, <2>3
<1>2. Head(MasterFrom(k)) = MasterSteps[k]
  <2>1. MasterFrom(k)[1] = MasterSteps[k]
    BY DEF MasterFrom
  <2> QED BY <1>1, <2>1
<1> QED BY <1>1, <1>2

LEMMA MasterNext ==
  ASSUME NEW k \in 1 .. 13
  PROVE  Tail(MasterFrom(k)) = MasterFrom(k + 1)
<1> DEFINE f == MasterFrom(k)
           g == MasterFrom(k + 1)
<1>1. k \in 1 .. 14 /\ k + 1 \in 1 .. 14 /\ 15 - (k + 1) = 14 - k
  OBVIOUS
<1>2. /\ f \in Seq(MasterNames) /\ Len(f) = 15 - k /\ f # <<>>
      /\ g \in Seq(MasterNames) /\ Len(g) = 14 - k
  BY <1>1, MasterLeft
<1>3. /\ \A i \in 1 .. 14 - k : f[i + 1] = MasterSteps[i + k]
      /\ \A i \in 1 .. 14 - k : g[i] = MasterSteps[i + k]
  <2>1. ASSUME NEW i \in 1 .. 14 - k
        PROVE  f[i + 1] = MasterSteps[i + k] /\ g[i] = MasterSteps[i + k]
    <3>1. i + 1 \in 1 .. 15 - k /\ (i + 1) + k - 1 = i + k
      OBVIOUS
    <3>2. i \in 1 .. 15 - (k + 1) /\ i + (k + 1) - 1 = i + k
      OBVIOUS
    <3> QED BY <3>1, <3>2 DEF MasterFrom
  <2> QED BY <2>1
<1> HIDE DEF f, g
<1>4. /\ Tail(f) \in Seq(MasterNames) /\ Len(Tail(f)) = 14 - k
      /\ \A i \in 1 .. 14 - k : Tail(f)[i] = f[i + 1]
  BY <1>2, HeadTailProperties
<1>5. Tail(f) = g
  BY <1>2, <1>3, <1>4
<1> QED BY <1>5 DEF f, g

LEMMA MasterStarts == MasterFrom(1) = MasterSteps
<1>1. MasterSteps = [i \in 1 .. 14 |-> MasterSteps[i]]
  BY MasterTable
<1>2. \A i \in 1 .. 14 : MasterSteps[i + 1 - 1] = MasterSteps[i]
  OBVIOUS
<1> QED BY <1>1, <1>2 DEF MasterFrom

LEMMA MasterEnds ==
  ASSUME NEW k \in 1 .. 14, MasterFrom(k) = <<"commit">>
  PROVE  k = 14
<1>1. Len(MasterFrom(k)) = 1
  OBVIOUS
<1>2. Len(MasterFrom(k)) = 15 - k
  BY MasterLeft
<1> QED BY <1>1, <1>2

LEMMA ConcatIs ==
  ASSUME NEW S, NEW s1 \in Seq(S), NEW s2 \in Seq(S), NEW w \in Seq(S),
         Len(w) = Len(s1) + Len(s2),
         \A i \in 1 .. Len(w) : w[i] = IF i <= Len(s1) THEN s1[i] ELSE s2[i - Len(s1)]
  PROVE  s1 \o s2 = w
<1> DEFINE joined == s1 \o s2
<1>1. /\ joined \in Seq(S) /\ Len(joined) = Len(w)
      /\ \A i \in 1 .. Len(w) : joined[i] = w[i]
  BY ConcatProperties
<1> HIDE DEF joined
<1>2. joined = w
  BY <1>1
<1> QED BY <1>2 DEF joined

LEMMA MasterAgain == <<"load", "resolve">> \o MasterFrom(6) = MasterFrom(4)
<1> DEFINE front == <<"load", "resolve">>
           rest == MasterFrom(6)
           whole == MasterFrom(4)
<1>1. rest \in Seq(MasterNames) /\ Len(rest) = 9 /\ whole \in Seq(MasterNames) /\ Len(whole) = 11
  <2>1. 6 \in 1 .. 14 /\ 4 \in 1 .. 14 /\ 15 - 6 = 9 /\ 15 - 4 = 11
    OBVIOUS
  <2> QED BY <2>1, MasterLeft
<1>2. front \in Seq(MasterNames) /\ Len(front) = 2 /\ front[1] = "load" /\ front[2] = "resolve"
  <2>1. "load" \in MasterNames /\ "resolve" \in MasterNames
    BY MasterTable DEF MasterNames
  <2> QED BY <2>1
<1>3. /\ whole[1] = "load" /\ whole[2] = "resolve"
      /\ \A i \in 3 .. 11 : whole[i] = MasterSteps[i + 3] /\ rest[i - 2] = MasterSteps[i + 3]
  <2>1. whole[1] = "load" /\ whole[2] = "resolve"
    BY MasterTable DEF MasterFrom
  <2>2. ASSUME NEW i \in 3 .. 11
        PROVE  whole[i] = MasterSteps[i + 3] /\ rest[i - 2] = MasterSteps[i + 3]
    <3>1. /\ i \in 1 .. 15 - 4 /\ i + 4 - 1 = i + 3
          /\ i - 2 \in 1 .. 15 - 6 /\ (i - 2) + 6 - 1 = i + 3
      OBVIOUS
    <3> QED BY <3>1 DEF MasterFrom
  <2> QED BY <2>1, <2>2
<1> HIDE DEF front, rest, whole
<1>4. ASSUME NEW i \in 1 .. Len(whole)
      PROVE  whole[i] = IF i <= Len(front) THEN front[i] ELSE rest[i - Len(front)]
  <2>1. i = 1 \/ i = 2 \/ i \in 3 .. 11
    BY <1>1
  <2>2. CASE i = 1
    BY <1>2, <1>3, <2>2
  <2>3. CASE i = 2
    BY <1>2, <1>3, <2>3
  <2>4. CASE i \in 3 .. 11
    <3>1. ~(i <= 2)
      BY <2>4
    <3> QED BY <1>2, <1>3, <2>4, <3>1
  <2> QED BY <2>1, <2>2, <2>3, <2>4
<1>5. Len(whole) = Len(front) + Len(rest)
  BY <1>1, <1>2
<1>6. front \o rest = whole
  BY <1>1, <1>2, <1>4, <1>5, ConcatIs
<1> QED BY <1>6 DEF front, rest, whole

\* The step at hand says where the plan is.
LEMMA MasterAt ==
  ASSUME NEW k \in 1 .. 14
  PROVE  /\ MasterSteps[k] = "preflight" => k = 1
         /\ MasterSteps[k] = "seed" => k = 2
         /\ MasterSteps[k] = "load" => k \in {4, 11}
         /\ MasterSteps[k] = "resolve" => k = 5
         /\ MasterSteps[k] = "flushAirlines" => k = 6
         /\ MasterSteps[k] = "airports" => k = 7
         /\ MasterSteps[k] = "link" => k = 9
         /\ MasterSteps[k] = "backfill" => k = 12
         /\ MasterSteps[k] = "flush" => k \in {3, 8, 10, 13}
         /\ MasterSteps[k] = "commit" => k = 14
         /\ MasterSteps[k] \notin {"sync", "pairs", "item", "flushItem"}
<1>1. k \in {1, 2, 3, 4, 5, 6, 7, 8, 9, 10, 11, 12, 13, 14}
  OBVIOUS
<1> QED BY <1>1, MasterTable

\* A session that differs from a sound one in its aliases, keys or counters.
LEMMA SameWork ==
  ASSUME NEW t, NEW u, NEW R, Sound(t, R), DOMAIN u = TxFields,
         u.seen = t.seen, u.pend = t.pend, u.new = t.new, u.wrote = t.wrote,
         u.inserted = t.inserted, u.created = t.created, u.next \in Nat,
         u.keys \cap u.held = {},
         \A y \in DOMAIN u.alias : u.alias[y] \in Reach(t, R)
  PROVE  /\ Sound(u, R)
         /\ Reach(u, R) = Reach(t, R)
         /\ \A x : Obj(u, R, x) = Obj(t, R, x)
         /\ Agrees(t, R) => Agrees(u, R)
         /\ Kept(t, R) => Kept(u, R)
<1>1. /\ Reach(u, R) = Reach(t, R)
      /\ \A x : Obj(u, R, x) = Obj(t, R, x)
      /\ Agrees(t, R) => Agrees(u, R)
  BY SameTables
<1>2. Sound(u, R)
  BY <1>1 DEF Sound
<1>3. Kept(t, R) => Kept(u, R)
  BY <1>1 DEF Kept
<1> QED BY <1>1, <1>2, <1>3

-----------------------------------------------------------------------------
(* What a session is like at each step of its plan.                        *)

\* The transactions that may only fill gaps.
Fillers == {"master", "sync", "stage"}

\* The count is that of the airlines inserted, flushed or not.
Tally(t) ==
  /\ IsFiniteSet(t.new) /\ IsFiniteSet(t.inserted) /\ t.new \cap t.inserted = {}
  /\ t.created = Cardinality(t.new) + Cardinality(t.inserted)

\* A core airline has a row, or resolves to one that has a core airline.
Covered(t, R, c) ==
  c.active =>
    \E x \in Reach(t, R) :
      \/ Obj(t, R, x).core = c.id
      \/ c.slug \in DOMAIN t.alias /\ x = t.alias[c.slug] /\ Obj(t, R, x).core # Nothing

LinksHold(t, R) ==
  \A id \in t.linked : id # Nothing /\ \E x \in Reach(t, R) : Obj(t, R, x).core = id

\* Before the k-th step of a master synchronisation; C are the core airlines.
Phase(t, R, C, k) ==
  /\ Tally(t)
  /\ k <= 6 => t.inserted = {}
  /\ k \notin {5, 6, 12, 13} => t.new = {}
  /\ k \in {4, 11, 14} => DOMAIN t.pend = {} /\ DOMAIN t.seen = {}
  /\ k \in {5, 12} => t.new \cup t.inserted \subseteq DOMAIN t.alias
  /\ t.calm /\ k \in {5, 12} => DOMAIN R \subseteq DOMAIN t.alias
  /\ t.calm /\ k = 12 =>
       LinksHold(t, R) /\ \A i \in DOMAIN C : i < t.next => Covered(t, R, C[i])
  /\ t.calm /\ k \in {13, 14} => \A i \in DOMAIN C : Covered(t, R, C[i])

\* The steps of the other transactions, the last of which commits.
OtherSteps == {"preflight", "seed", "flush", "sync", "pairs", "item", "flushItem", "commit"}
Ending(s) == s \in Seq(OtherSteps) /\ s # <<>> /\ s[Len(s)] = "commit"

\* A session whose plan is s.
Work(t, R, C, s) ==
  /\ Sound(t, R)
  /\ t.calm /\ t.kind \in Fillers => Agrees(t, R) /\ Kept(t, R)
  /\ IF t.kind = "master" THEN \E k \in 1 .. 14 : s = MasterFrom(k) /\ Phase(t, R, C, k)
     ELSE Ending(s)

\* A step that does not commit leaves another one to do.
LEMMA EndingTail ==
  ASSUME NEW s, Ending(s), Head(s) # "commit"
  PROVE  Ending(Tail(s))
<1>1. /\ s \in Seq(OtherSteps) /\ s # <<>> /\ s[Len(s)] = "commit" /\ Len(s) \in Nat
      /\ Head(s) = s[1]
  BY DEF Ending
<1>2. Len(s) >= 2
  BY <1>1
<1>3. /\ Tail(s) \in Seq(OtherSteps) /\ Len(Tail(s)) = Len(s) - 1
      /\ \A i \in 1 .. Len(Tail(s)) : Tail(s)[i] = s[i + 1]
  BY <1>1, HeadTailProperties
<1>4. Tail(s)[Len(s) - 1] = s[Len(s)] /\ Tail(s) # <<>>
  <2>1. Len(s) - 1 \in 1 .. Len(Tail(s)) /\ (Len(s) - 1) + 1 = Len(s)
    BY <1>1, <1>2, <1>3
  <2>2. Tail(s)[Len(s) - 1] = s[(Len(s) - 1) + 1]
    BY <1>3, <2>1
  <2>3. Len(Tail(s)) # 0
    BY <1>1, <1>2, <1>3
  <2>4. Tail(s) # <<>>
    BY <1>3, <2>3, EmptySeq
  <2> QED BY <2>1, <2>2, <2>4
<1> QED BY <1>1, <1>3, <1>4 DEF Ending

\* The count goes up by what is added ...
LEMMA TallyAdds ==
  ASSUME NEW t, NEW u, NEW x, Tally(t), x \notin t.new \cup t.inserted,
         u.new = t.new \cup {x}, u.inserted = t.inserted, u.created = t.created + 1
  PROVE  Tally(u)
<1>1. IsFiniteSet(u.new) /\ Cardinality(u.new) = Cardinality(t.new) + 1
  BY FS_AddElement DEF Tally
<1>2. Cardinality(t.new) \in Nat /\ Cardinality(t.inserted) \in Nat
  BY FS_CardinalityType DEF Tally
<1> QED BY <1>1, <1>2 DEF Tally

\* ... and is the same after a flush.
LEMMA TallyFlushed ==
  ASSUME NEW t, NEW u, Tally(t), u.new = {}, u.inserted = t.inserted \cup t.new,
         u.created = t.created
  PROVE  Tally(u)
<1>1. /\ IsFiniteSet(t.inserted \cup t.new)
      /\ Cardinality(t.inserted \cup t.new)
           = Cardinality(t.inserted) + Cardinality(t.new) - Cardinality(t.inserted \cap t.new)
  BY FS_Union DEF Tally
<1>2. t.inserted \cap t.new = {}
  BY DEF Tally
<1>3. IsFiniteSet({}) /\ Cardinality({}) = 0
  BY FS_EmptySet
<1>4. Cardinality(t.new) \in Nat /\ Cardinality(t.inserted) \in Nat
  BY FS_CardinalityType DEF Tally
<1>5. t.created = Cardinality(t.new) + Cardinality(t.inserted)
  BY DEF Tally
<1>6. Cardinality(u.inserted) = Cardinality(t.inserted) + Cardinality(t.new)
  <2> DEFINE i == Cardinality(t.inserted)
             n == Cardinality(t.new)
  <2>1. Cardinality(u.inserted) = i + n - 0
    BY <1>1, <1>2, <1>3
  <2>2. i \in Nat /\ n \in Nat
    BY <1>4
  <2> QED BY <2>1, <2>2
<1>7. u.created = Cardinality(u.new) + Cardinality(u.inserted)
  BY <1>3, <1>4, <1>5, <1>6
<1>8. IsFiniteSet(u.new) /\ IsFiniteSet(u.inserted) /\ u.new \cap u.inserted = {}
  BY <1>1, <1>3
<1> QED BY <1>7, <1>8 DEF Tally

\* What fills gaps covers what was covered.
LEMMA CoveredKeeps ==
  ASSUME NEW t, NEW u, NEW R, FillsOnly(t, u, R, {"code", "norm", "country", "core"}),
         \A y \in DOMAIN t.alias : y \in DOMAIN u.alias /\ u.alias[y] = t.alias[y],
         NEW c, c.id # Nothing, Covered(t, R, c)
  PROVE  Covered(u, R, c)
<1>1. \A x \in Reach(t, R) : /\ x \in Reach(u, R)
                             /\ Obj(t, R, x).core # Nothing =>
                                  Obj(u, R, x).core = Obj(t, R, x).core
  BY DEF FillsOnly
<1> QED BY <1>1 DEF Covered

\* Coverage and links survive changes that leave the core airlines of rows.
LEMMA LinksKeep ==
  ASSUME NEW t, NEW u, NEW R, FillsOnly(t, u, R, {"code", "norm", "country", "core"}),
         u.linked = t.linked, LinksHold(t, R)
  PROVE  LinksHold(u, R)
<1>1. \A x \in Reach(t, R) : /\ x \in Reach(u, R)
                             /\ Obj(t, R, x).core # Nothing =>
                                  Obj(u, R, x).core = Obj(t, R, x).core
  BY DEF FillsOnly
<1> QED BY <1>1 DEF LinksHold

\* A step that is done, or not yet.
LEMMA Moves ==
  ASSUME NEW t, NEW u, NEW R, NEW C, NEW s, Work(t, R, C, s), Head(s) # "commit",
         u.kind = t.kind, Sound(u, R),
         u.calm /\ u.kind \in Fillers => Agrees(u, R) /\ Kept(u, R),
         \A k \in 1 .. 13 :
           t.kind = "master" /\ MasterSteps[k] = Head(s) /\ Phase(t, R, C, k)
             => Phase(u, R, C, k + 1)
  PROVE  Work(u, R, C, Tail(s))
<1>1. CASE t.kind = "master"
  <2>1. PICK k \in 1 .. 14 : s = MasterFrom(k) /\ Phase(t, R, C, k)
    BY <1>1 DEF Work
  <2>2. Head(s) = MasterSteps[k]
    BY <2>1, MasterLeft
  <2>3. k \in 1 .. 13
    <3>1. k # 14
      BY <2>2, MasterTable
    <3> QED BY <3>1
  <2>4. Tail(s) = MasterFrom(k + 1) /\ k + 1 \in 1 .. 14
    <3>1. Tail(MasterFrom(k)) = MasterFrom(k + 1)
      BY <2>3, MasterNext
    <3> QED BY <2>1, <2>3, <3>1
  <2>5. Phase(u, R, C, k + 1)
    BY <1>1, <2>1, <2>2, <2>3
  <2> QED BY <1>1, <2>4, <2>5 DEF Work
<1>2. CASE t.kind # "master"
  <2>1. Ending(Tail(s))
    BY <1>2, EndingTail DEF Work
  <2> QED BY <1>2, <2>1 DEF Work
<1> QED BY <1>1, <1>2

\* A step that leaves the objects of the session leaves its phase.
LEMMA Stays ==
  ASSUME NEW t, NEW u, NEW R, NEW C, NEW s, Work(t, R, C, s),
         u.kind = t.kind, Sound(u, R),
         u.calm /\ u.kind \in Fillers => Agrees(u, R) /\ Kept(u, R),
         \A k \in 1 .. 14 :
           t.kind = "master" /\ MasterSteps[k] = Head(s) /\ Phase(t, R, C, k)
             => Phase(u, R, C, k)
  PROVE  Work(u, R, C, s)
<1>1. CASE t.kind = "master"
  <2>1. PICK k \in 1 .. 14 : s = MasterFrom(k) /\ Phase(t, R, C, k)
    BY <1>1 DEF Work
  <2>2. Head(s) = MasterSteps[k]
    BY <2>1, MasterLeft
  <2>3. Phase(u, R, C, k)
    BY <1>1, <2>1, <2>2
  <2> QED BY <1>1, <2>1, <2>3 DEF Work
<1>2. CASE t.kind # "master"
  BY <1>2 DEF Work
<1> QED BY <1>1, <1>2

\* What a step at a name of the plan of a master can be.
LEMMA StepsOfOthers ==
  ASSUME NEW t, NEW R, NEW C, NEW s, Work(t, R, C, s), t.kind # "master"
  PROVE  s # <<>> /\ Head(s) \in OtherSteps
  BY DEF Work, Ending

\* Steps that only say which unique keys the next flush inserts.
LEMMA KeysMove ==
  ASSUME NEW t, NEW u, NEW R, NEW C, NEW s, Work(t, R, C, s),
         Head(s) \in {"preflight", "seed", "airports", "sync", "pairs", "item"},
         u.kind = t.kind, u.calm = t.calm, DOMAIN u = TxFields,
         u.seen = t.seen, u.pend = t.pend, u.new = t.new, u.wrote = t.wrote,
         u.inserted = t.inserted, u.created = t.created, u.alias = t.alias,
         u.next \in Nat, u.keys \cap u.held = {}
  PROVE  Work(u, R, C, Tail(s))
<1>1. /\ Sound(u, R)
      /\ Agrees(t, R) => Agrees(u, R)
      /\ Kept(t, R) => Kept(u, R)
  <2>1. Sound(t, R)
    BY DEF Work
  <2>2. \A y \in DOMAIN u.alias : u.alias[y] \in Reach(t, R)
    BY <2>1 DEF Sound
  <2> QED BY <2>1, <2>2, SameWork
<1>2. u.calm /\ u.kind \in Fillers => Agrees(u, R) /\ Kept(u, R)
  BY <1>1 DEF Work
<1>3. ASSUME NEW k \in 1 .. 13, MasterSteps[k] = Head(s), Phase(t, R, C, k)
      PROVE  Phase(u, R, C, k + 1)
  <2>1. k \in {1, 2, 7}
    BY <1>3, MasterAt
  <2> QED BY <1>3, <2>1 DEF Phase, Tally
<1> QED BY <1>1, <1>2, <1>3, Moves

\* A flush.
LEMMA FlushMoves ==
  ASSUME NEW t, NEW C, NEW s, Work(t, rows, C, s), TableOf(rows),
         Head(s) \in {"flush", "flushAirlines", "flushItem"}
  PROVE  Work(Flushed(t), rows, C, Tail(s))
<1> DEFINE u == Flushed(t)
<1>0. Sound(t, rows) /\ DOMAIN t = TxFields
  BY DEF Work, Sound
<1>1. /\ u.wrote = Over(t.wrote, t.pend) /\ u.inserted = t.inserted \cup t.new
      /\ u.seen = None /\ u.pend = None /\ u.new = {}
      /\ u.kind = t.kind /\ u.alias = t.alias /\ u.linked = t.linked
      /\ u.next = t.next /\ u.created = t.created /\ u.calm = t.calm
  BY <1>0, FlushedFields
<1>2. /\ Sound(u, rows)
      /\ Reach(u, rows) = Reach(t, rows)
      /\ Agrees(u, rows)
      /\ Agrees(t, rows) =>
           \A x \in Reach(t, rows) : /\ Over(rows, u.wrote)[x] = Obj(t, rows, x)
                                     /\ Obj(u, rows, x) = Obj(t, rows, x)
  BY <1>0, FlushedKeeps
<1> HIDE DEF u
<1>3. Agrees(t, rows) /\ Kept(t, rows) => Kept(u, rows)
  <2> SUFFICES ASSUME Agrees(t, rows), Kept(t, rows), NEW x \in DOMAIN rows,
                      NEW f \in GapFields, rows[x][f] # Nothing
               PROVE  Over(rows, u.wrote)[x][f] = rows[x][f] /\ Obj(u, rows, x)[f] = rows[x][f]
    BY DEF Kept
  <2>1. x \in Reach(t, rows)
    BY DEF Reach
  <2>2. Obj(t, rows, x)[f] = rows[x][f]
    BY DEF Kept
  <2> QED BY <1>2, <2>1, <2>2
<1>4. u.calm /\ u.kind \in Fillers => Agrees(u, rows) /\ Kept(u, rows)
  BY <1>1, <1>2, <1>3 DEF Work
<1>5. ASSUME t.kind = "master", NEW k \in 1 .. 13, MasterSteps[k] = Head(s), Phase(t, rows, C, k)
      PROVE  Phase(u, rows, C, k + 1)
  <2>1. k \in {3, 6, 8, 10, 13}
    BY <1>5, MasterAt
  <2>2. Tally(u)
    BY <1>1, <1>5, TallyFlushed DEF Phase
  <2>3. DOMAIN u.pend = {} /\ DOMAIN u.seen = {}
    BY <1>1, NoneIsEmpty
  <2>4. k + 1 <= 6 => u.inserted = {}
    BY <1>1, <1>5, <2>1 DEF Phase
  <2>5. ASSUME u.calm, k + 1 \in {13, 14}, NEW i \in DOMAIN C
        PROVE  Covered(u, rows, C[i])
    <3>1. k = 13 /\ Covered(t, rows, C[i])
      BY <1>1, <1>5, <2>1, <2>5 DEF Phase
    <3>2. Agrees(t, rows)
      BY <1>1, <1>5, <2>5 DEF Work, Fillers
    <3>3. \A x \in Reach(t, rows) : x \in Reach(u, rows) /\ Obj(u, rows, x) = Obj(t, rows, x)
      BY <1>2, <3>2
    <3> QED BY <1>1, <3>1, <3>3 DEF Covered
  <2>6. k + 1 \notin {5, 12}
    BY <2>1
  <2> QED BY <1>1, <2>2, <2>3, <2>4, <2>5, <2>6 DEF Phase
<1>6. Head(s) # "commit"
  OBVIOUS
<1>7. Work(u, rows, C, Tail(s))
  BY <1>1, <1>2, <1>4, <1>5, <1>6, Moves
<1> QED BY <1>7 DEF u

-----------------------------------------------------------------------------
(* The steps of a master synchronisation.                                  *)

\* What the lookup finds is in the tables.
LEMMA LoadMoves ==
  ASSUME NEW t, NEW u, NEW C, NEW s, NEW S, C \in Seq(S), Work(t, rows, C, s), TableOf(rows),
         Head(s) = "load", NEW v, v = Over(rows, t.wrote),
         DOMAIN u = TxFields, u.seen = v, u.alias = Same(v), u.next = 1,
         u.linked = {v[x].core : x \in DOMAIN v} \ {Nothing},
         u.kind = t.kind, u.pend = t.pend, u.new = t.new, u.wrote = t.wrote,
         u.inserted = t.inserted, u.created = t.created, u.calm = t.calm,
         u.keys = t.keys, u.held = t.held
  PROVE  Work(u, rows, C, Tail(s))
<1>1. t.kind = "master"
  BY StepsOfOthers DEF OtherSteps
<1>2. PICK k \in 1 .. 14 : s = MasterFrom(k) /\ Phase(t, rows, C, k)
  BY <1>1 DEF Work
<1>3. k \in {4, 11}
  <2>1. MasterSteps[k] = "load"
    BY <1>2, MasterLeft
  <2> QED BY <2>1, MasterAt
<1>4. Sound(t, rows) /\ DOMAIN t.pend = {} /\ t.new = {}
  BY <1>2, <1>3 DEF Work, Phase
<1>5. /\ DOMAIN v = DOMAIN rows \cup DOMAIN t.wrote
      /\ \A x \in DOMAIN v : IsRow(v[x])
  BY <1>4, VisibleRows
<1>6. Reach(u, rows) = DOMAIN v /\ Reach(t, rows) = DOMAIN v
  BY <1>4, <1>5 DEF Reach
<1>7. DOMAIN u.alias = DOMAIN v /\ \A x \in DOMAIN v : u.alias[x] = x
  BY DEF Same
<1>8. Sound(u, rows)
  BY <1>4, <1>5, <1>6, <1>7 DEF Sound, Reach
<1>9. \A x \in DOMAIN v : Obj(u, rows, x) = v[x]
  BY DEF Obj
<1>10. Agrees(u, rows)
  BY <1>4, <1>6, <1>9 DEF Agrees, Over
<1>11. Kept(t, rows) => Kept(u, rows)
  BY <1>5, <1>9 DEF Kept
<1>12. \A j \in 1 .. 13 :
         t.kind = "master" /\ MasterSteps[j] = Head(s) /\ Phase(t, rows, C, j)
           => Phase(u, rows, C, j + 1)
  <2> SUFFICES ASSUME NEW j \in 1 .. 13, MasterSteps[j] = "load", Phase(t, rows, C, j)
               PROVE  Phase(u, rows, C, j + 1)
    OBVIOUS
  <2>1. j \in {4, 11}
    BY MasterAt
  <2>2. Tally(u)
    BY <1>2 DEF Phase, Tally
  <2>3. j + 1 <= 6 => u.inserted = {}
    BY <2>1 DEF Phase
  <2>4. u.new \cup u.inserted \subseteq DOMAIN u.alias /\ DOMAIN rows \subseteq DOMAIN u.alias
    BY <1>4, <1>5, <1>7 DEF Sound
  <2>5. LinksHold(u, rows)
    BY <1>6, <1>9 DEF LinksHold
  <2>6. ~ \E i \in DOMAIN C : i < u.next
    <3>1. DOMAIN C = 1 .. Len(C)
      OBVIOUS
    <3> QED BY <3>1
  <2>7. j + 1 \in {5, 12}
    BY <2>1
  <2> QED BY <1>4, <2>2, <2>3, <2>4, <2>5, <2>6, <2>7 DEF Phase
<1>13. u.calm /\ u.kind \in Fillers => Agrees(u, rows) /\ Kept(u, rows)
  BY <1>10, <1>11 DEF Work
<1> QED BY <1>8, <1>12, <1>13, Moves

\* What a feed entry changes fills gaps, of a name that may be replaced.
LEMMA MergedFills ==
  ASSUME NEW row, IsRow(row), NEW e \in [slug : STRING, code : Text]
  PROVE  /\ Columns(Merged(row, e))
         /\ \A f \in GapFields \cap DOMAIN Merged(row, e) : row[f] = Nothing
<1> DEFINE a == Gap(row, "code", e.code)
           b == Gap(row, "country", "feed")
           c == Gap(row, "norm", e.slug)
           d == IF <<e.slug, row.name>> \in world.longer THEN Only("name", e.slug) ELSE None
<1>1. /\ e.code \in Values("code") /\ "feed" \in Values("country")
      /\ e.slug \in Values("norm") /\ e.slug \in Values("name")
      /\ {"code", "country", "norm", "name"} \subseteq Fields
  BY ValuesAre DEF Text, Fields
<1>2. /\ Columns(a) /\ DOMAIN a \subseteq {"code"}
      /\ row["code"] # Nothing => DOMAIN a = {}
  BY <1>1, GapAt
<1>3. /\ Columns(b) /\ DOMAIN b \subseteq {"country"}
      /\ row["country"] # Nothing => DOMAIN b = {}
  BY <1>1, GapAt
<1>4. /\ Columns(c) /\ DOMAIN c \subseteq {"norm"}
      /\ row["norm"] # Nothing => DOMAIN c = {}
  BY <1>1, GapAt
<1>5. Columns(d) /\ DOMAIN d \subseteq {"name"}
  BY <1>1, ColumnsJoin, OnlyAt, NoneIsEmpty
<1>6. Merged(row, e) = ((a ++ b) ++ c) ++ d
  BY DEF Merged
<1> HIDE DEF a, b, c, d
<1>7. Columns(((a ++ b) ++ c) ++ d)
  <2>1. Columns(a ++ b)
    BY <1>2, <1>3, ColumnsJoin
  <2>2. Columns((a ++ b) ++ c)
    BY <1>4, <2>1, ColumnsJoin
  <2> QED BY <1>5, <2>2, ColumnsJoin
<1>8. DOMAIN (((a ++ b) ++ c) ++ d) = DOMAIN a \cup DOMAIN b \cup DOMAIN c \cup DOMAIN d
  BY DEF ++
<1>9. \A f \in GapFields \cap (DOMAIN a \cup DOMAIN b \cup DOMAIN c \cup DOMAIN d) :
        row[f] = Nothing
  BY <1>2, <1>3, <1>4, <1>5 DEF GapFields
<1> QED BY <1>6, <1>7, <1>8, <1>9

\* Only a master synchronisation has these steps.
LEMMA PhaseAt ==
  ASSUME NEW t, NEW R, NEW C, NEW s, Work(t, R, C, s)
  PROVE  /\ Head(s) = "resolve" => t.kind = "master" /\ Phase(t, R, C, 5)
         /\ Head(s) = "flushAirlines" => t.kind = "master" /\ Phase(t, R, C, 6)
                                         /\ s = MasterFrom(6)
         /\ Head(s) = "link" => t.kind = "master" /\ Phase(t, R, C, 9)
         /\ Head(s) = "backfill" => t.kind = "master" /\ Phase(t, R, C, 12)
         /\ Head(s) = "commit" /\ t.kind = "master" => Phase(t, R, C, 14)
         /\ s # <<>>
<1>1. CASE t.kind = "master"
  <2>1. PICK k \in 1 .. 14 : s = MasterFrom(k) /\ Phase(t, R, C, k)
    BY <1>1 DEF Work
  <2>2. Head(s) = MasterSteps[k] /\ s # <<>>
    BY <2>1, MasterLeft
  <2>3. /\ Head(s) = "resolve" => k = 5
        /\ Head(s) = "flushAirlines" => k = 6
        /\ Head(s) = "link" => k = 9
        /\ Head(s) = "backfill" => k = 12
        /\ Head(s) = "commit" => k = 14
    BY <2>2, MasterAt
  <2> QED BY <1>1, <2>1, <2>2, <2>3
<1>2. CASE t.kind # "master"
  <2>1. s # <<>> /\ Head(s) \in OtherSteps
    BY <1>2, StepsOfOthers
  <2> QED BY <1>2, <2>1 DEF OtherSteps
<1> QED BY <1>1, <1>2

LEMMA ResolveMoves ==
  ASSUME NEW t, NEW u, NEW C, NEW s, Work(t, rows, C, s), Head(s) = "resolve",
         u.kind = t.kind, u.calm = t.calm, Sound(u, rows),
         t.calm /\ Agrees(t, rows) /\ Kept(t, rows) => Agrees(u, rows) /\ Kept(u, rows),
         Tally(u), u.inserted = t.inserted,
         DOMAIN t.alias \subseteq DOMAIN u.alias, u.new \subseteq t.new \cup DOMAIN u.alias
  PROVE  Work(u, rows, C, s) /\ Work(u, rows, C, Tail(s))
<1>1. t.kind = "master" /\ Phase(t, rows, C, 5)
  BY PhaseAt
<1>2. u.calm /\ u.kind \in Fillers => Agrees(u, rows) /\ Kept(u, rows)
  BY DEF Work
<1>3. Phase(u, rows, C, 5) /\ Phase(u, rows, C, 6)
  BY <1>1 DEF Phase
<1>4. ASSUME NEW k \in 1 .. 14, MasterSteps[k] = Head(s)
      PROVE  Phase(u, rows, C, k) /\ Phase(u, rows, C, k + 1)
  <2>1. k = 5
    BY <1>4, MasterAt
  <2> QED BY <1>3, <2>1
<1>5. Work(u, rows, C, s)
  BY <1>2, <1>4, Stays
<1>6. Work(u, rows, C, Tail(s))
  BY <1>2, <1>4, Moves
<1> QED BY <1>5, <1>6

\* What the code or the name of an airline finds is in the tables.
LEMMA SemanticFinds ==
  ASSUME NEW p, NEW code, NEW name
  PROVE  \A x \in Semantic(p, code, name) : x \in Reach(tx[p], rows)
<1>1. DOMAIN Visible(p) = DOMAIN rows \cup DOMAIN tx[p].wrote
  BY DEF Visible, Over
<1> QED BY <1>1 DEF Semantic, Reach

\* Fields of a session, but for its aliases and the entry at hand.
LEMMA NextFields ==
  ASSUME NEW t, NEW a, DOMAIN t = TxFields
  PROVE  LET u == [t EXCEPT !.next = @ + 1]
             v == [u EXCEPT !.alias = a]
         IN  /\ DOMAIN u = TxFields /\ u.next = t.next + 1
             /\ u.seen = t.seen /\ u.pend = t.pend /\ u.new = t.new /\ u.wrote = t.wrote
             /\ u.inserted = t.inserted /\ u.created = t.created /\ u.alias = t.alias
             /\ u.kind = t.kind /\ u.calm = t.calm /\ u.keys = t.keys /\ u.held = t.held
             /\ u.linked = t.linked
             /\ DOMAIN v = TxFields /\ v.next = t.next + 1
             /\ v.seen = t.seen /\ v.pend = t.pend /\ v.new = t.new /\ v.wrote = t.wrote
             /\ v.inserted = t.inserted /\ v.created = t.created /\ v.alias = a
             /\ v.kind = t.kind /\ v.calm = t.calm /\ v.keys = t.keys /\ v.held = t.held
             /\ v.linked = t.linked
  BY DEF TxFields

\* An alias is added to what a lookup knows.
LEMMA AliasAt ==
  ASSUME NEW a, NEW y, NEW x
  PROVE  /\ DOMAIN (a ++ Only(y, x)) = DOMAIN a \cup {y}
         /\ \A z \in DOMAIN a : (a ++ Only(y, x))[z] = a[z]
         /\ y \notin DOMAIN a => (a ++ Only(y, x))[y] = x
  BY DEF ++, Only

\* One turn of resolve_airline_identity.
LEMMA ResolvedMoves ==
  ASSUME NEW p \in Procs, DOMAIN tx = Procs, NEW C, NEW s,
         Work(tx[p], rows, C, s), TableOf(rows), Head(s) = "resolve",
         NEW e \in [slug : STRING, code : Text], Resolved(p, e)
  PROVE  Work(tx'[p], rows, C, s) /\ Work(tx'[p], rows, C, Tail(s))
<1> DEFINE t0 == tx[p]
           t == [t0 EXCEPT !.next = @ + 1]
           found == IF e.slug \in DOMAIN t.alias THEN {t.alias[e.slug]}
                    ELSE Semantic(p, e.code, e.slug)
<1>1. /\ t0.kind = "master" /\ Phase(t0, rows, C, 5) /\ Sound(t0, rows)
      /\ DOMAIN t0 = TxFields
  BY PhaseAt DEF Work, Sound
<1>2. /\ DOMAIN t = TxFields /\ t.next = t0.next + 1
      /\ t.seen = t0.seen /\ t.pend = t0.pend /\ t.new = t0.new /\ t.wrote = t0.wrote
      /\ t.inserted = t0.inserted /\ t.created = t0.created /\ t.alias = t0.alias
      /\ t.kind = t0.kind /\ t.calm = t0.calm /\ t.keys = t0.keys /\ t.held = t0.held
  BY <1>1, NextFields
<1>3. t0.next + 1 \in Nat
  BY <1>1 DEF Sound
<1>4. \A x \in found : x \in Reach(t0, rows)
  <2>1. CASE e.slug \in DOMAIN t0.alias
    BY <1>1, <1>2, <2>1 DEF Sound
  <2>2. CASE e.slug \notin DOMAIN t0.alias
    BY <1>2, <2>2, SemanticFinds
  <2> QED BY <2>1, <2>2
<1>5. ASSUME NEW x \in found,
             Session(p, Changed(p, [t EXCEPT !.alias = @ ++ Only(e.slug, x)],
                                x, Merged(Object(p, t, x), e)))
      PROVE  Work(tx'[p], rows, C, s) /\ Work(tx'[p], rows, C, Tail(s))
  <2> DEFINE a == t0.alias ++ Only(e.slug, x)
             w == [t EXCEPT !.alias = a]
             c == Merged(Object(p, t, x), e)
             u == Changed(p, w, x, c)
  <2>1. tx'[p] = u
    BY <1>2, <1>5 DEF Session
  <2>2. /\ DOMAIN w = TxFields /\ w.next = t0.next + 1
        /\ w.seen = t0.seen /\ w.pend = t0.pend /\ w.new = t0.new /\ w.wrote = t0.wrote
        /\ w.inserted = t0.inserted /\ w.created = t0.created /\ w.alias = a
        /\ w.kind = t0.kind /\ w.calm = t0.calm /\ w.keys = t0.keys /\ w.held = t0.held
    BY <1>1, NextFields
  <2>3. x \in Reach(t0, rows)
    BY <1>4, <1>5
  <2>4. \A y \in DOMAIN a : a[y] \in Reach(t0, rows)
    BY <1>1, <2>3 DEF Sound, ++, Only
  <2>5. DOMAIN t0.alias \subseteq DOMAIN a
    BY DEF ++
  <2>6. t0.keys \cap t0.held = {}
    BY <1>1 DEF Sound
  <2> HIDE DEF a, w
  <2>7. /\ Sound(w, rows) /\ Reach(w, rows) = Reach(t0, rows)
        /\ \A y : Obj(w, rows, y) = Obj(t0, rows, y)
        /\ Agrees(t0, rows) => Agrees(w, rows)
        /\ Kept(t0, rows) => Kept(w, rows)
    BY <1>1, <1>3, <2>2, <2>4, <2>6, SameWork
  <2>8. Object(p, t, x) = Obj(w, rows, x)
    BY <1>2, <2>2 DEF Object, Obj, Visible
  <2>9. IsRow(Obj(w, rows, x))
    BY <2>3, <2>7, VisibleRows
  <2>10. Columns(c) /\ \A f \in GapFields \cap DOMAIN c : Obj(w, rows, x)[f] = Nothing
    BY <2>8, <2>9, MergedFills
  <2> HIDE DEF c
  <2>11. GapFields \in SUBSET Fields
    BY DEF GapFields, Fields
  <2>12. /\ Sound(u, rows)
         /\ Agrees(w, rows) => Agrees(u, rows)
         /\ FillsOnly(w, u, rows, GapFields)
         /\ u.wrote = w.wrote /\ u.new = w.new /\ u.inserted = w.inserted
         /\ u.kind = w.kind /\ u.alias = w.alias /\ u.created = w.created /\ u.calm = w.calm
    BY <2>2, <2>3, <2>7, <2>10, <2>11, ChangedKeeps
  <2> HIDE DEF u
  <2>13. Kept(w, rows) => Kept(u, rows)
    BY <2>12, FillsKeeps
  <2>14. Tally(u)
    BY <1>1, <2>2, <2>12 DEF Phase, Tally
  <2>15. u.kind = t0.kind /\ u.calm = t0.calm /\ u.inserted = t0.inserted
         /\ DOMAIN t0.alias \subseteq DOMAIN u.alias /\ u.new \subseteq t0.new \cup DOMAIN u.alias
    BY <2>2, <2>5, <2>12
  <2>16. t0.calm /\ Agrees(t0, rows) /\ Kept(t0, rows) => Agrees(u, rows) /\ Kept(u, rows)
    BY <2>7, <2>12, <2>13
  <2>17. Work(u, rows, C, s) /\ Work(u, rows, C, Tail(s))
    BY <2>12, <2>14, <2>15, <2>16, ResolveMoves
  <2> QED BY <2>1, <2>17
<1>6. ASSUME found = {},
             Session(p, Added([t EXCEPT !.alias = @ ++ Only(e.slug, e.slug)], e.slug,
               NewRow(e.slug, e.code, e.slug, Nothing, "feed", {})))
      PROVE  Work(tx'[p], rows, C, s) /\ Work(tx'[p], rows, C, Tail(s))
  <2> DEFINE a == t0.alias ++ Only(e.slug, e.slug)
             w == [t EXCEPT !.alias = a]
             row == NewRow(e.slug, e.code, e.slug, Nothing, "feed", {})
             x == e.slug
             u == Added(w, x, row)
             b == Added(t, x, row)
  <2>1. tx'[p] = u
    BY <1>2, <1>6 DEF Session
  <2>2. /\ DOMAIN w = TxFields /\ w.next = t0.next + 1
        /\ w.seen = t0.seen /\ w.pend = t0.pend /\ w.new = t0.new /\ w.wrote = t0.wrote
        /\ w.inserted = t0.inserted /\ w.created = t0.created /\ w.alias = a
        /\ w.kind = t0.kind /\ w.calm = t0.calm /\ w.keys = t0.keys /\ w.held = t0.held
    BY <1>1, NextFields
  <2>3. x \notin DOMAIN t0.alias
    BY <1>2, <1>6
  <2>4. DOMAIN a = DOMAIN t0.alias \cup {x} /\ a[x] = x
        /\ \A y \in DOMAIN t0.alias : a[y] = t0.alias[y]
    BY <2>3, AliasAt
  <2>5. IsRow(row)
    BY NewRowIsRow DEF Text
  <2>6. t0.keys \cap t0.held = {} /\ \A y \in DOMAIN t0.alias : t0.alias[y] \in Reach(t0, rows)
    BY <1>1 DEF Sound
  <2> HIDE DEF a, w, t, row, x
  <2>7. /\ Sound(t, rows) /\ Reach(t, rows) = Reach(t0, rows)
        /\ Agrees(t0, rows) => Agrees(t, rows)
        /\ Kept(t0, rows) => Kept(t, rows)
    BY <1>1, <1>2, <1>3, <2>6, SameWork
  <2>8. /\ Sound(b, rows)
        /\ Agrees(t, rows) /\ x \notin Reach(t, rows) => Agrees(b, rows)
        /\ Reach(b, rows) = Reach(t, rows) \cup {x}
        /\ x \notin Reach(t, rows) => FillsOnly(t, b, rows, GapFields)
        /\ b.new = t.new \cup {x} /\ b.created = t.created + 1
        /\ b.wrote = t.wrote /\ b.inserted = t.inserted
    BY <2>5, <2>7, AddedOne
  <2>9. /\ DOMAIN u = TxFields /\ u.seen = b.seen /\ u.pend = b.pend /\ u.new = b.new
        /\ u.created = b.created /\ u.wrote = b.wrote /\ u.inserted = b.inserted
        /\ u.next = w.next /\ u.keys = w.keys /\ u.held = w.held /\ u.alias = w.alias
        /\ u.kind = w.kind /\ u.calm = w.calm
    <3>1. /\ DOMAIN u = TxFields
          /\ u.seen = Only(x, row) ++ w.seen /\ u.pend = Only(x, row) ++ w.pend
          /\ u.new = w.new \cup DOMAIN Only(x, row)
          /\ u.created = w.created + Cardinality(DOMAIN Only(x, row))
          /\ u.wrote = w.wrote /\ u.inserted = w.inserted
          /\ u.next = w.next /\ u.keys = w.keys /\ u.held = w.held /\ u.alias = w.alias
          /\ u.kind = w.kind /\ u.calm = w.calm
      BY <2>2, AddedFields DEF Added
    <3>2. /\ b.seen = Only(x, row) ++ t.seen /\ b.pend = Only(x, row) ++ t.pend
          /\ b.new = t.new \cup DOMAIN Only(x, row)
          /\ b.created = t.created + Cardinality(DOMAIN Only(x, row))
          /\ b.wrote = t.wrote /\ b.inserted = t.inserted
      BY <1>2, AddedFields DEF Added
    <3> QED BY <1>2, <2>2, <3>1, <3>2
  <2> HIDE DEF u, b
  <2>10. \A y \in DOMAIN a : a[y] \in Reach(b, rows)
    BY <2>4, <2>6, <2>7, <2>8
  <2>11. /\ Sound(u, rows)
         /\ Agrees(b, rows) => Agrees(u, rows)
         /\ Kept(b, rows) => Kept(u, rows)
    <3>1. u.next \in Nat /\ u.keys \cap u.held = {}
      BY <1>3, <2>2, <2>6, <2>9
    <3>2. \A y \in DOMAIN u.alias : u.alias[y] \in Reach(b, rows)
      BY <2>2, <2>9, <2>10
    <3> QED BY <2>8, <2>9, <3>1, <3>2, SameWork
  <2>12. Tally(u)
    <3>1. Tally(t0) /\ x \notin t0.new \cup t0.inserted
      BY <1>1, <2>3 DEF Phase
    <3>2. u.new = t0.new \cup {x} /\ u.inserted = t0.inserted /\ u.created = t0.created + 1
      BY <1>2, <2>8, <2>9
    <3> QED BY <3>1, <3>2, TallyAdds
  <2>13. ASSUME t0.calm, Agrees(t0, rows), Kept(t0, rows)
         PROVE  Agrees(u, rows) /\ Kept(u, rows)
    <3>1. x \notin Reach(t0, rows)
      <4>1. DOMAIN t0.wrote \subseteq DOMAIN rows \cup t0.inserted
        BY <1>1 DEF Sound
      <4>2. t0.new \cup t0.inserted \cup DOMAIN rows \subseteq DOMAIN t0.alias
        BY <1>1, <2>13 DEF Phase
      <4> QED BY <2>3, <4>1, <4>2 DEF Reach
    <3>2. Kept(b, rows)
      BY <2>7, <2>8, <2>13, <3>1, FillsKeeps
    <3> QED BY <2>7, <2>8, <2>11, <2>13, <3>1, <3>2
  <2>14. u.kind = t0.kind /\ u.calm = t0.calm /\ u.inserted = t0.inserted
         /\ DOMAIN t0.alias \subseteq DOMAIN u.alias /\ u.new \subseteq t0.new \cup DOMAIN u.alias
    BY <1>2, <2>2, <2>4, <2>8, <2>9
  <2>15. Work(u, rows, C, s) /\ Work(u, rows, C, Tail(s))
    BY <2>11, <2>12, <2>13, <2>14, ResolveMoves
  <2> QED BY <2>1, <2>15
<1> QED BY <1>5, <1>6 DEF Resolved

\* Back to the savepoint: nothing of the first attempt is left.
LEMMA RecoverMoves ==
  ASSUME NEW t, NEW u, NEW C, NEW s, Work(t, rows, C, s), Head(s) = "flushAirlines",
         DOMAIN u = TxFields, u.seen = None, u.alias = None, u.pend = None, u.new = {},
         u.created = 0, u.kind = t.kind, u.wrote = t.wrote, u.inserted = t.inserted,
         u.held = t.held, u.keys = t.keys, u.next = t.next, u.calm = t.calm
  PROVE  Work(u, rows, C, <<"load", "resolve">> \o s)
<1>1. t.kind = "master" /\ Phase(t, rows, C, 6) /\ s = MasterFrom(6) /\ Sound(t, rows)
  BY PhaseAt DEF Work
<1>2. DOMAIN u.seen = {} /\ DOMAIN u.pend = {} /\ DOMAIN u.alias = {}
  BY NoneIsEmpty
<1>3. u.inserted = {}
  BY <1>1 DEF Phase
<1>4. Sound(u, rows)
  BY <1>1, <1>2, <1>3 DEF Sound, Reach
<1>5. \A x \in Reach(u, rows) : Obj(u, rows, x) = Over(rows, u.wrote)[x]
  BY <1>2 DEF Obj
<1>6. Agrees(u, rows)
  <2> SUFFICES ASSUME NEW x \in Reach(u, rows)
               PROVE  Over(Over(rows, u.wrote), u.pend)[x] = Obj(u, rows, x)
    BY DEF Agrees
  <2> DEFINE T == Over(rows, u.wrote)
  <2>1. x \in DOMAIN T
    BY DEF Reach, Over
  <2> HIDE DEF T
  <2>2. Over(T, u.pend)[x] = T[x]
    BY <1>2, <2>1 DEF Over
  <2> QED BY <1>5, <2>2 DEF T
<1>7. Kept(t, rows) => Kept(u, rows)
  <2> SUFFICES ASSUME Kept(t, rows), NEW x \in DOMAIN rows, NEW f \in GapFields,
                      rows[x][f] # Nothing
               PROVE  Over(rows, u.wrote)[x][f] = rows[x][f] /\ Obj(u, rows, x)[f] = rows[x][f]
    BY DEF Kept
  <2>1. x \in Reach(u, rows)
    BY DEF Reach
  <2> QED BY <1>5, <2>1 DEF Kept
<1>8. Tally(u)
  <2>1. IsFiniteSet({}) /\ Cardinality({}) = 0
    BY FS_EmptySet
  <2> QED BY <1>3, <2>1 DEF Tally
<1>9. Phase(u, rows, C, 4)
  BY <1>2, <1>3, <1>8 DEF Phase
<1>10. <<"load", "resolve">> \o s = MasterFrom(4)
  BY <1>1, MasterAgain
<1>11. u.calm /\ u.kind \in Fillers => Agrees(u, rows) /\ Kept(u, rows)
  BY <1>6, <1>7 DEF Work
<1> QED BY <1>1, <1>4, <1>9, <1>10, <1>11 DEF Work

\* The columns that the backfill may only fill.
BackfillFields == {"code", "norm", "country", "core"}

LEMMA BackfillMoves ==
  ASSUME NEW t, NEW u, NEW C, NEW s, Work(t, rows, C, s), Head(s) = "backfill",
         NEW S, C \in Seq(S), \A i \in DOMAIN C : C[i].id # Nothing,
         u.kind = t.kind, u.calm = t.calm, Sound(u, rows), u.next = t.next + 1,
         t.calm /\ Agrees(t, rows) => Agrees(u, rows) /\ FillsOnly(t, u, rows, BackfillFields),
         Tally(u), u.inserted = t.inserted, u.linked = t.linked,
         \A y \in DOMAIN t.alias : y \in DOMAIN u.alias /\ u.alias[y] = t.alias[y],
         u.new \subseteq t.new \cup DOMAIN u.alias,
         t.calm /\ t.next \in DOMAIN C => Covered(u, rows, C[t.next])
  PROVE  /\ Work(u, rows, C, s)
         /\ t.next >= Len(C) => Work(u, rows, C, Tail(s))
<1>1. t.kind = "master" /\ Phase(t, rows, C, 12) /\ Sound(t, rows)
  BY PhaseAt DEF Work
<1>2. t.calm => Agrees(t, rows) /\ Kept(t, rows)
  BY <1>1 DEF Work, Fillers
<1>3. t.calm => Kept(u, rows)
  <2>1. GapFields \subseteq BackfillFields
    BY DEF GapFields, BackfillFields
  <2> QED BY <1>2, <2>1, FillsKeeps
<1>4. u.calm /\ u.kind \in Fillers => Agrees(u, rows) /\ Kept(u, rows)
  BY <1>2, <1>3
<1>5. DOMAIN C = 1 .. Len(C) /\ Len(C) \in Nat /\ t.next \in Nat
  BY <1>1 DEF Sound
<1>6. ASSUME t.calm, NEW i \in DOMAIN C, i < u.next PROVE Covered(u, rows, C[i])
  <2>1. CASE i = t.next
    BY <1>6, <2>1
  <2>2. CASE i < t.next
    <3>1. Covered(t, rows, C[i])
      BY <1>1, <1>6, <2>2 DEF Phase
    <3>2. FillsOnly(t, u, rows, {"code", "norm", "country", "core"})
      BY <1>2, <1>6 DEF BackfillFields
    <3> QED BY <3>1, <3>2, CoveredKeeps
  <2> QED BY <1>5, <1>6, <2>1, <2>2
<1>7. ASSUME t.calm PROVE LinksHold(u, rows)
  <2>1. LinksHold(t, rows)
    BY <1>1, <1>7 DEF Phase
  <2>2. FillsOnly(t, u, rows, {"code", "norm", "country", "core"})
    BY <1>2, <1>7 DEF BackfillFields
  <2> QED BY <2>1, <2>2, LinksKeep
<1>8. /\ u.new \cup u.inserted \subseteq DOMAIN u.alias
      /\ t.calm => DOMAIN rows \subseteq DOMAIN u.alias
  BY <1>1 DEF Phase
<1>9. Phase(u, rows, C, 12)
  BY <1>6, <1>7, <1>8 DEF Phase
<1>10. ASSUME t.next >= Len(C) PROVE Phase(u, rows, C, 13)
  <2>1. t.calm => \A i \in DOMAIN C : Covered(u, rows, C[i])
    BY <1>5, <1>6, <1>10
  <2> QED BY <2>1 DEF Phase
<1>11. \A k \in 1 .. 14 : MasterSteps[k] = Head(s) => k = 12
  BY MasterAt
<1>12. Work(u, rows, C, s)
  BY <1>4, <1>9, <1>11, Stays
<1>13. ASSUME t.next >= Len(C) PROVE Work(u, rows, C, Tail(s))
  <2>1. \A k \in 1 .. 13 : MasterSteps[k] = Head(s) => Phase(u, rows, C, k + 1)
    BY <1>10, <1>11, <1>13
  <2>2. Head(s) # "commit"
    OBVIOUS
  <2> QED BY <1>4, <2>1, <2>2, Moves
<1> QED BY <1>12, <1>13

\* A turn of the backfill with nothing to do.
LEMMA BackfillSkips ==
  ASSUME NEW t, NEW C, NEW s, Work(t, rows, C, s), Head(s) = "backfill",
         NEW S, C \in Seq(S), \A i \in DOMAIN C : C[i].id # Nothing,
         t.next \in DOMAIN C => ~C[t.next].active \/ C[t.next].id \in t.linked
  PROVE  LET u == [t EXCEPT !.next = @ + 1]
         IN  /\ Work(u, rows, C, s)
             /\ t.next >= Len(C) => Work(u, rows, C, Tail(s))
<1> DEFINE u == [t EXCEPT !.next = @ + 1]
<1>1. t.kind = "master" /\ Phase(t, rows, C, 12) /\ Sound(t, rows) /\ DOMAIN t = TxFields
  BY PhaseAt DEF Work, Sound
<1>2. /\ DOMAIN u = TxFields /\ u.next = t.next + 1
      /\ u.seen = t.seen /\ u.pend = t.pend /\ u.new = t.new /\ u.wrote = t.wrote
      /\ u.inserted = t.inserted /\ u.created = t.created /\ u.alias = t.alias
      /\ u.kind = t.kind /\ u.calm = t.calm /\ u.keys = t.keys /\ u.held = t.held
      /\ u.linked = t.linked
  BY <1>1, NextFields
<1> HIDE DEF u
<1>3. /\ u.next \in Nat /\ u.keys \cap u.held = {}
      /\ \A y \in DOMAIN u.alias : u.alias[y] \in Reach(t, rows)
  BY <1>1, <1>2 DEF Sound
<1>4. /\ Sound(u, rows)
      /\ Reach(u, rows) = Reach(t, rows)
      /\ \A x : Obj(u, rows, x) = Obj(t, rows, x)
      /\ Agrees(t, rows) => Agrees(u, rows)
  <2>1. Sound(u, rows)
    BY <1>1, <1>2, <1>3, SameWork
  <2>2. /\ Reach(u, rows) = Reach(t, rows)
        /\ \A x : Obj(u, rows, x) = Obj(t, rows, x)
        /\ Agrees(t, rows) => Agrees(u, rows)
    BY <1>2 DEF Reach, Obj, Agrees
  <2> QED BY <2>1, <2>2
<1>8. FillsOnly(t, u, rows, BackfillFields)
  BY <1>2, SameTables
<1>5. Tally(u)
  BY <1>1, <1>2 DEF Phase, Tally
<1>6. ASSUME t.calm, t.next \in DOMAIN C PROVE Covered(u, rows, C[t.next])
  <2>1. CASE ~C[t.next].active
    BY <2>1 DEF Covered
  <2>2. CASE C[t.next].id \in t.linked
    <3>1. \E x \in Reach(t, rows) : Obj(t, rows, x).core = C[t.next].id
      BY <1>1, <1>6, <2>2 DEF Phase, LinksHold
    <3> QED BY <1>4, <3>1 DEF Covered
  <2> QED BY <1>6, <2>1, <2>2
<1>7. /\ Work(u, rows, C, s)
      /\ t.next >= Len(C) => Work(u, rows, C, Tail(s))
  BY <1>2, <1>4, <1>5, <1>6, <1>8, BackfillMoves
<1> QED BY <1>7 DEF u

\* One turn of _backfill_from_core, on an active airline without a row.
LEMMA BackfilledMoves ==
  ASSUME NEW p \in Procs, DOMAIN tx = Procs, NEW C, NEW s,
         Work(tx[p], rows, C, s), TableOf(rows), Head(s) = "backfill",
         NEW S, C \in Seq(S), \A i \in DOMAIN C : C[i].id # Nothing,
         NEW c, c.id \in STRING, c.slug \in STRING, c.name \in STRING,
         tx[p].next \in DOMAIN C => c = C[tx[p].next],
         NEW x \in Targets(p, [tx[p] EXCEPT !.next = @ + 1], c)
  PROVE  LET u == Backfilled(p, [tx[p] EXCEPT !.next = @ + 1], c, x)
         IN  /\ Work(u, rows, C, s)
             /\ tx[p].next >= Len(C) => Work(u, rows, C, Tail(s))
<1> DEFINE t0 == tx[p]
           t == [t0 EXCEPT !.next = @ + 1]
           k == Known(t.alias, c.slug, c.name)
           found == Resolves(p, t, c)
           a0 == t0.alias ++ Only(c.slug, x)
           a == a0 ++ Only(c.name, x)
           w == [t EXCEPT !.alias = a]
           row == NewRow(c.name, Nothing, c.name, c.id, "core", {})
           ch == Gap(Object(p, t, x), "core", c.id) ++ Gap(Object(p, t, x), "country", "core")
           u == Backfilled(p, t, c, x)
<1>0. Work(t0, rows, C, s) /\ (t0.next \in DOMAIN C => c = C[t0.next])
  OBVIOUS
<1>1. /\ t0.kind = "master" /\ Phase(t0, rows, C, 12) /\ Sound(t0, rows)
      /\ DOMAIN t0 = TxFields
  BY PhaseAt DEF Work, Sound
<1>2. /\ DOMAIN t = TxFields /\ t.next = t0.next + 1
      /\ t.seen = t0.seen /\ t.pend = t0.pend /\ t.new = t0.new /\ t.wrote = t0.wrote
      /\ t.inserted = t0.inserted /\ t.created = t0.created /\ t.alias = t0.alias
      /\ t.kind = t0.kind /\ t.calm = t0.calm /\ t.keys = t0.keys /\ t.held = t0.held
      /\ t.linked = t0.linked
  BY <1>1, NextFields
<1>3. /\ DOMAIN w = TxFields /\ w.next = t0.next + 1
      /\ w.seen = t0.seen /\ w.pend = t0.pend /\ w.new = t0.new /\ w.wrote = t0.wrote
      /\ w.inserted = t0.inserted /\ w.created = t0.created /\ w.alias = a
      /\ w.kind = t0.kind /\ w.calm = t0.calm /\ w.keys = t0.keys /\ w.held = t0.held
      /\ w.linked = t0.linked
  BY <1>1, NextFields
<1>4. u = IF found = {} THEN Added(w, x, row) ELSE Changed(p, w, x, ch)
  BY <1>2 DEF Backfilled
<1>5. /\ t0.next + 1 \in Nat /\ t0.keys \cap t0.held = {}
      /\ \A y \in DOMAIN t0.alias : t0.alias[y] \in Reach(t0, rows)
  BY <1>1 DEF Sound
<1>6. \A y \in found : y \in Reach(t0, rows)
  <2>1. \A y \in k : y \in Reach(t0, rows)
    BY <1>2, <1>5 DEF Known
  <2>2. \A y \in Semantic(p, Nothing, c.name) : y \in Reach(t0, rows)
    BY SemanticFinds
  <2> QED BY <2>1, <2>2 DEF Resolves
<1>7. /\ c.slug \in DOMAIN t0.alias => found # {} /\ x = t0.alias[c.slug]
      /\ found # {} => x \in found
      /\ found = {} => x = c.slug /\ x \notin DOMAIN t0.alias
  BY <1>2 DEF Known, Resolves, Targets
<1> HIDE DEF found, w, t, k, u
<1>8. /\ DOMAIN a = DOMAIN t0.alias \cup {c.slug, c.name}
      /\ \A y \in DOMAIN t0.alias : a[y] = t0.alias[y]
      /\ a[c.slug] = x
      /\ \A y \in DOMAIN a : a[y] = x \/ (y \in DOMAIN t0.alias /\ a[y] = t0.alias[y])
  <2>1. /\ DOMAIN a0 = DOMAIN t0.alias \cup {c.slug}
        /\ \A y \in DOMAIN t0.alias : a0[y] = t0.alias[y]
        /\ c.slug \notin DOMAIN t0.alias => a0[c.slug] = x
    BY AliasAt
  <2>2. a0[c.slug] = x
    BY <1>7, <2>1
  <2> HIDE DEF a0
  <2>3. /\ DOMAIN a = DOMAIN a0 \cup {c.name}
        /\ \A y \in DOMAIN a0 : a[y] = a0[y]
        /\ c.name \notin DOMAIN a0 => a[c.name] = x
    BY AliasAt
  <2> HIDE DEF a
  <2>4. DOMAIN a = DOMAIN t0.alias \cup {c.slug, c.name} /\ a[c.slug] = x
    BY <2>1, <2>2, <2>3
  <2>5. \A y \in DOMAIN t0.alias : a[y] = t0.alias[y]
    BY <2>1, <2>3
  <2>6. ASSUME NEW y \in DOMAIN a, y \notin DOMAIN t0.alias PROVE a[y] = x
    <3>1. y = c.slug \/ (y = c.name /\ y \notin DOMAIN a0)
      BY <2>1, <2>4, <2>6
    <3> QED BY <2>3, <2>4, <3>1
  <2> QED BY <2>4, <2>5, <2>6
<1> HIDE DEF a0, a
<1>9. c.id # Nothing
  BY NothingIsNoText
<1>10. ASSUME found # {}
       PROVE  /\ Work(u, rows, C, s)
              /\ t0.next >= Len(C) => Work(u, rows, C, Tail(s))
  <2>1. u = Changed(p, w, x, ch)
    BY <1>4, <1>10
  <2>2. x \in Reach(t0, rows)
    BY <1>6, <1>7, <1>10
  <2>3. \A y \in DOMAIN w.alias : w.alias[y] \in Reach(t0, rows)
    BY <1>3, <1>5, <1>8, <2>2
  <2>4. /\ Sound(w, rows) /\ Reach(w, rows) = Reach(t0, rows)
        /\ \A y : Obj(w, rows, y) = Obj(t0, rows, y)
        /\ Agrees(t0, rows) => Agrees(w, rows)
        /\ FillsOnly(t0, w, rows, BackfillFields)
    <3>1. w.next \in Nat /\ w.keys \cap w.held = {}
      BY <1>3, <1>5
    <3>2. FillsOnly(t0, w, rows, BackfillFields)
      BY <1>3, SameTables
    <3>3. Sound(w, rows)
      BY <1>1, <1>3, <2>3, <3>1, SameWork
    <3>4. /\ Reach(w, rows) = Reach(t0, rows)
          /\ \A y : Obj(w, rows, y) = Obj(t0, rows, y)
          /\ Agrees(t0, rows) => Agrees(w, rows)
      BY <1>3 DEF Reach, Obj, Agrees
    <3> QED BY <3>2, <3>3, <3>4
  <2>5. Object(p, t, x) = Obj(w, rows, x)
    BY <1>2, <1>3 DEF Object, Obj, Visible
  <2>6. IsRow(Obj(w, rows, x))
    BY <2>2, <2>4, VisibleRows
  <2> DEFINE o == Object(p, t, x)
             g == Gap(o, "core", c.id)
             h == Gap(o, "country", "core")
  <2>7. /\ Columns(g) /\ DOMAIN g \subseteq {"core"}
        /\ o["core"] # Nothing => DOMAIN g = {}
        /\ o["core"] = Nothing => "core" \in DOMAIN g /\ g["core"] = c.id
    <3>1. "core" \in Fields /\ c.id \in Values("core")
      BY ValuesAre DEF Fields, Text
    <3> QED BY <1>9, <3>1, GapAt
  <2>8. /\ Columns(h) /\ DOMAIN h \subseteq {"country"}
        /\ o["country"] # Nothing => DOMAIN h = {}
    <3>1. "country" \in Fields /\ "core" \in Values("country")
      BY ValuesAre DEF Fields
    <3> QED BY <3>1, GapAt
  <2> HIDE DEF g, h
  <2>9. /\ Columns(ch) /\ DOMAIN ch = DOMAIN g \cup DOMAIN h
        /\ \A f \in DOMAIN g : ch[f] = g[f]
    <3>1. ch = g ++ h
      BY DEF g, h
    <3>2. Columns(g ++ h)
      BY <2>7, <2>8, ColumnsJoin
    <3>3. DOMAIN (g ++ h) = DOMAIN g \cup DOMAIN h /\ \A f \in DOMAIN g : (g ++ h)[f] = g[f]
      BY DEF ++
    <3> QED BY <3>1, <3>2, <3>3
  <2> HIDE DEF ch
  <2>10. \A f \in BackfillFields \cap DOMAIN ch : Obj(w, rows, x)[f] = Nothing
    BY <2>5, <2>7, <2>8, <2>9
  <2> HIDE DEF o
  <2>11. BackfillFields \in SUBSET Fields
    BY DEF BackfillFields, Fields
  <2>12. /\ Sound(u, rows)
         /\ Agrees(w, rows) => Agrees(u, rows)
         /\ \A f \in DOMAIN ch : Obj(u, rows, x)[f] = ch[f]
         /\ FillsOnly(w, u, rows, BackfillFields)
         /\ Reach(u, rows) = Reach(w, rows)
         /\ u.wrote = w.wrote /\ u.new = w.new /\ u.inserted = w.inserted
         /\ u.kind = w.kind /\ u.alias = w.alias /\ u.linked = w.linked
         /\ u.next = w.next /\ u.created = w.created /\ u.calm = w.calm
    BY <1>3, <2>1, <2>2, <2>4, <2>9, <2>10, <2>11, ChangedKeeps
  <2>13. FillsOnly(t0, u, rows, BackfillFields)
    BY <2>4, <2>12 DEF FillsOnly
  <2>14. Tally(u)
    BY <1>1, <1>3, <2>12 DEF Phase, Tally
  <2>15. Obj(u, rows, x).core # Nothing
    <3>1. CASE o["core"] = Nothing
      BY <1>9, <2>7, <2>9, <2>12, <3>1
    <3>2. CASE o["core"] # Nothing
      BY <2>2, <2>4, <2>5, <2>12, <3>2 DEF o, FillsOnly, BackfillFields
    <3> QED BY <3>1, <3>2
  <2>16. Covered(u, rows, c)
    <3>1. x \in Reach(u, rows) /\ c.slug \in DOMAIN u.alias /\ x = u.alias[c.slug]
      BY <1>3, <1>8, <2>2, <2>4, <2>12
    <3> QED BY <2>15, <3>1 DEF Covered
  <2>17. /\ u.kind = t0.kind /\ u.calm = t0.calm /\ u.next = t0.next + 1
         /\ u.inserted = t0.inserted /\ u.linked = t0.linked
         /\ \A y \in DOMAIN t0.alias : y \in DOMAIN u.alias /\ u.alias[y] = t0.alias[y]
         /\ u.new \subseteq t0.new \cup DOMAIN u.alias
    BY <1>3, <1>8, <2>12
  <2>18. t0.calm /\ Agrees(t0, rows)
           => Agrees(u, rows) /\ FillsOnly(t0, u, rows, BackfillFields)
    BY <2>4, <2>12, <2>13
  <2>19. t0.calm /\ t0.next \in DOMAIN C => Covered(u, rows, C[t0.next])
    BY <2>16
  <2> HIDE DEF t0
  <2> QED BY <1>0, <2>12, <2>14, <2>17, <2>18, <2>19, BackfillMoves
<1>11. ASSUME found = {}
       PROVE  /\ Work(u, rows, C, s)
              /\ t0.next >= Len(C) => Work(u, rows, C, Tail(s))
  <2> DEFINE b == Added(t, x, row)
  <2>1. u = Added(w, x, row)
    BY <1>4, <1>11
  <2>2. x = c.slug /\ x \notin DOMAIN t0.alias
    BY <1>7, <1>11
  <2>3. IsRow(row) /\ row.core = c.id
    <3>1. IsRow(row)
      BY NewRowIsRow DEF Text
    <3>2. row.core = c.id
      BY DEF NewRow
    <3> QED BY <3>1, <3>2
  <2> HIDE DEF row
  <2>4. /\ Sound(t, rows) /\ Reach(t, rows) = Reach(t0, rows)
        /\ Agrees(t0, rows) => Agrees(t, rows)
        /\ FillsOnly(t0, t, rows, BackfillFields)
    <3>1. t.next \in Nat /\ t.keys \cap t.held = {}
      BY <1>2, <1>5
    <3>2. \A y \in DOMAIN t.alias : t.alias[y] \in Reach(t0, rows)
      BY <1>2, <1>5
    <3>3. FillsOnly(t0, t, rows, BackfillFields)
      BY <1>2, SameTables
    <3> QED BY <1>1, <1>2, <3>1, <3>2, <3>3, SameWork
  <2>5. /\ Sound(b, rows)
        /\ Agrees(t, rows) /\ x \notin Reach(t, rows) => Agrees(b, rows)
        /\ Reach(b, rows) = Reach(t, rows) \cup {x}
        /\ Obj(b, rows, x) = row
        /\ x \notin Reach(t, rows) => FillsOnly(t, b, rows, BackfillFields)
        /\ b.new = t.new \cup {x} /\ b.created = t.created + 1
        /\ b.wrote = t.wrote /\ b.inserted = t.inserted
    BY <2>3, <2>4, AddedOne
  <2>6. /\ DOMAIN u = TxFields /\ u.seen = b.seen /\ u.pend = b.pend /\ u.new = b.new
        /\ u.created = b.created /\ u.wrote = b.wrote /\ u.inserted = b.inserted
        /\ u.next = w.next /\ u.keys = w.keys /\ u.held = w.held /\ u.alias = w.alias
        /\ u.kind = w.kind /\ u.calm = w.calm /\ u.linked = w.linked
    <3>1. /\ DOMAIN u = TxFields
          /\ u.seen = Only(x, row) ++ w.seen /\ u.pend = Only(x, row) ++ w.pend
          /\ u.new = w.new \cup DOMAIN Only(x, row)
          /\ u.created = w.created + Cardinality(DOMAIN Only(x, row))
          /\ u.wrote = w.wrote /\ u.inserted = w.inserted
          /\ u.next = w.next /\ u.keys = w.keys /\ u.held = w.held /\ u.alias = w.alias
          /\ u.kind = w.kind /\ u.calm = w.calm /\ u.linked = w.linked
      BY <1>3, <2>1, AddedFields DEF Added
    <3>2. /\ b.seen = Only(x, row) ++ t.seen /\ b.pend = Only(x, row) ++ t.pend
          /\ b.new = t.new \cup DOMAIN Only(x, row)
          /\ b.created = t.created + Cardinality(DOMAIN Only(x, row))
          /\ b.wrote = t.wrote /\ b.inserted = t.inserted
      BY <1>2, AddedFields DEF Added
    <3> QED BY <1>2, <1>3, <3>1, <3>2
  <2> HIDE DEF b
  <2>7. \A y \in DOMAIN u.alias : u.alias[y] \in Reach(b, rows)
    BY <1>3, <1>5, <1>8, <2>4, <2>5, <2>6
  <2>8. /\ Sound(u, rows)
        /\ Reach(u, rows) = Reach(b, rows)
        /\ \A y : Obj(u, rows, y) = Obj(b, rows, y)
        /\ Agrees(b, rows) => Agrees(u, rows)
        /\ FillsOnly(b, u, rows, BackfillFields)
    <3>1. u.next \in Nat /\ u.keys \cap u.held = {}
      BY <1>3, <1>5, <2>6
    <3>2. FillsOnly(b, u, rows, BackfillFields)
      BY <2>6, SameTables
    <3> QED BY <2>5, <2>6, <2>7, <3>1, <3>2, SameWork
  <2>9. Tally(u)
    <3>1. Tally(t0) /\ x \notin t0.new \cup t0.inserted
      BY <1>1, <2>2 DEF Phase
    <3>2. u.new = t0.new \cup {x} /\ u.inserted = t0.inserted /\ u.created = t0.created + 1
      BY <1>2, <2>5, <2>6
    <3> QED BY <3>1, <3>2, TallyAdds
  <2>10. ASSUME t0.calm, Agrees(t0, rows)
         PROVE  Agrees(u, rows) /\ FillsOnly(t0, u, rows, BackfillFields)
    <3>1. x \notin Reach(t0, rows)
      <4>1. DOMAIN t0.wrote \subseteq DOMAIN rows \cup t0.inserted
        BY <1>1 DEF Sound
      <4>2. t0.new \cup t0.inserted \cup DOMAIN rows \subseteq DOMAIN t0.alias
        BY <1>1, <2>10 DEF Phase
      <4> QED BY <2>2, <4>1, <4>2 DEF Reach
    <3>2. FillsOnly(t, b, rows, BackfillFields)
      BY <2>4, <2>5, <3>1
    <3>3. FillsOnly(t0, u, rows, BackfillFields)
      BY <2>4, <2>8, <3>2 DEF FillsOnly
    <3> QED BY <2>4, <2>5, <2>8, <2>10, <3>1, <3>3
  <2>11. Covered(u, rows, c)
    <3>1. x \in Reach(u, rows) /\ Obj(u, rows, x).core = c.id
      BY <2>3, <2>5, <2>8
    <3> QED BY <3>1 DEF Covered
  <2>12. /\ u.kind = t0.kind /\ u.calm = t0.calm /\ u.next = t0.next + 1
         /\ u.inserted = t0.inserted /\ u.linked = t0.linked
         /\ \A y \in DOMAIN t0.alias : y \in DOMAIN u.alias /\ u.alias[y] = t0.alias[y]
         /\ u.new \subseteq t0.new \cup DOMAIN u.alias
    BY <1>2, <1>3, <1>8, <2>2, <2>5, <2>6
  <2>13. t0.calm /\ t0.next \in DOMAIN C => Covered(u, rows, C[t0.next])
    BY <2>11
  <2> HIDE DEF t0
  <2> QED BY <1>0, <2>8, <2>9, <2>10, <2>12, <2>13, BackfillMoves
<1> QED BY <1>10, <1>11 DEF t, u

-----------------------------------------------------------------------------
(* Links to the core airlines, and the enrichment.                         *)

\* The first of the core airlines that fit is one of them.
LEMMA FirstFits ==
  ASSUME NEW S \in SUBSET Nat, S # {}
  PROVE  (CHOOSE i \in S : \A j \in S : i <= j) \in S
<1>1. PICK i \in S : \A j \in S : ~(j < i)
  <2>1. PICK i \in S : \A j \in S : <<j, i>> \notin OpToRel(<, Nat)
    BY NatLessThanWellFounded, WFMin, Zenon
  <2> QED BY <2>1 DEF OpToRel
<1>2. \A j \in S : i <= j
  BY <1>1
<1> QED BY <1>2, Zenon

LEMMA EntryOf ==
  ASSUME NEW S, NEW C \in Seq(S), NEW i \in DOMAIN C
  PROVE  C[i] \in S
  OBVIOUS

LEMMA CandidatesFit == \A x, row : Candidates(x, row) \subseteq DOMAIN world.cores
  BY DEF Candidates

LEMMA MatchFits ==
  ASSUME world.cores \in Seq([id : STRING, slug : STRING, name : STRING,
                              active : BOOLEAN, hubs : SUBSET STRING]),
         NEW x, NEW row, Candidates(x, row) # {}
  PROVE  Match(x, row).id \in STRING
<1> DEFINE S == Candidates(x, row)
           i == CHOOSE i \in S : \A j \in S : i <= j
<1>1. S \subseteq DOMAIN world.cores /\ S \in SUBSET Nat
  BY CandidatesFit
<1>2. i \in S
  BY <1>1, FirstFits
<1>3. Match(x, row) = world.cores[i]
  BY DEF Match
<1> HIDE DEF S, i
<1>4. world.cores[i] \in [id : STRING, slug : STRING, name : STRING,
                          active : BOOLEAN, hubs : SUBSET STRING]
  <2>1. i \in DOMAIN world.cores
    BY <1>1, <1>2
  <2> QED BY <2>1, EntryOf
<1> QED BY <1>3, <1>4

\* _link_to_core_airlines.
LEMMA LinkMoves ==
  ASSUME NEW p \in Procs, DOMAIN tx = Procs, NEW C, NEW s,
         Work(tx[p], rows, C, s), TableOf(rows), Head(s) = "link", Link(p),
         world.cores \in Seq([id : STRING, slug : STRING, name : STRING,
                              active : BOOLEAN, hubs : SUBSET STRING])
  PROVE  Work(tx'[p], rows, C, Tail(s))
<1> DEFINE t == tx[p]
           v == Visible(p)
           o == [x \in DOMAIN v |-> Object(p, tx[p], x)]
           unlinked == {x \in DOMAIN v : v[x].core = Nothing /\ Candidates(x, o[x]) # {}}
           ch == [x \in unlinked |->
                    Only("core", Match(x, o[x]).id) ++ Gap(o[x], "country", "core")]
           u == Assigned(p, t, ch)
<1>1. t.kind = "master" /\ Phase(t, rows, C, 9) /\ Sound(t, rows) /\ DOMAIN t = TxFields
  BY PhaseAt DEF Work, Sound
<1>2. tx'[p] = u
  BY DEF Link, Session
<1>3. \A x \in unlinked : x \in Reach(t, rows) /\ o[x] = Obj(t, rows, x)
  <2>1. DOMAIN v = DOMAIN rows \cup DOMAIN t.wrote
    BY DEF Visible, Over
  <2> QED BY <2>1, ObjectIs DEF Reach
<1>4. ASSUME NEW x \in unlinked
      PROVE  /\ Columns(ch[x])
             /\ \A f \in GapFields \cap DOMAIN ch[x] : Obj(t, rows, x)[f] = Nothing
  <2> DEFINE g == Only("core", Match(x, o[x]).id)
             h == Gap(o[x], "country", "core")
  <2>1. ch[x] = g ++ h
    BY <1>4
  <2>2. Columns(g) /\ DOMAIN g = {"core"}
    <3>1. Match(x, o[x]).id \in Values("core") /\ "core" \in Fields
      BY <1>4, MatchFits, ValuesAre DEF Fields, Text
    <3> QED BY <3>1, ColumnsJoin, OnlyAt
  <2>3. /\ Columns(h) /\ DOMAIN h \subseteq {"country"}
        /\ o[x]["country"] # Nothing => DOMAIN h = {}
    <3>1. "country" \in Fields /\ "core" \in Values("country")
      BY ValuesAre DEF Fields
    <3> QED BY <3>1, GapAt
  <2> HIDE DEF g, h
  <2>4. Columns(g ++ h)
    BY <2>2, <2>3, ColumnsJoin
  <2>5. DOMAIN (g ++ h) = DOMAIN g \cup DOMAIN h
    BY DEF ++
  <2>6. o[x] = Obj(t, rows, x)
    BY <1>3, <1>4
  <2> HIDE DEF o, ch
  <2> QED BY <2>1, <2>2, <2>3, <2>4, <2>5, <2>6 DEF GapFields
<1>5. DOMAIN ch = unlinked
  OBVIOUS
<1> HIDE DEF ch, unlinked, o
<1>6. /\ DOMAIN ch \subseteq Reach(t, rows)
      /\ \A x \in DOMAIN ch : Columns(ch[x])
      /\ \A x \in DOMAIN ch : \A f \in GapFields \cap DOMAIN ch[x] : Obj(t, rows, x)[f] = Nothing
  BY <1>3, <1>4, <1>5
<1>7. Sound(u, rows) /\ (Agrees(t, rows) => Agrees(u, rows))
  BY <1>1, <1>6, AssignedKeeps
<1>8. FillsOnly(t, u, rows, GapFields)
  <2>1. GapFields \in SUBSET Fields
    BY DEF GapFields, Fields
  <2> QED BY <1>1, <1>6, <2>1, AssignedColumns
<1>9. /\ u.kind = t.kind /\ u.calm = t.calm /\ u.new = t.new /\ u.inserted = t.inserted
      /\ u.created = t.created
  BY <1>1 DEF Assigned, TxFields
<1> HIDE DEF u
<1>10. Kept(t, rows) => Kept(u, rows)
  BY <1>8, FillsKeeps
<1>11. u.calm /\ u.kind \in Fillers => Agrees(u, rows) /\ Kept(u, rows)
  BY <1>7, <1>9, <1>10 DEF Work
<1>12. Phase(u, rows, C, 10)
  BY <1>1, <1>9 DEF Phase, Tally
<1>13. \A k \in 1 .. 13 : MasterSteps[k] = Head(s) => Phase(u, rows, C, k + 1)
  <2>1. \A k \in 1 .. 13 : MasterSteps[k] = Head(s) => k = 9
    BY MasterAt
  <2> QED BY <1>12, <2>1
<1>14. Head(s) # "commit"
  OBVIOUS
<1> HIDE DEF t
<1>15. Work(t, rows, C, s)
  BY DEF t
<1>16. Work(u, rows, C, Tail(s))
  BY <1>7, <1>9, <1>11, <1>13, <1>14, <1>15, Moves
<1> QED BY <1>2, <1>16

\* Assignments that leave what the table has in the columns that may only be
\* filled.
LEMMA AssignedObjects ==
  ASSUME NEW p, NEW t, t.wrote = tx[p].wrote, Sound(t, rows), TableOf(rows),
         NEW changes, DOMAIN changes \subseteq Reach(t, rows),
         \A x \in DOMAIN changes : Columns(changes[x])
  PROVE  \A x \in Reach(t, rows) :
           Obj(Assigned(p, t, changes), rows, x)
             = IF x \in DOMAIN changes THEN changes[x] ++ Obj(t, rows, x)
               ELSE Obj(t, rows, x)
<1> DEFINE u == Assigned(p, t, changes)
<1>1. /\ Sound(u, rows)
      /\ \A x \in Reach(t, rows) :
           Obj(u, rows, x) = IF x \in DOMAIN changes THEN changes[x] ++ Obj(t, rows, x)
                             ELSE Obj(t, rows, x)
      /\ Agrees(t, rows) => Agrees(u, rows)
  BY AssignedKeeps, Zenon
<1> QED BY <1>1

LEMMA AssignedKept ==
  ASSUME NEW p, NEW t, t.wrote = tx[p].wrote, Sound(t, rows), TableOf(rows),
         NEW changes, DOMAIN changes \subseteq Reach(t, rows),
         \A x \in DOMAIN changes : Columns(changes[x]),
         \A x \in DOMAIN changes \cap DOMAIN rows : \A f \in GapFields \cap DOMAIN changes[x] :
           rows[x][f] = Nothing,
         Kept(t, rows)
  PROVE  Kept(Assigned(p, t, changes), rows)
<1> DEFINE u == Assigned(p, t, changes)
<1>1. DOMAIN t = TxFields
  BY DEF Sound
<1>2. u.wrote = t.wrote
  BY <1>1 DEF Assigned, TxFields
<1>3. \A x \in Reach(t, rows) :
        Obj(u, rows, x) = IF x \in DOMAIN changes THEN changes[x] ++ Obj(t, rows, x)
                          ELSE Obj(t, rows, x)
  BY AssignedObjects
<1> HIDE DEF u
<1>4. ASSUME NEW x \in DOMAIN rows, NEW f \in GapFields, rows[x][f] # Nothing
      PROVE  Over(rows, u.wrote)[x][f] = rows[x][f] /\ Obj(u, rows, x)[f] = rows[x][f]
  <2>1. Over(rows, t.wrote)[x][f] = rows[x][f] /\ Obj(t, rows, x)[f] = rows[x][f]
    BY <1>4 DEF Kept
  <2>2. x \in Reach(t, rows)
    BY DEF Reach
  <2>3. CASE x \in DOMAIN changes
    <3>1. Obj(u, rows, x) = changes[x] ++ Obj(t, rows, x)
      BY <1>3, <2>2, <2>3
    <3>2. f \in DOMAIN Obj(t, rows, x) /\ f \notin DOMAIN changes[x]
      <4>1. IsRow(Obj(t, rows, x))
        BY <2>2, VisibleRows
      <4>2. f \in DOMAIN Obj(t, rows, x)
        BY <4>1 DEF IsRow, GapFields, Fields
      <4> QED BY <1>4, <2>3, <4>2
    <3>3. (changes[x] ++ Obj(t, rows, x))[f] = Obj(t, rows, x)[f]
      BY <3>2 DEF ++
    <3> QED BY <1>2, <2>1, <3>1, <3>3
  <2>4. CASE x \notin DOMAIN changes
    BY <1>2, <1>3, <2>1, <2>2, <2>4
  <2> QED BY <2>3, <2>4
<1>5. Kept(u, rows)
  BY <1>4 DEF Kept
<1> QED BY <1>5 DEF u

\* The core airlines of a sequence, and their slugs, are finitely many.
LEMMA FiniteSlugs ==
  ASSUME NEW S, NEW C \in Seq(S), NEW T \in SUBSET Range(C)
  PROVE  IsFiniteSet({c.slug : c \in T})
<1> DEFINE D == 1 .. Len(C)
           f == [i \in D |-> C[i].slug]
           U == {f[i] : i \in D}
<1>1. IsFiniteSet(D)
  BY FS_Interval
<1>2. f \in Surjection(D, U)
  BY DEF Surjection
<1>3. IsFiniteSet(U)
  BY <1>1, <1>2, FS_Surjection
<1>4. {c.slug : c \in T} \subseteq U
  BY DEF Range
<1> HIDE DEF U
<1> QED BY <1>3, <1>4, FS_Subset

\* A master synchronisation has none of the other steps.
LEMMA OthersAt ==
  ASSUME NEW t, NEW R, NEW C, NEW s, Work(t, R, C, s),
         Head(s) \in {"sync", "pairs", "item", "flushItem"}
  PROVE  t.kind # "master" /\ Ending(s) /\ Ending(Tail(s))
<1>1. ASSUME t.kind = "master" PROVE FALSE
  <2>1. PICK k \in 1 .. 14 : s = MasterFrom(k) /\ Phase(t, R, C, k)
    BY <1>1 DEF Work
  <2>2. Head(s) = MasterSteps[k]
    BY <2>1, MasterLeft
  <2> QED BY <2>2, MasterAt
<1>2. Ending(s)
  BY <1>1 DEF Work
<1>3. Ending(Tail(s))
  <2>1. Head(s) # "commit"
    OBVIOUS
  <2> QED BY <1>2, <2>1, EndingTail
<1> QED BY <1>1, <1>2, <1>3

\* What the enrichment gives a row that it finds fills gaps, but for the name
\* and the core airline.
LEMMA UpdatedFills ==
  ASSUME NEW row, IsRow(row), NEW x \in STRING,
         NEW c \in [id : STRING, slug : STRING, name : STRING,
                    active : BOOLEAN, hubs : SUBSET STRING]
  PROVE  LET u == Only("core", c.id) ++ Only("name", c.name)
                    ++ Gap(row, "country", "core") ++ Gap(row, "norm", x)
                    ++ (IF row.hubs = {} THEN Only("hubs", c.hubs) ELSE None)
         IN  /\ Columns(u)
             /\ \A f \in GapFields \cap DOMAIN u : row[f] = Nothing
<1> DEFINE a == Only("core", c.id)
           b == Only("name", c.name)
           g == Gap(row, "country", "core")
           h == Gap(row, "norm", x)
           d == IF row.hubs = {} THEN Only("hubs", c.hubs) ELSE None
           u == (((a ++ b) ++ g) ++ h) ++ d
<1>1. /\ c.id \in Values("core") /\ c.name \in Values("name") /\ "core" \in Values("country")
      /\ x \in Values("norm") /\ c.hubs \in Values("hubs")
      /\ {"core", "name", "country", "norm", "hubs"} \subseteq Fields
  BY ValuesAre DEF Text, Fields
<1>2. Columns(a) /\ DOMAIN a = {"core"}
  BY <1>1, ColumnsJoin, OnlyAt
<1>3. Columns(b) /\ DOMAIN b = {"name"}
  BY <1>1, ColumnsJoin, OnlyAt
<1>4. /\ Columns(g) /\ DOMAIN g \subseteq {"country"}
      /\ row["country"] # Nothing => DOMAIN g = {}
  BY <1>1, GapAt
<1>5. /\ Columns(h) /\ DOMAIN h \subseteq {"norm"}
      /\ row["norm"] # Nothing => DOMAIN h = {}
  BY <1>1, GapAt
<1>6. Columns(d) /\ DOMAIN d \subseteq {"hubs"}
  BY <1>1, ColumnsJoin, OnlyAt, NoneIsEmpty
<1> HIDE DEF a, b, g, h, d
<1>7. Columns(u)
  <2>1. Columns(a ++ b)
    BY <1>2, <1>3, ColumnsJoin
  <2>2. Columns((a ++ b) ++ g)
    BY <1>4, <2>1, ColumnsJoin
  <2>3. Columns(((a ++ b) ++ g) ++ h)
    BY <1>5, <2>2, ColumnsJoin
  <2> QED BY <1>6, <2>3, ColumnsJoin
<1>8. DOMAIN u = DOMAIN a \cup DOMAIN b \cup DOMAIN g \cup DOMAIN h \cup DOMAIN d
  BY DEF ++
<1> HIDE DEF u
<1>9. \A f \in GapFields \cap DOMAIN u : row[f] = Nothing
  BY <1>2, <1>3, <1>4, <1>5, <1>6, <1>8 DEF GapFields
<1> QED BY <1>7, <1>9 DEF u, a, b, g, h, d

LEMMA RangeOf ==
  ASSUME NEW S, NEW C \in Seq(S)
  PROVE  \A c \in Range(C) : c \in S
<1>1. \A i \in DOMAIN C : C[i] \in S
  BY EntryOf
<1> QED BY <1>1 DEF Range

\* sync_airlines_to_metadata.
LEMMA SyncMoves ==
  ASSUME NEW p \in Procs, DOMAIN tx = Procs, NEW C, NEW s,
         Work(tx[p], rows, C, s), TableOf(rows), Head(s) = "sync", Sync(p), At(p, "sync"),
         world.cores \in Seq([id : STRING, slug : STRING, name : STRING,
                              active : BOOLEAN, hubs : SUBSET STRING])
  PROVE  Work(tx'[p], rows, C, Tail(s))
<1> DEFINE t == tx[p]
           v == Visible(p)
           active == {c \in Range(world.cores) : c.active}
           slugs == {c.slug : c \in active}
           Core(x) == CHOOSE c \in active : c.slug = x
           Updated(x) ==
             Only("core", Core(x).id) ++ Only("name", Core(x).name)
               ++ Gap(v[x], "country", "core") ++ Gap(v[x], "norm", x)
               ++ (IF v[x].hubs = {} THEN Only("hubs", Core(x).hubs) ELSE None)
           New(x) == NewRow(Core(x).name, Nothing, x, Core(x).id, "core", Core(x).hubs)
           ch == [x \in slugs \cap DOMAIN v |-> Updated(x)]
           fresh == [x \in slugs \ DOMAIN v |-> New(x)]
           w == Assigned(p, t, ch)
           u == AddedAll(w, fresh)
<1>1. t.kind # "master" /\ Ending(Tail(s)) /\ Sound(t, rows) /\ DOMAIN t = TxFields
  BY OthersAt DEF Work, Sound
<1>2. tx'[p] = u
  BY DEF Sync, Session
<1>3. /\ DOMAIN v = DOMAIN rows \cup DOMAIN t.wrote
      /\ \A x \in DOMAIN v : IsRow(v[x]) /\ x \in Reach(t, rows)
      /\ v = Over(rows, t.wrote)
  <2>1. v = Over(rows, t.wrote)
    BY DEF Visible
  <2>2. /\ DOMAIN Over(rows, t.wrote) = DOMAIN rows \cup DOMAIN t.wrote
        /\ \A x \in DOMAIN rows \cup DOMAIN t.wrote : IsRow(Over(rows, t.wrote)[x])
    BY <1>1, VisibleRows
  <2> HIDE DEF v
  <2> QED BY <2>1, <2>2 DEF Reach
<1>4. ASSUME NEW x \in slugs
      PROVE  /\ x \in STRING
             /\ Core(x) \in [id : STRING, slug : STRING, name : STRING,
                             active : BOOLEAN, hubs : SUBSET STRING]
  <2>1. \A c \in active : c \in [id : STRING, slug : STRING, name : STRING,
                                 active : BOOLEAN, hubs : SUBSET STRING]
    BY RangeOf
  <2>2. PICK c \in active : c.slug = x
    BY <1>4
  <2>3. Core(x) \in active
    BY <2>2
  <2> QED BY <2>1, <2>2, <2>3
<1>5. IsFiniteSet(slugs)
  BY FiniteSlugs
<1>6. DOMAIN ch = slugs \cap DOMAIN v /\ \A x \in slugs \cap DOMAIN v : ch[x] = Updated(x)
  OBVIOUS
<1>7. DOMAIN fresh = slugs \ DOMAIN v /\ \A x \in slugs \ DOMAIN v : fresh[x] = New(x)
  OBVIOUS
<1> HIDE DEF ch, fresh, slugs, Core, v
<1>8. ASSUME NEW x \in slugs \cap DOMAIN v
      PROVE  /\ Columns(ch[x])
             /\ \A f \in GapFields \cap DOMAIN ch[x] : v[x][f] = Nothing
  <2>1. IsRow(v[x]) /\ x \in STRING
        /\ Core(x) \in [id : STRING, slug : STRING, name : STRING,
                        active : BOOLEAN, hubs : SUBSET STRING]
    BY <1>3, <1>4
  <2>2. /\ Columns(Updated(x))
        /\ \A f \in GapFields \cap DOMAIN Updated(x) : v[x][f] = Nothing
    BY <2>1, UpdatedFills
  <2> HIDE DEF Updated
  <2> QED BY <1>6, <2>2
<1>9. \A x \in DOMAIN fresh : IsRow(fresh[x])
  <2> SUFFICES ASSUME NEW x \in slugs \ DOMAIN v PROVE IsRow(New(x))
    BY <1>7
  <2>1. x \in STRING
        /\ Core(x) \in [id : STRING, slug : STRING, name : STRING,
                        active : BOOLEAN, hubs : SUBSET STRING]
    BY <1>4
  <2> QED BY <2>1, NewRowIsRow DEF Text
<1> HIDE DEF Updated, New
<1>10. /\ DOMAIN ch \subseteq Reach(t, rows)
       /\ \A x \in DOMAIN ch : Columns(ch[x])
  BY <1>3, <1>6, <1>8
<1>11. Sound(w, rows) /\ (Agrees(t, rows) => Agrees(w, rows))
  BY <1>1, <1>10, AssignedKeeps
<1>12. Kept(t, rows) => Kept(w, rows)
  <2> SUFFICES ASSUME Kept(t, rows) PROVE Kept(w, rows)
    OBVIOUS
  <2>1. ASSUME NEW x \in DOMAIN ch \cap DOMAIN rows, NEW f \in GapFields \cap DOMAIN ch[x]
        PROVE  rows[x][f] = Nothing
    <3>1. v[x][f] = Nothing
      BY <1>6, <1>8, <2>1
    <3>2. rows[x][f] # Nothing => v[x][f] = rows[x][f]
      BY <1>3 DEF Kept
    <3> QED BY <3>1, <3>2
  <2> QED BY <1>1, <1>10, <2>1, AssignedKept
<1>13. /\ DOMAIN w = TxFields /\ w.kind = t.kind /\ w.calm = t.calm /\ w.wrote = t.wrote
       /\ w.new = t.new
  BY <1>1 DEF Assigned, TxFields
<1> HIDE DEF w
<1>14. IsFiniteSet(DOMAIN fresh)
  BY <1>5, <1>7, FS_Subset
<1>15. DOMAIN fresh \cap (DOMAIN rows \cup DOMAIN w.wrote) = {}
  BY <1>3, <1>7, <1>13
<1>16. /\ Sound(u, rows)
       /\ \A x \in Reach(w, rows) \ DOMAIN fresh : Obj(u, rows, x) = Obj(w, rows, x)
       /\ Agrees(w, rows) => Agrees(u, rows)
  BY <1>9, <1>11, <1>14, <1>15, AddedKeeps
<1>17. u.kind = w.kind /\ u.calm = w.calm /\ u.wrote = w.wrote
  BY <1>13, AddedFields
<1> HIDE DEF u
<1>18. Kept(w, rows) => Kept(u, rows)
  <2> SUFFICES ASSUME Kept(w, rows), NEW x \in DOMAIN rows, NEW f \in GapFields,
                      rows[x][f] # Nothing
               PROVE  Over(rows, u.wrote)[x][f] = rows[x][f] /\ Obj(u, rows, x)[f] = rows[x][f]
    BY DEF Kept
  <2>1. x \in Reach(w, rows) \ DOMAIN fresh
    BY <1>15 DEF Reach
  <2>2. Over(rows, w.wrote)[x][f] = rows[x][f] /\ Obj(w, rows, x)[f] = rows[x][f]
    BY DEF Kept
  <2> QED BY <1>16, <1>17, <2>1, <2>2
<1>19. u.calm /\ u.kind \in Fillers => Agrees(u, rows) /\ Kept(u, rows)
  <2>1. t.calm /\ t.kind \in Fillers => Agrees(t, rows) /\ Kept(t, rows)
    BY DEF Work
  <2> QED BY <1>11, <1>12, <1>13, <1>16, <1>17, <1>18, <2>1
<1>20. Work(u, rows, C, Tail(s))
  BY <1>1, <1>13, <1>16, <1>17, <1>19 DEF Work
<1> QED BY <1>2, <1>20

\* Steps of a transaction that is none of the fillers.
LEMMA CrawlMoves ==
  ASSUME NEW t, NEW u, NEW R, NEW C, NEW s, Work(t, R, C, s),
         Head(s) \in {"item", "flushItem"}, t.kind \notin Fillers, u.kind = t.kind,
         Sound(u, R)
  PROVE  Work(u, R, C, Tail(s))
<1>1. t.kind # "master" /\ Ending(Tail(s))
  BY OthersAt
<1> QED BY <1>1 DEF Work

\* A page of the site.
LEMMA AirlineItemMoves ==
  ASSUME NEW p \in Procs, DOMAIN tx = Procs, NEW C, NEW s,
         Work(tx[p], rows, C, s), TableOf(rows), Head(s) = "item",
         tx[p].kind = "crawlAirlines",
         NEW item \in [slug : STRING, country : {"page", Nothing},
                       hubs : SUBSET STRING, alliance : BOOLEAN]
  PROVE  Work(AirlineItem(p, item), rows, C, Tail(s))
<1> DEFINE t0 == tx[p]
           t == [t0 EXCEPT !.next = @ + 1,
                  !.keys = IF item.alliance THEN {Alliance} \ VisibleKeys(p) ELSE {}]
           x == item.slug
           fields == [name |-> x, country |-> item.country, hubs |-> item.hubs]
           row == fields ++ [code |-> Nothing, norm |-> Nothing, core |-> Nothing]
           u == AirlineItem(p, item)
<1>1. Sound(t0, rows) /\ DOMAIN t0 = TxFields
  BY DEF Work, Sound
<1>2. /\ DOMAIN t = TxFields /\ t.next = t0.next + 1
      /\ t.keys = IF item.alliance THEN {Alliance} \ VisibleKeys(p) ELSE {}
      /\ t.seen = t0.seen /\ t.pend = t0.pend /\ t.new = t0.new /\ t.wrote = t0.wrote
      /\ t.inserted = t0.inserted /\ t.created = t0.created /\ t.alias = t0.alias
      /\ t.kind = t0.kind /\ t.held = t0.held
  BY <1>1 DEF TxFields
<1> HIDE DEF t
<1>3. Sound(t, rows) /\ Reach(t, rows) = Reach(t0, rows)
  <2>1. t.next \in Nat /\ t.keys \cap t.held = {}
    BY <1>1, <1>2 DEF Sound, VisibleKeys
  <2>2. \A y \in DOMAIN t.alias : t.alias[y] \in Reach(t0, rows)
    BY <1>1, <1>2 DEF Sound
  <2> QED BY <1>1, <1>2, <2>1, <2>2, SameWork
<1>4. Columns(fields) /\ DOMAIN fields = {"name", "country", "hubs"}
  <2>1. /\ DOMAIN fields = {"name", "country", "hubs"}
        /\ fields["name"] = x /\ fields["country"] = item.country /\ fields["hubs"] = item.hubs
    OBVIOUS
  <2>2. /\ x \in STRING /\ item.country \in {"feed", "core", "page", Nothing}
        /\ item.hubs \in SUBSET STRING
    OBVIOUS
  <2> HIDE DEF fields, x
  <2>3. \A f \in DOMAIN fields : fields[f] \in Values(f)
    BY <2>1, <2>2, ValuesAre
  <2>4. DOMAIN fields \subseteq Fields
    BY <2>1 DEF Fields
  <2> QED BY <2>1, <2>3, <2>4 DEF Columns
<1>5. IsRow(row)
  <2> DEFINE rest == [code |-> Nothing, norm |-> Nothing, core |-> Nothing]
  <2>1. /\ DOMAIN rest = {"code", "norm", "core"}
        /\ rest["code"] = Nothing /\ rest["norm"] = Nothing /\ rest["core"] = Nothing
    OBVIOUS
  <2> HIDE DEF rest
  <2>2. \A f \in DOMAIN rest : rest[f] \in Values(f)
    BY <2>1, ValuesAre DEF Text
  <2>3. Columns(rest)
    BY <2>1, <2>2 DEF Columns, Fields
  <2> HIDE DEF fields
  <2>4. Columns(fields ++ rest) /\ DOMAIN (fields ++ rest) = Fields
    <3>1. Columns(fields ++ rest)
      BY <1>4, <2>3, ColumnsJoin
    <3>2. DOMAIN (fields ++ rest) = DOMAIN fields \cup DOMAIN rest
      BY DEF ++
    <3> QED BY <1>4, <2>1, <3>1, <3>2 DEF Fields
  <2>5. row = fields ++ rest
    BY DEF fields, rest
  <2> HIDE DEF row
  <2> QED BY <2>4, <2>5 DEF Columns, IsRow
<1>6. u = IF x \in DOMAIN Visible(p) THEN Changed(p, t, x, fields) ELSE Added(t, x, row)
  BY DEF AirlineItem, t
<1> HIDE DEF fields, row, x
<1>7. Sound(u, rows) /\ u.kind = t.kind
  <2>1. CASE x \in DOMAIN Visible(p)
    <3>1. x \in Reach(t, rows)
      BY <1>3, <2>1 DEF Visible, Over, Reach
    <3>2. u = Changed(p, t, x, fields)
      BY <1>6, <2>1
    <3> QED BY <1>2, <1>3, <1>4, <3>1, <3>2, ChangedKeeps
  <2>2. CASE x \notin DOMAIN Visible(p)
    <3>1. u = Added(t, x, row)
      BY <1>6, <2>2
    <3> QED BY <1>3, <1>5, <3>1, AddedOne
  <2> QED BY <2>1, <2>2
<1>8. t0.kind \notin Fillers
  BY DEF Fillers
<1> HIDE DEF u, t0
<1>9. Work(t0, rows, C, s)
  BY DEF t0
<1>10. Work(u, rows, C, Tail(s))
  BY <1>2, <1>7, <1>8, <1>9, CrawlMoves
<1> QED BY <1>10 DEF u

\* _upsert_airport.
LEMMA AirportItemMoves ==
  ASSUME NEW p \in Procs, NEW C, NEW s, Work(tx[p], rows, C, s), Head(s) = "item", NEW item
  PROVE  Work(AirportItem(p, item), rows, C, Tail(s))
<1> DEFINE t == tx[p]
           u == AirportItem(p, item)
<1>1. Work(t, rows, C, s) /\ Sound(t, rows) /\ DOMAIN t = TxFields
  BY DEF Work, Sound
<1>2. /\ u.kind = t.kind /\ u.calm = t.calm /\ DOMAIN u = TxFields
      /\ u.seen = t.seen /\ u.pend = t.pend /\ u.new = t.new /\ u.wrote = t.wrote
      /\ u.inserted = t.inserted /\ u.created = t.created /\ u.alias = t.alias
      /\ u.next = t.next + 1 /\ u.keys \cap u.held = {}
  BY <1>1 DEF AirportItem, TxFields, VisibleKeys
<1>3. u.next \in Nat
  BY <1>1, <1>2 DEF Sound
<1> HIDE DEF u, t
<1>4. Work(u, rows, C, Tail(s))
  BY <1>1, <1>2, <1>3, KeysMove
<1> QED BY <1>4 DEF u

\* A session that has nothing but the flushed keys, or not even them.
LEMMA EmptyIsSound ==
  ASSUME NEW u, NEW R, TableOf(R), DOMAIN u = TxFields, u.next \in Nat,
         u.seen = None, u.alias = None, u.pend = None, u.new = {}, u.keys = {},
         u.wrote = None, u.inserted = {}, u.created = 0
  PROVE  /\ Sound(u, R) /\ Agrees(u, R) /\ Kept(u, R) /\ Tally(u)
         /\ Reach(u, R) = DOMAIN R
         /\ \A x \in DOMAIN R : Obj(u, R, x) = R[x] /\ Over(R, u.wrote)[x] = R[x]
<1>1. DOMAIN None = {}
  BY NoneIsEmpty
<1>2. Sound(u, R)
  BY <1>1 DEF Sound, Reach
<1>3. Reach(u, R) = DOMAIN R
  BY <1>1 DEF Reach
<1>4. \A x \in DOMAIN R : Over(R, u.wrote)[x] = R[x]
  BY <1>1 DEF Over
<1>5. \A x \in DOMAIN R : Obj(u, R, x) = R[x]
  BY <1>1, <1>4 DEF Obj
<1>6. Agrees(u, R)
  <2> SUFFICES ASSUME NEW x \in DOMAIN R
               PROVE  Over(Over(R, u.wrote), u.pend)[x] = Obj(u, R, x)
    BY <1>3 DEF Agrees
  <2> DEFINE T == Over(R, u.wrote)
  <2>1. x \in DOMAIN T
    BY DEF Over
  <2> HIDE DEF T
  <2>2. Over(T, u.pend)[x] = T[x]
    BY <1>1, <2>1 DEF Over
  <2> QED BY <1>4, <1>5, <2>2 DEF T
<1>7. Kept(u, R)
  BY <1>4, <1>5 DEF Kept
<1>8. Tally(u)
  <2>1. IsFiniteSet({}) /\ Cardinality({}) = 0
    BY FS_EmptySet
  <2> QED BY <2>1 DEF Tally
<1> QED BY <1>2, <1>3, <1>4, <1>5, <1>6, <1>7, <1>8

\* The other plans end with their commit.
LEMMA PlansEnd ==
  /\ Ending(SyncSteps) /\ Ending(PairsSteps) /\ Ending(StageSteps)
  /\ Ending(<<"seed", "flush", "commit">>)
  /\ \A S : \A items \in Seq(S) : Ending(CrawlSteps(items))
<1>1. Ending(SyncSteps)
  BY DEF Ending, SyncSteps, OtherSteps
<1>2. Ending(PairsSteps)
  BY DEF Ending, PairsSteps, OtherSteps
<1>3. Ending(StageSteps)
  BY DEF Ending, StageSteps, OtherSteps
<1>4. Ending(<<"seed", "flush", "commit">>)
  BY DEF Ending, OtherSteps
<1>5. ASSUME NEW S, NEW items \in Seq(S) PROVE Ending(CrawlSteps(items))
  <2> DEFINE n == 2 * Len(items) + 1
             s == CrawlSteps(items)
  <2>1. n \in Nat /\ n >= 1
    OBVIOUS
  <2>2. s \in [1 .. n -> OtherSteps]
    BY DEF CrawlSteps, OtherSteps
  <2>3. s[n] = "commit"
    <3>1. n \in 1 .. n /\ n > 2 * Len(items)
      BY <2>1
    <3> QED BY <3>1 DEF CrawlSteps
  <2> HIDE DEF s, n
  <2>4. s \in Seq(OtherSteps) /\ Len(s) = n
    BY <2>1, <2>2
  <2>5. s # <<>>
    BY <2>1, <2>4, EmptySeq
  <2>6. Ending(s)
    BY <2>3, <2>4, <2>5 DEF Ending
  <2> QED BY <2>6 DEF s
<1> QED BY <1>1, <1>2, <1>3, <1>4, <1>5

Kinds == {"master", "sync", "pairs", "stage", "crawlAirlines", "crawlAirports"}

LEMMA BeginWorks ==
  ASSUME NEW kind \in Kinds, NEW b, NEW C, TableOf(rows),
         NEW S, world.pages \in Seq(S), NEW T, world.places \in Seq(T)
  PROVE  Work([Blank EXCEPT !.kind = kind, !.second = b], rows, C, StepsOf(kind))
<1> DEFINE u == [Blank EXCEPT !.kind = kind, !.second = b]
           s == StepsOf(kind)
<1>1. /\ DOMAIN u = TxFields /\ u.kind = kind
      /\ u.next = 1 /\ u.seen = None /\ u.alias = None /\ u.pend = None /\ u.new = {}
      /\ u.keys = {} /\ u.wrote = None /\ u.inserted = {} /\ u.created = 0
  BY DEF Blank, TxFields
<1> HIDE DEF u
<1>2. Sound(u, rows) /\ Agrees(u, rows) /\ Kept(u, rows) /\ Tally(u)
  <2>1. u.next \in Nat
    BY <1>1
  <2> QED BY <1>1, <2>1, EmptyIsSound
<1>3. CASE kind = "master"
  <2>1. s = MasterFrom(1)
    BY <1>3, MasterStarts DEF StepsOf
  <2>2. Phase(u, rows, C, 1)
    BY <1>1, <1>2 DEF Phase
  <2> HIDE DEF s
  <2>3. Work(u, rows, C, s)
    BY <1>1, <1>2, <1>3, <2>1, <2>2 DEF Work
  <2> QED BY <2>3 DEF u, s
<1>4. CASE kind # "master"
  <2>1. s \in {SyncSteps, PairsSteps, StageSteps, CrawlSteps(world.pages),
               CrawlSteps(world.places)}
    BY <1>4 DEF StepsOf, Kinds
  <2> HIDE DEF s
  <2>2. Ending(s)
    BY <2>1, PlansEnd
  <2>3. Work(u, rows, C, s)
    BY <1>1, <1>2, <1>4, <2>2 DEF Work
  <2> QED BY <2>3 DEF u, s
<1> QED BY <1>3, <1>4

\* The crawl starts over, in the same transaction of the spider.
LEMMA DropMoves ==
  ASSUME NEW t, NEW C, NEW s, Work(t, rows, C, s), TableOf(rows), Head(s) = "flushItem"
  PROVE  Work([Blank EXCEPT !.kind = t.kind, !.next = t.next, !.calm = t.calm,
                            !.second = t.second], rows, C, Tail(s))
<1> DEFINE u == [Blank EXCEPT !.kind = t.kind, !.next = t.next, !.calm = t.calm,
                              !.second = t.second]
<1>1. /\ DOMAIN u = TxFields /\ u.kind = t.kind /\ u.next = t.next
      /\ u.seen = None /\ u.alias = None /\ u.pend = None /\ u.new = {}
      /\ u.keys = {} /\ u.wrote = None /\ u.inserted = {} /\ u.created = 0
  BY DEF Blank, TxFields
<1> HIDE DEF u
<1>2. t.next \in Nat
  BY DEF Work, Sound
<1>3. Sound(u, rows) /\ Agrees(u, rows) /\ Kept(u, rows)
  BY <1>1, <1>2, EmptyIsSound
<1>4. t.kind # "master" /\ Ending(Tail(s))
  BY OthersAt
<1>5. Work(u, rows, C, Tail(s))
  BY <1>1, <1>3, <1>4 DEF Work
<1> QED BY <1>5 DEF u

\* Somebody else has committed: the table has grown, and nobody is calm.
Grows(R, Q) == DOMAIN R \subseteq DOMAIN Q

LEMMA WorkGrows ==
  ASSUME NEW t, NEW R, NEW Q, NEW C, NEW s, Work(t, R, C, s), Grows(R, Q)
  PROVE  Work([t EXCEPT !.calm = FALSE], Q, C, s)
<1> DEFINE u == [t EXCEPT !.calm = FALSE]
<1>1. Sound(t, R) /\ DOMAIN t = TxFields
  BY DEF Work, Sound
<1>2. /\ DOMAIN u = TxFields /\ ~u.calm
      /\ u.seen = t.seen /\ u.pend = t.pend /\ u.new = t.new /\ u.wrote = t.wrote
      /\ u.inserted = t.inserted /\ u.created = t.created /\ u.alias = t.alias
      /\ u.kind = t.kind /\ u.keys = t.keys /\ u.held = t.held /\ u.next = t.next
  BY <1>1 DEF TxFields
<1> HIDE DEF u
<1>3. Reach(t, R) \subseteq Reach(u, Q)
  BY <1>2 DEF Reach, Grows
<1>4. Sound(u, Q)
  <2>1. DOMAIN u.wrote \subseteq DOMAIN Q \cup u.inserted
    BY <1>1, <1>2 DEF Sound, Grows
  <2>2. DOMAIN u.pend \subseteq Reach(u, Q)
    BY <1>1, <1>2, <1>3 DEF Sound
  <2>3. \A y \in DOMAIN u.alias : u.alias[y] \in Reach(u, Q)
    BY <1>1, <1>2, <1>3 DEF Sound
  <2> QED BY <1>1, <1>2, <2>1, <2>2, <2>3 DEF Sound
<1>5. \A k : Phase(t, R, C, k) => Phase(u, Q, C, k)
  BY <1>2 DEF Phase, Tally
<1>6. Work(u, Q, C, s)
  BY <1>2, <1>4, <1>5 DEF Work
<1> QED BY <1>6 DEF u

-----------------------------------------------------------------------------
(* The invariant of the sessions.                                          *)

InOrder(p) ==
  /\ outcome[p] \in {"none", "running", "ok", "error", "raised"}
  /\ plan[p] # <<>> => outcome[p] = "running" /\ Work(tx[p], rows, world.cores, plan[p])
  /\ plan[p] = <<>> => outcome[p] # "running" /\ tx[p] = Blank

TxInv ==
  /\ DOMAIN plan = Procs /\ DOMAIN tx = Procs /\ DOMAIN outcome = Procs
  /\ world \in Worlds
  /\ TableOf(rows)
  /\ \A p \in Procs : InOrder(p)

CoreType ==
  [id : STRING, slug : STRING, name : STRING, active : BOOLEAN, hubs : SUBSET STRING]
PageType == [slug : STRING, country : {"page", Nothing}, hubs : SUBSET STRING, alliance : BOOLEAN]

\* What WorldsAssumption says of the world at hand.
LEMMA WorldTypes ==
  ASSUME world \in Worlds
  PROVE  /\ world.feed \in Seq([slug : STRING, code : Text])
         /\ world.cores \in Seq(CoreType)
         /\ \A i \in DOMAIN world.cores :
              /\ world.cores[i] \in CoreType
              /\ world.cores[i].id # Nothing
         /\ world.pages \in Seq(PageType)
         /\ world.places \in Seq([iata : STRING])
         /\ TableOf(world.rows)
<1>1. /\ world.feed \in Seq([slug : STRING, code : Text])
      /\ world.cores \in Seq(CoreType)
      /\ world.pages \in Seq(PageType)
      /\ world.places \in Seq([iata : STRING])
      /\ TableOf(world.rows)
  BY WorldsAssumption DEF CoreType, PageType, TableOf
<1>2. \A i \in DOMAIN world.cores : world.cores[i] \in CoreType
  BY <1>1, EntryOf
<1>3. \A i \in DOMAIN world.cores : world.cores[i].id # Nothing
  BY <1>2, NothingIsNoText DEF CoreType
<1> QED BY <1>1, <1>2, <1>3

\* g is f, but for what it has at p.
Becomes(f, g, p, v) ==
  DOMAIN g = DOMAIN f /\ g[p] = v /\ \A q \in DOMAIN f : q # p => g[q] = f[q]

LEMMA BecomesIf ==
  ASSUME NEW f, NEW g, NEW p \in DOMAIN f
  PROVE  /\ \A v : g = [f EXCEPT ![p] = v] => Becomes(f, g, p, v)
         /\ g = f => Becomes(f, g, p, f[p])
  BY DEF Becomes

\* A step that goes on with the transaction of p.
LEMMA GoesOn ==
  ASSUME TxInv, NEW p \in Procs, plan[p] # <<>>, NoWrite,
         NEW u, Becomes(tx, tx', p, u), NEW s, Becomes(plan, plan', p, s),
         Work(u, rows, world.cores, s)
  PROVE  TxInv'
<1>1. /\ DOMAIN plan = Procs /\ DOMAIN tx = Procs /\ DOMAIN outcome = Procs
      /\ world \in Worlds /\ TableOf(rows) /\ \A q \in Procs : InOrder(q)
  BY DEF TxInv
<1>2. rows' = rows /\ world' = world /\ outcome' = outcome
  BY DEF NoWrite
<1>3. s # <<>>
  BY PhaseAt
<1>4. InOrder(p)'
  BY <1>1, <1>2, <1>3 DEF InOrder, Becomes
<1>5. ASSUME NEW q \in Procs, q # p PROVE InOrder(q)'
  <2>1. plan'[q] = plan[q] /\ tx'[q] = tx[q]
    BY <1>1, <1>5 DEF Becomes
  <2> QED BY <1>1, <1>2, <2>1 DEF InOrder
<1> QED BY <1>1, <1>2, <1>4, <1>5 DEF TxInv, Becomes

\* A step that ends it.
LEMMA Leaves ==
  ASSUME TxInv, NEW p \in Procs, NEW what \in {"none", "ok", "error", "raised"},
         Leave(p, what)
  PROVE  TxInv'
<1>1. /\ DOMAIN plan = Procs /\ DOMAIN tx = Procs /\ DOMAIN outcome = Procs
      /\ world \in Worlds /\ TableOf(rows) /\ \A q \in Procs : InOrder(q)
  BY DEF TxInv
<1>2. /\ rows' = rows /\ world' = world
      /\ plan' = [plan EXCEPT ![p] = <<>>] /\ tx' = [tx EXCEPT ![p] = Blank]
      /\ outcome' = [outcome EXCEPT ![p] = what]
  BY DEF Leave, Session
<1>3. InOrder(p)'
  BY <1>1, <1>2 DEF InOrder
<1>4. ASSUME NEW q \in Procs, q # p PROVE InOrder(q)'
  <2>1. plan'[q] = plan[q] /\ tx'[q] = tx[q] /\ outcome'[q] = outcome[q]
    BY <1>1, <1>2, <1>4
  <2> QED BY <1>1, <1>2, <2>1 DEF InOrder
<1> QED BY <1>1, <1>2, <1>3, <1>4 DEF TxInv

\* Steps that only say which keys are to be inserted.
LEMMA KeysStep ==
  ASSUME TxInv, NEW p \in Procs, plan[p] # <<>>, NoWrite, Advance(p),
         Head(plan[p]) \in {"seed", "airports", "pairs"},
         NEW K, K \cap tx[p].held = {}, Session(p, [tx[p] EXCEPT !.keys = K])
  PROVE  TxInv'
<1> DEFINE t == tx[p]
           u == [t EXCEPT !.keys = K]
           C == world.cores
           s == plan[p]
<1>1. Work(t, rows, C, s) /\ DOMAIN plan = Procs
  BY DEF TxInv, InOrder
<1>2. Sound(t, rows) /\ DOMAIN t = TxFields
  BY <1>1 DEF Work, Sound
<1>3. /\ u.kind = t.kind /\ u.calm = t.calm /\ DOMAIN u = TxFields
      /\ u.seen = t.seen /\ u.pend = t.pend /\ u.new = t.new /\ u.wrote = t.wrote
      /\ u.inserted = t.inserted /\ u.created = t.created /\ u.alias = t.alias
      /\ u.next = t.next /\ u.keys \cap u.held = {}
  BY <1>2 DEF TxFields
<1>4. u.next \in Nat
  BY <1>2, <1>3 DEF Sound
<1>5. Becomes(tx, tx', p, u) /\ Becomes(plan, plan', p, Tail(s))
  <2>1. tx' = [tx EXCEPT ![p] = u] /\ plan' = [plan EXCEPT ![p] = Tail(s)]
    BY DEF Session, Advance
  <2>2. p \in DOMAIN tx /\ p \in DOMAIN plan
    BY DEF TxInv
  <2> HIDE DEF u, s
  <2> QED BY <2>1, <2>2, BecomesIf
<1>6. s # <<>> /\ Head(s) \in {"preflight", "seed", "airports", "sync", "pairs", "item"}
  OBVIOUS
<1> HIDE DEF u, t, s, C
<1>7. Work(u, rows, C, Tail(s))
  BY <1>1, <1>3, <1>4, <1>6, KeysMove
<1> QED BY <1>5, <1>7, GoesOn DEF s, C

LEMMA SessionOf ==
  ASSUME TxInv, NEW p \in Procs, plan[p] # <<>>
  PROVE  /\ Work(tx[p], rows, world.cores, plan[p])
         /\ Sound(tx[p], rows) /\ DOMAIN tx[p] = TxFields
         /\ TableOf(rows) /\ world \in Worlds /\ DOMAIN tx = Procs /\ DOMAIN plan = Procs
         /\ tx' = tx => Becomes(tx, tx', p, tx[p])
         /\ plan' = plan => Becomes(plan, plan', p, plan[p])
         /\ Advance(p) => Becomes(plan, plan', p, Tail(plan[p]))
         /\ \A t : Session(p, t) => Becomes(tx, tx', p, t)
<1>1. Work(tx[p], rows, world.cores, plan[p]) /\ DOMAIN tx = Procs /\ DOMAIN plan = Procs
      /\ TableOf(rows) /\ world \in Worlds
  BY DEF TxInv, InOrder
<1>2. Sound(tx[p], rows)
  BY <1>1 DEF Work
<1>3. /\ tx' = tx => Becomes(tx, tx', p, tx[p])
      /\ plan' = plan => Becomes(plan, plan', p, plan[p])
      /\ Advance(p) => Becomes(plan, plan', p, Tail(plan[p]))
      /\ \A t : Session(p, t) => Becomes(tx, tx', p, t)
  BY <1>1, BecomesIf DEF Advance, Session
<1> QED BY <1>1, <1>2, <1>3 DEF Sound

-----------------------------------------------------------------------------
(* The steps keep the invariant.                                           *)

LEMMA LeaveSteps ==
  ASSUME TxInv, NEW p \in Procs,
         Drift(p) \/ Clash(p) \/ ClashAgain(p) \/ BreakCrawl(p) \/ Fail(p)
  PROVE  TxInv'
<1>1. \E what \in {"none", "ok", "error", "raised"} : Leave(p, what)
  BY DEF Drift, Clash, ClashAgain, BreakCrawl, Fail
<1> QED BY <1>1, Leaves

LEMMA KeysSteps ==
  ASSUME TxInv, NEW p \in Procs, Seed(p) \/ Airports(p) \/ Pairs(p)
  PROVE  TxInv'
<1>1. CASE Seed(p)
  <2> DEFINE K == {Alliance} \ VisibleKeys(p)
  <2>1. /\ plan[p] # <<>> /\ NoWrite /\ Advance(p) /\ Head(plan[p]) = "seed"
        /\ Session(p, [tx[p] EXCEPT !.keys = K])
    BY <1>1 DEF Seed, At
  <2>2. K \cap tx[p].held = {}
    BY DEF VisibleKeys
  <2> HIDE DEF K
  <2> QED BY <2>1, <2>2, KeysStep
<1>2. CASE Airports(p)
  <2> DEFINE K == {Airport(a) : a \in world.airports} \ VisibleKeys(p)
  <2>1. /\ plan[p] # <<>> /\ NoWrite /\ Advance(p) /\ Head(plan[p]) = "airports"
        /\ Session(p, [tx[p] EXCEPT !.keys = K])
    BY <1>2 DEF Airports, At
  <2>2. K \cap tx[p].held = {}
    BY DEF VisibleKeys
  <2> HIDE DEF K
  <2> QED BY <2>1, <2>2, KeysStep
<1>3. CASE Pairs(p)
  <2>1. PICK done \in SUBSET DOMAIN Visible(p) :
          Session(p, [tx[p] EXCEPT !.keys = Asked(p, done)])
    BY <1>3 DEF Pairs
  <2> DEFINE K == Asked(p, done)
  <2>2. /\ plan[p] # <<>> /\ NoWrite /\ Advance(p) /\ Head(plan[p]) = "pairs"
        /\ Session(p, [tx[p] EXCEPT !.keys = K])
    BY <1>3, <2>1 DEF Pairs, At
  <2>3. K \cap tx[p].held = {}
    BY DEF Asked, VisibleKeys
  <2> HIDE DEF K
  <2> QED BY <2>2, <2>3, KeysStep
<1> QED BY <1>1, <1>2, <1>3

LEMMA SameSession ==
  ASSUME TxInv, NEW p \in Procs, plan[p] # <<>>,
         Head(plan[p]) \in {"preflight", "sync"}, NoWrite, tx' = tx, Advance(p)
  PROVE  TxInv'
<1> DEFINE t == tx[p]
           s == plan[p]
           C == world.cores
<1>1. /\ Work(t, rows, C, s) /\ Sound(t, rows) /\ DOMAIN t = TxFields
      /\ Becomes(tx, tx', p, t) /\ Becomes(plan, plan', p, Tail(s))
  BY SessionOf
<1>2. t.next \in Nat /\ t.keys \cap t.held = {}
  BY <1>1 DEF Sound
<1>3. Head(s) \in {"preflight", "sync"}
  OBVIOUS
<1> HIDE DEF t, s, C
<1>4. Work(t, rows, C, Tail(s))
  BY <1>1, <1>2, <1>3, KeysMove
<1> QED BY <1>1, <1>4, GoesOn DEF s, C

LEMMA PreflightStep == ASSUME TxInv, NEW p \in Procs, Preflight(p) PROVE TxInv'
<1>1. plan[p] # <<>> /\ Head(plan[p]) = "preflight" /\ NoWrite /\ tx' = tx
  BY DEF Preflight, At
<1>2. CASE Advance(p)
  BY <1>1, <1>2, SameSession
<1>3. CASE tx[p].kind = "sync" /\ plan' = [plan EXCEPT ![p] = <<"seed", "flush", "commit">>]
  <2> DEFINE s == <<"seed", "flush", "commit">>
             t == tx[p]
             C == world.cores
  <2>1. Work(t, rows, C, plan[p]) /\ Becomes(tx, tx', p, t) /\ DOMAIN plan = Procs
    BY <1>1, SessionOf
  <2>2. Ending(s)
    BY PlansEnd
  <2> HIDE DEF s
  <2>3. Becomes(plan, plan', p, s)
    BY <1>3, <2>1, BecomesIf DEF s
  <2>4. t.kind # "master"
    BY <1>3
  <2> HIDE DEF t, C
  <2>5. Work(t, rows, C, s)
    BY <2>1, <2>2, <2>4 DEF Work
  <2> QED BY <1>1, <2>1, <2>3, <2>5, GoesOn DEF C
<1> QED BY <1>2, <1>3 DEF Preflight

LEMMA LoadStep == ASSUME TxInv, NEW p \in Procs, Load(p) PROVE TxInv'
<1> DEFINE t == tx[p]
           s == plan[p]
           C == world.cores
           v == Visible(p)
           u == [t EXCEPT !.seen = v, !.alias = Same(v), !.next = 1,
                          !.linked = {v[x].core : x \in DOMAIN v} \ {Nothing}]
<1>1. plan[p] # <<>> /\ Head(plan[p]) = "load" /\ NoWrite /\ Session(p, u) /\ Advance(p)
  BY DEF Load, At
<1>2. /\ Work(t, rows, C, s) /\ DOMAIN t = TxFields /\ TableOf(rows) /\ world \in Worlds
      /\ Becomes(tx, tx', p, u) /\ Becomes(plan, plan', p, Tail(s))
  BY <1>1, SessionOf
<1>3. C \in Seq(CoreType)
  BY <1>2, WorldTypes
<1>4. v = Over(rows, t.wrote)
  BY DEF Visible
<1> HIDE DEF v
<1>5. /\ DOMAIN u = TxFields /\ u.seen = v /\ u.alias = Same(v) /\ u.next = 1
      /\ u.linked = {v[x].core : x \in DOMAIN v} \ {Nothing}
      /\ u.kind = t.kind /\ u.pend = t.pend /\ u.new = t.new /\ u.wrote = t.wrote
      /\ u.inserted = t.inserted /\ u.created = t.created /\ u.calm = t.calm
      /\ u.keys = t.keys /\ u.held = t.held
  BY <1>2 DEF TxFields
<1>6. Head(s) = "load"
  BY <1>1
<1> HIDE DEF u, t, s, C
<1>7. Work(u, rows, C, Tail(s))
  BY <1>2, <1>3, <1>4, <1>5, <1>6, LoadMoves
<1> QED BY <1>1, <1>2, <1>7, GoesOn DEF s, C

LEMMA ResolveStep == ASSUME TxInv, NEW p \in Procs, Resolve(p) PROVE TxInv'
<1> DEFINE t == tx[p]
           s == plan[p]
           C == world.cores
           u == tx'[p]
           e == world.feed[tx[p].next]
<1>1. plan[p] # <<>> /\ Head(plan[p]) = "resolve" /\ NoWrite
  BY DEF Resolve, At
<1>2. /\ Work(t, rows, C, s) /\ Sound(t, rows) /\ DOMAIN tx = Procs
      /\ TableOf(rows) /\ world \in Worlds
  BY <1>1, SessionOf
<1>3. \/ Becomes(plan, plan', p, s)
      \/ Becomes(plan, plan', p, Tail(s))
  BY <1>1, SessionOf DEF Resolve, Turn
<1>4. CASE t.next \in DOMAIN world.feed
  <2>1. Resolved(p, e)
    BY <1>4 DEF Resolve
  <2>2. e \in [slug : STRING, code : Text]
    BY <1>2, <1>4, WorldTypes, EntryOf
  <2>3. Work(u, rows, C, s) /\ Work(u, rows, C, Tail(s))
    BY <1>1, <1>2, <2>1, <2>2, ResolvedMoves
  <2>4. Becomes(tx, tx', p, u)
    <3>1. \E w : Session(p, w)
      BY <2>1 DEF Resolved
    <3>2. PICK w : Session(p, w)
      BY <3>1
    <3>3. Becomes(tx, tx', p, w)
      BY <1>1, <3>2, SessionOf
    <3> QED BY <3>3 DEF Becomes
  <2> HIDE DEF u, s, C
  <2> QED BY <1>1, <1>3, <2>3, <2>4, GoesOn DEF s, C
<1>5. CASE t.next \notin DOMAIN world.feed
  <2>1. tx' = tx
    BY <1>5 DEF Resolve
  <2>2. Becomes(tx, tx', p, t)
    BY <1>1, <2>1, SessionOf
  <2>3. Head(s) = "resolve"
    BY <1>1
  <2> HIDE DEF t, s, C
  <2>4. t.kind = "master" /\ Phase(t, rows, C, 5)
    BY <1>2, <2>3, PhaseAt
  <2>5. Work(t, rows, C, s) /\ Work(t, rows, C, Tail(s))
    <3>1. Tally(t)
      BY <2>4 DEF Phase
    <3> QED BY <1>2, <2>3, <3>1, ResolveMoves
  <2> QED BY <1>1, <1>3, <2>2, <2>5, GoesOn DEF s, C
<1> QED BY <1>4, <1>5

LEMMA LinkStep == ASSUME TxInv, NEW p \in Procs, Link(p) PROVE TxInv'
<1> DEFINE s == plan[p]
           C == world.cores
           u == tx'[p]
<1>1. plan[p] # <<>> /\ Head(plan[p]) = "link" /\ NoWrite /\ Advance(p)
  BY DEF Link, At
<1>2. /\ Work(tx[p], rows, C, s) /\ DOMAIN tx = Procs /\ TableOf(rows) /\ world \in Worlds
      /\ Becomes(plan, plan', p, Tail(s))
  BY <1>1, SessionOf
<1>3. Becomes(tx, tx', p, u)
  <2>1. PICK w : Session(p, w)
    BY DEF Link
  <2>2. Becomes(tx, tx', p, w)
    BY <1>1, <2>1, SessionOf
  <2> QED BY <2>2 DEF Becomes
<1>4. world.cores \in Seq([id : STRING, slug : STRING, name : STRING,
                           active : BOOLEAN, hubs : SUBSET STRING])
  BY <1>2, WorldTypes DEF CoreType
<1>5. Head(s) = "link"
  BY <1>1
<1> HIDE DEF s, C
<1>6. Work(u, rows, C, Tail(s))
  BY <1>2, <1>4, <1>5, LinkMoves
<1> HIDE DEF u
<1> QED BY <1>1, <1>2, <1>3, <1>6, GoesOn DEF s, C

LEMMA BackfillStep == ASSUME TxInv, NEW p \in Procs, Backfill(p) PROVE TxInv'
<1> DEFINE t0 == tx[p]
           s == plan[p]
           C == world.cores
           i == tx[p].next
           t == [tx[p] EXCEPT !.next = @ + 1]
           c == world.cores[i]
           busy == i \in DOMAIN C /\ c.active /\ c.id \notin t.linked
<1>0. PICK u : /\ plan[p] # <<>> /\ Head(plan[p]) = "backfill" /\ NoWrite /\ Session(p, u)
               /\ IF busy THEN \E x \in Targets(p, t, c) : u = Backfilled(p, t, c, x)
                  ELSE u = t
  BY DEF Backfill, At
<1>1. plan[p] # <<>> /\ Head(plan[p]) = "backfill" /\ NoWrite /\ Session(p, u)
  BY <1>0
<1>2. /\ Work(t0, rows, C, s) /\ Sound(t0, rows) /\ DOMAIN t0 = TxFields /\ DOMAIN tx = Procs
      /\ TableOf(rows) /\ world \in Worlds /\ Becomes(tx, tx', p, u)
  BY <1>1, SessionOf
<1>3. \/ Becomes(plan, plan', p, s)
      \/ i >= Len(C) /\ Becomes(plan, plan', p, Tail(s))
  <2>1. C \in Seq(CoreType)
    BY <1>2, WorldTypes
  <2>2. Len(C) \in Nat /\ i \in Nat
    BY <1>2, <2>1 DEF Sound
  <2>3. i < Len(C) \/ i >= Len(C)
    BY <2>2
  <2>4. IF i < Len(C) THEN plan' = plan ELSE Advance(p)
    BY DEF Backfill, Turn
  <2>5. /\ plan' = plan => Becomes(plan, plan', p, s)
        /\ Advance(p) => Becomes(plan, plan', p, Tail(s))
    BY <1>1, SessionOf
  <2> QED BY <2>2, <2>3, <2>4, <2>5
<1>4. C \in Seq(CoreType) /\ \A j \in DOMAIN C : C[j] \in CoreType /\ C[j].id # Nothing
  BY <1>2, WorldTypes
<1>5. t.linked = t0.linked
  BY <1>2, NextFields
<1>6. Head(s) = "backfill"
  BY <1>1
<1>7. Work(u, rows, C, s) /\ (i >= Len(C) => Work(u, rows, C, Tail(s)))
  <2>1. CASE busy
    <3>1. c.id \in STRING /\ c.slug \in STRING /\ c.name \in STRING /\ c = C[i]
      BY <1>4, <2>1 DEF CoreType
    <3>2. PICK x \in Targets(p, t, c) : u = Backfilled(p, t, c, x)
      BY <1>0, <2>1
    <3>3. /\ Work(tx[p], rows, C, s) /\ DOMAIN tx = Procs /\ TableOf(rows)
          /\ tx[p].next \in DOMAIN C => c = C[tx[p].next]
      BY <1>2, <3>1
    <3> HIDE DEF s, C, c
    <3>4. LET w == Backfilled(p, [tx[p] EXCEPT !.next = @ + 1], c, x)
          IN  /\ Work(w, rows, C, s)
              /\ tx[p].next >= Len(C) => Work(w, rows, C, Tail(s))
      BY <1>4, <1>6, <3>1, <3>3, BackfilledMoves
    <3> QED BY <3>2, <3>4
  <2>2. CASE ~busy
    <3>1. u = [t0 EXCEPT !.next = @ + 1]
      BY <1>0, <2>2
    <3>2. t0.next \in DOMAIN C => ~C[t0.next].active \/ C[t0.next].id \in t0.linked
      BY <1>5, <2>2
    <3> HIDE DEF s, C, c
    <3>3. /\ Work([t0 EXCEPT !.next = @ + 1], rows, C, s)
          /\ t0.next >= Len(C) => Work([t0 EXCEPT !.next = @ + 1], rows, C, Tail(s))
      BY <1>2, <1>4, <1>6, <3>2, BackfillSkips
    <3> QED BY <3>1, <3>3
  <2> QED BY <2>1, <2>2
<1> HIDE DEF s, C
<1> QED BY <1>1, <1>2, <1>3, <1>7, GoesOn DEF s, C

LEMMA SyncStep == ASSUME TxInv, NEW p \in Procs, Sync(p) PROVE TxInv'
<1> DEFINE s == plan[p]
           C == world.cores
           u == tx'[p]
<1>1. plan[p] # <<>> /\ Head(plan[p]) = "sync" /\ NoWrite /\ Advance(p) /\ At(p, "sync")
  BY DEF Sync, At
<1>2. /\ Work(tx[p], rows, C, s) /\ DOMAIN tx = Procs /\ TableOf(rows) /\ world \in Worlds
      /\ Becomes(plan, plan', p, Tail(s))
  BY <1>1, SessionOf
<1>3. Becomes(tx, tx', p, u)
  <2>1. PICK w : Session(p, w)
    BY DEF Sync
  <2>2. Becomes(tx, tx', p, w)
    BY <1>1, <2>1, SessionOf
  <2> QED BY <2>2 DEF Becomes
<1>4. world.cores \in Seq([id : STRING, slug : STRING, name : STRING,
                           active : BOOLEAN, hubs : SUBSET STRING])
  BY <1>2, WorldTypes DEF CoreType
<1>5. Head(s) = "sync"
  BY <1>1
<1> HIDE DEF s, C
<1>6. Work(u, rows, C, Tail(s))
  BY <1>1, <1>2, <1>4, <1>5, SyncMoves
<1> HIDE DEF u
<1> QED BY <1>1, <1>2, <1>3, <1>6, GoesOn DEF s, C

LEMMA SkipSyncStep == ASSUME TxInv, NEW p \in Procs, SkipSync(p) PROVE TxInv'
<1>1. plan[p] # <<>> /\ Head(plan[p]) = "sync" /\ NoWrite /\ tx' = tx /\ Advance(p)
  BY DEF SkipSync, At, NoWrite
<1> QED BY <1>1, SameSession

LEMMA ItemStep == ASSUME TxInv, NEW p \in Procs, Item(p) PROVE TxInv'
<1> DEFINE s == plan[p]
           C == world.cores
           item == Items(p)[tx[p].next]
           u == IF tx[p].kind = "crawlAirlines" THEN AirlineItem(p, item)
                ELSE AirportItem(p, item)
<1>1. /\ plan[p] # <<>> /\ Head(plan[p]) = "item" /\ NoWrite /\ Advance(p) /\ Session(p, u)
      /\ tx[p].next \in DOMAIN Items(p)
  BY DEF Item, At
<1>2. /\ Work(tx[p], rows, C, s) /\ DOMAIN tx = Procs /\ TableOf(rows) /\ world \in Worlds
      /\ Becomes(tx, tx', p, u) /\ Becomes(plan, plan', p, Tail(s))
  BY <1>1, SessionOf
<1>3. Head(s) = "item"
  BY <1>1
<1>4. Work(u, rows, C, Tail(s))
  <2>1. CASE tx[p].kind = "crawlAirlines"
    <3>1. item \in [slug : STRING, country : {"page", Nothing},
                    hubs : SUBSET STRING, alliance : BOOLEAN]
      <4>1. Items(p) = world.pages
        BY <2>1 DEF Items
      <4>2. world.pages \in Seq(PageType)
        BY <1>2, WorldTypes
      <4>3. item \in PageType
        BY <1>1, <4>1, <4>2, EntryOf
      <4> QED BY <4>3 DEF PageType
    <3>2. u = AirlineItem(p, item)
      BY <2>1
    <3> HIDE DEF s, C, u, item
    <3> QED BY <1>2, <1>3, <2>1, <3>1, <3>2, AirlineItemMoves
  <2>2. CASE tx[p].kind # "crawlAirlines"
    <3>2. u = AirportItem(p, item)
      BY <2>2
    <3> HIDE DEF s, C, u, item
    <3> QED BY <1>2, <1>3, <3>2, AirportItemMoves
  <2> QED BY <2>1, <2>2
<1> HIDE DEF u, s, C
<1> QED BY <1>1, <1>2, <1>4, GoesOn DEF s, C

LEMMA FlushStep == ASSUME TxInv, NEW p \in Procs, Flush(p) PROVE TxInv'
<1> DEFINE s == plan[p]
           C == world.cores
           t == tx[p]
           u == Flushed(t)
<1>1. /\ plan[p] # <<>> /\ Head(plan[p]) \in {"flush", "flushAirlines", "flushItem"}
      /\ NoWrite /\ Advance(p) /\ Session(p, u)
  BY DEF Flush, At, Flushed
<1>2. /\ Work(t, rows, C, s) /\ TableOf(rows)
      /\ Becomes(tx, tx', p, u) /\ Becomes(plan, plan', p, Tail(s))
  BY <1>1, SessionOf
<1>3. Head(s) \in {"flush", "flushAirlines", "flushItem"}
  BY <1>1
<1> HIDE DEF s, C, t
<1>4. Work(u, rows, C, Tail(s))
  BY <1>2, <1>3, FlushMoves
<1> HIDE DEF u
<1> QED BY <1>1, <1>2, <1>4, GoesOn DEF s, C

LEMMA RecoverStep == ASSUME TxInv, NEW p \in Procs, Recover(p) PROVE TxInv'
<1> DEFINE s == plan[p]
           C == world.cores
           t == tx[p]
           u == [t EXCEPT !.seen = None, !.alias = None, !.pend = None,
                          !.new = {}, !.recovered = TRUE, !.created = CountFromZero(t)]
           r == <<"load", "resolve">> \o s
<1>1. /\ plan[p] # <<>> /\ Head(plan[p]) = "flushAirlines" /\ NoWrite /\ Session(p, u)
      /\ plan' = [plan EXCEPT ![p] = r]
  BY DEF Recover, At
<1>2. /\ Work(t, rows, C, s) /\ DOMAIN t = TxFields /\ TableOf(rows) /\ DOMAIN plan = Procs
      /\ Becomes(tx, tx', p, u)
  BY <1>1, SessionOf
<1>3. Head(s) = "flushAirlines"
  BY <1>1
<1>4. /\ DOMAIN u = TxFields /\ u.seen = None /\ u.alias = None /\ u.pend = None /\ u.new = {}
      /\ u.created = 0 /\ u.kind = t.kind /\ u.wrote = t.wrote /\ u.inserted = t.inserted
      /\ u.held = t.held /\ u.keys = t.keys /\ u.next = t.next /\ u.calm = t.calm
  BY <1>2 DEF TxFields, CountFromZero
<1> HIDE DEF s, C, t, u
<1>5. Work(u, rows, C, r)
  BY <1>2, <1>3, <1>4, RecoverMoves
<1> HIDE DEF r
<1>6. Becomes(plan, plan', p, r)
  BY <1>1, <1>2, BecomesIf
<1> QED BY <1>1, <1>2, <1>5, <1>6, GoesOn DEF C

LEMMA DropCrawlStep == ASSUME TxInv, NEW p \in Procs, DropCrawl(p) PROVE TxInv'
<1> DEFINE s == plan[p]
           C == world.cores
           t == tx[p]
           u == [Blank EXCEPT !.kind = t.kind, !.next = t.next, !.calm = t.calm,
                              !.second = t.second]
<1>1. /\ plan[p] # <<>> /\ Head(plan[p]) = "flushItem" /\ NoWrite /\ Session(p, u)
      /\ Advance(p)
  BY DEF DropCrawl, At
<1>2. /\ Work(t, rows, C, s) /\ TableOf(rows)
      /\ Becomes(tx, tx', p, u) /\ Becomes(plan, plan', p, Tail(s))
  BY <1>1, SessionOf
<1>3. Head(s) = "flushItem"
  BY <1>1
<1> HIDE DEF s, C, t
<1>4. Work(u, rows, C, Tail(s))
  BY <1>2, <1>3, DropMoves
<1> HIDE DEF u
<1> QED BY <1>1, <1>2, <1>4, GoesOn DEF s, C

LEMMA CommitStep == ASSUME TxInv, NEW p \in Procs, Commit(p) PROVE TxInv'
<1> DEFINE C == world.cores
<1>1. /\ plan[p] # <<>> /\ Head(plan[p]) = "commit"
      /\ rows' = Over(rows, tx[p].wrote) /\ world' = world
      /\ tx' = [q \in Procs |-> Disturbed(p, q)]
      /\ plan' = [plan EXCEPT ![p] = <<>>] /\ outcome' = [outcome EXCEPT ![p] = "ok"]
  BY DEF Commit, At, Visible
<1>2. /\ Sound(tx[p], rows) /\ TableOf(rows) /\ world \in Worlds
      /\ DOMAIN tx = Procs /\ DOMAIN plan = Procs /\ DOMAIN outcome = Procs
      /\ \A q \in Procs : InOrder(q)
  BY <1>1, SessionOf DEF TxInv
<1>3. /\ DOMAIN rows' = DOMAIN rows \cup DOMAIN tx[p].wrote
      /\ \A x \in DOMAIN rows \cup DOMAIN tx[p].wrote : IsRow(rows'[x])
  BY <1>1, <1>2, VisibleRows
<1>4. TableOf(rows') /\ Grows(rows, rows')
  BY <1>3 DEF TableOf, Grows
<1>5. InOrder(p)'
  BY <1>1, <1>2 DEF InOrder, Disturbed
<1>6. ASSUME NEW q \in Procs, q # p PROVE InOrder(q)'
  <2>1. plan'[q] = plan[q] /\ outcome'[q] = outcome[q]
    BY <1>1, <1>2, <1>6
  <2>2. CASE plan[q] = <<>>
    <3>1. tx'[q] = tx[q]
      BY <1>1, <1>6, <2>2 DEF Disturbed
    <3> QED BY <1>2, <2>1, <2>2, <3>1 DEF InOrder
  <2>3. CASE plan[q] # <<>>
    <3> DEFINE t == tx[q]
               s == plan[q]
    <3>1. tx'[q] = [t EXCEPT !.calm = FALSE]
      BY <1>1, <1>6, <2>3 DEF Disturbed
    <3>2. Work(t, rows, C, s) /\ outcome[q] = "running"
      BY <1>2, <2>3 DEF InOrder
    <3> HIDE DEF t, s, C
    <3>3. Work([t EXCEPT !.calm = FALSE], rows', C, s)
      BY <1>4, <3>2, WorkGrows
    <3> QED BY <1>1, <2>1, <2>3, <3>1, <3>2, <3>3 DEF InOrder, s, C
  <2> QED BY <2>2, <2>3
<1>7. DOMAIN plan' = Procs /\ DOMAIN tx' = Procs /\ DOMAIN outcome' = Procs
  BY <1>1, <1>2
<1> QED BY <1>1, <1>2, <1>4, <1>5, <1>6, <1>7 DEF TxInv

\* Every step of a session keeps the invariant of the sessions.
LEMMA StepKeeps == ASSUME TxInv, NEW p \in Procs, Step(p) PROVE TxInv'
  BY LeaveSteps, KeysSteps, PreflightStep, LoadStep, ResolveStep, LinkStep, BackfillStep,
     SyncStep, SkipSyncStep, ItemStep, FlushStep, RecoverStep, DropCrawlStep, CommitStep
  DEF Step

-----------------------------------------------------------------------------
(* The jobs that run the transactions.                                     *)

PartNames ==
  {"master", "again", "sync", "discovery", "crawlAirports", "metadata", "pairs",
   "crawlAirlines", "hubs"}

\* A transaction that is not over belongs to a part that is still ahead.
Employed(p) == outcome[p] # "none" => Running(p) /\ todo[p] # <<>>

PartsInv ==
  /\ DOMAIN todo = Procs /\ DOMAIN job = Procs
  /\ DOMAIN outcome = Procs /\ DOMAIN plan = Procs
  /\ \A p \in Procs : /\ todo[p] \in Seq(PartNames) /\ Employed(p)
                      /\ plan[p] # <<>> => outcome[p] = "running"

LEMMA PartsOf ==
  /\ SyncParts \in Seq(PartNames) /\ RefreshParts \in Seq(PartNames)
  /\ BootParts \in Seq(PartNames) /\ <<>> \in Seq(PartNames)
<1>1. SyncParts \in Seq(PartNames)
  BY DEF SyncParts, PartNames
<1>2. RefreshParts \in Seq(PartNames)
  BY DEF RefreshParts, PartNames
<1>3. BootParts \in Seq(PartNames)
  BY DEF BootParts, PartNames
<1> QED BY <1>1, <1>2, <1>3

\* What is left after a part are parts.
LEMMA RestOf ==
  ASSUME NEW p, todo[p] \in Seq(PartNames), todo[p] # <<>>
  PROVE  Rest(p) \subseteq Seq(PartNames)
<1> DEFINE rest == Tail(todo[p])
<1>1. rest \in Seq(PartNames)
  OBVIOUS
<1>2. <<"again">> \o rest \in Seq(PartNames)
  <2>1. <<"again">> \in Seq(PartNames)
    BY DEF PartNames
  <2> HIDE DEF rest
  <2> QED BY <1>1, <2>1
<1> QED BY <1>1, <1>2, PartsOf DEF Rest

\* A step that changes nothing of the other jobs.
LEMMA OneJob ==
  ASSUME PartsInv, NEW p \in Procs,
         DOMAIN todo' = Procs, DOMAIN job' = Procs, DOMAIN outcome' = Procs, DOMAIN plan' = Procs,
         \A q \in Procs : q # p => /\ todo'[q] = todo[q] /\ job'[q] = job[q]
                                   /\ outcome'[q] = outcome[q] /\ plan'[q] = plan[q],
         todo'[p] \in Seq(PartNames),
         outcome'[p] # "none" => job'[p] = "running" /\ todo'[p] # <<>>,
         plan'[p] # <<>> => outcome'[p] = "running"
  PROVE  PartsInv'
<1>1. ASSUME NEW q \in Procs
      PROVE  /\ todo'[q] \in Seq(PartNames) /\ Employed(q)'
             /\ plan'[q] # <<>> => outcome'[q] = "running"
  <2>1. CASE q = p
    BY <2>1 DEF Employed, Running
  <2>2. CASE q # p
    BY <2>2 DEF PartsInv, Employed, Running
  <2> QED BY <2>1, <2>2
<1> QED BY <1>1 DEF PartsInv

LEMMA PartsStep == PartsInv /\ [Next]_vars => PartsInv'
<1> SUFFICES ASSUME PartsInv, [Next]_vars PROVE PartsInv'
  OBVIOUS
<1>0. /\ DOMAIN todo = Procs /\ DOMAIN job = Procs
      /\ DOMAIN outcome = Procs /\ DOMAIN plan = Procs
      /\ \A p \in Procs : /\ todo[p] \in Seq(PartNames) /\ Employed(p)
                          /\ plan[p] # <<>> => outcome[p] = "running"
  BY DEF PartsInv
<1>1. SyncJob \in Procs /\ Refresh \in Procs /\ Boot \in Procs
  BY Distinct
\* A job starts or ends.
<1>2. ASSUME NEW p \in Procs, job[p] = "idle", NEW parts \in Seq(PartNames),
             todo' = [todo EXCEPT ![p] = parts], job' = [job EXCEPT ![p] = "running"],
             UNCHANGED svars
      PROVE  PartsInv'
  <2>1. outcome[p] = "none"
    BY <1>0, <1>2 DEF Employed, Running
  <2> QED BY <1>0, <1>2, <2>1, OneJob DEF svars
<1>3. ASSUME NEW p \in Procs, outcome[p] = "none", NEW s, job' = [job EXCEPT ![p] = s],
             todo' = todo \/ todo' = [todo EXCEPT ![p] = <<>>], UNCHANGED svars
      PROVE  PartsInv'
  <2>1. todo'[p] \in Seq(PartNames)
    BY <1>0, <1>3, PartsOf
  <2> QED BY <1>0, <1>3, <2>1, OneJob DEF svars
<1>4. CASE StartSync
  BY <1>1, <1>2, <1>4, PartsOf DEF StartSync, Takes
<1>5. CASE StartRefresh
  BY <1>1, <1>2, <1>5, PartsOf DEF StartRefresh, Takes
<1>6. CASE StartBoot
  BY <1>1, <1>2, <1>6, PartsOf DEF StartBoot, Takes
<1>7. CASE \/ StartRaises \/ Skip
           \/ Expires \/ Judge \/ WriteBack \/ CleanUp \/ Accepts \/ Resets
  <2>1. UNCHANGED <<svars, todo, job>>
    BY <1>7, OthersLeave DEF StartRaises, Skip
  <2> QED BY <1>0, <2>1 DEF PartsInv, Employed, Running, svars
<1>8. CASE Breaks
  <2>1. /\ outcome[SyncJob] = "none" /\ job' = [job EXCEPT ![SyncJob] = "failing"]
        /\ todo' = [todo EXCEPT ![SyncJob] = <<>>] /\ UNCHANGED svars
    BY <1>8 DEF Breaks, Resting
  <2> QED BY <1>1, <1>3, <2>1
<1>9. CASE Completes
  <2>1. /\ outcome[SyncJob] = "none" /\ job' = [job EXCEPT ![SyncJob] = "idle"]
        /\ todo' = todo /\ UNCHANGED svars
    BY <1>9 DEF Completes, Resting
  <2> QED BY <1>1, <1>3, <2>1
<1>10. CASE Fails
  <2>1. /\ job[SyncJob] = "failing" /\ job' = [job EXCEPT ![SyncJob] = "idle"]
        /\ todo' = todo /\ UNCHANGED svars
    BY <1>10 DEF Fails
  <2>2. outcome[SyncJob] = "none"
    BY <1>0, <1>1, <2>1 DEF Employed, Running
  <2> QED BY <1>1, <1>3, <2>1, <2>2
<1>11. CASE RefreshEnds
  <2>1. /\ outcome[Refresh] = "none" /\ job' = [job EXCEPT ![Refresh] = "idle"]
        /\ todo' = todo /\ UNCHANGED svars
    BY <1>11 DEF RefreshEnds, Resting
  <2> QED BY <1>1, <1>3, <2>1
<1>12. CASE BootEnds
  <2>1. /\ outcome[Boot] = "none" /\ job' = [job EXCEPT ![Boot] = "idle"]
        /\ todo' = todo /\ UNCHANGED svars
    BY <1>12 DEF BootEnds, Resting
  <2> QED BY <1>1, <1>3, <2>1
\* A part is over.
<1>13. ASSUME NEW p \in Procs, NEW parts \in Seq(PartNames), plan[p] = <<>>,
              todo' = [todo EXCEPT ![p] = parts], job' = job, plan' = plan,
              \/ outcome' = [outcome EXCEPT ![p] = "none"]
              \/ outcome' = outcome /\ outcome[p] = "none"
       PROVE  PartsInv'
  BY <1>0, <1>13, OneJob
<1>14. CASE StageEnds
  <2>1. /\ todo' = [todo EXCEPT ![SyncJob] = Tail(todo[SyncJob])] /\ job' = job /\ plan' = plan
        /\ plan[SyncJob] = <<>> /\ outcome[SyncJob] # "none"
        /\ outcome' = [outcome EXCEPT ![SyncJob] = "none"]
    BY <1>14 DEF StageEnds, PartOver, Close
  <2>2. Tail(todo[SyncJob]) \in Seq(PartNames)
    BY <1>0, <1>1, <2>1 DEF Employed
  <2> QED BY <1>1, <1>13, <2>1, <2>2
<1>15. CASE StageWithout
  <2>1. /\ todo' = [todo EXCEPT ![SyncJob] = Tail(todo[SyncJob])] /\ job' = job /\ plan' = plan
        /\ plan[SyncJob] = <<>> /\ outcome[SyncJob] = "none" /\ todo[SyncJob] # <<>>
        /\ outcome' = outcome
    BY <1>15 DEF StageWithout, Resting, svars
  <2>2. Tail(todo[SyncJob]) \in Seq(PartNames)
    BY <1>0, <1>1, <2>1
  <2> QED BY <1>1, <1>13, <2>1, <2>2
<1>16. ASSUME NEW p \in Procs, PartEnds(p) PROVE PartsInv'
  <2>1. /\ job' = job /\ plan' = plan /\ plan[p] = <<>> /\ outcome[p] # "none"
        /\ outcome' = [outcome EXCEPT ![p] = "none"]
    BY <1>16 DEF PartEnds, PartOver, Close
  <2>2. PICK rest \in Rest(p) : todo' = [todo EXCEPT ![p] = rest]
    BY <1>16 DEF PartEnds
  <2>3. rest \in Seq(PartNames)
    BY <1>0, <2>1, <2>2, RestOf DEF Employed
  <2> QED BY <1>13, <2>1, <2>2, <2>3
\* The transactions.
<1>17. ASSUME NEW p \in Procs, Part(p) PROVE PartsInv'
  <2>1. /\ Running(p) /\ todo[p] # <<>> /\ todo' = todo /\ job' = job
        /\ \E steps : plan' = [plan EXCEPT ![p] = steps]
        /\ outcome' = [outcome EXCEPT ![p] = "running"]
    BY <1>17 DEF Part, Begin, pvars
  <2> QED BY <1>0, <2>1, OneJob DEF Running
<1>18. ASSUME NEW p \in Procs, Crash(p) PROVE PartsInv'
  <2>1. /\ job' = [job EXCEPT ![p] = "idle"] /\ todo' = [todo EXCEPT ![p] = <<>>]
        /\ plan' = [plan EXCEPT ![p] = <<>>] /\ outcome' = [outcome EXCEPT ![p] = "none"]
    BY <1>18 DEF Crash, Leave
  <2> QED BY <1>0, <2>1, OneJob, PartsOf
<1>19. ASSUME NEW p \in Procs, Step(p), UNCHANGED pvars PROVE PartsInv'
  <2>1. /\ plan[p] # <<>>
        /\ DOMAIN plan' = Procs /\ DOMAIN outcome' = Procs
        /\ \A q \in Procs : q # p => plan'[q] = plan[q] /\ outcome'[q] = outcome[q]
        /\ plan'[p] # <<>> => outcome'[p] = outcome[p]
    BY <1>0, <1>19, StepOfPlan
  <2>2. todo' = todo /\ job' = job
    BY <1>19 DEF pvars
  <2>3. outcome[p] = "running" /\ job[p] = "running" /\ todo[p] # <<>>
    BY <1>0, <2>1 DEF Employed, Running
  <2> QED BY <1>0, <2>1, <2>2, <2>3, OneJob
<1>20. CASE UNCHANGED vars
  <2>1. UNCHANGED <<todo, job, outcome, plan>>
    BY <1>20 DEF vars, svars, pvars
  <2> QED BY <1>0, <2>1 DEF PartsInv, Employed, Running
<1> QED BY <1>4, <1>5, <1>6, <1>7, <1>8, <1>9, <1>10, <1>11, <1>12, <1>14, <1>15, <1>16,
           <1>17, <1>18, <1>19, <1>20 DEF Next

-----------------------------------------------------------------------------
(* The invariant of the sessions holds.                                    *)

SyncInv == TxInv /\ PartsInv

LEMMA PartStep == ASSUME TxInv, PartsInv, NEW p \in Procs, Part(p) PROVE TxInv'
<1> DEFINE part == Head(todo[p])
           kind == Kind(part)
           u == [Blank EXCEPT !.kind = kind, !.second = synced]
           s == StepsOf(kind)
           C == world.cores
<1>1. /\ plan[p] = <<>> /\ outcome[p] = "none" /\ todo[p] # <<>> /\ part # "hubs"
      /\ plan' = [plan EXCEPT ![p] = s] /\ tx' = [tx EXCEPT ![p] = u]
      /\ outcome' = [outcome EXCEPT ![p] = "running"] /\ rows' = rows /\ world' = world
  BY DEF Part, Resting, Begin, Session
<1>2. /\ DOMAIN plan = Procs /\ DOMAIN tx = Procs /\ DOMAIN outcome = Procs
      /\ world \in Worlds /\ TableOf(rows) /\ \A q \in Procs : InOrder(q)
  BY DEF TxInv
<1>3. kind \in Kinds
  <2>1. part \in PartNames \ {"hubs"}
    BY <1>1 DEF PartsInv
  <2> QED BY <2>1, Zenon DEF Kind, Kinds, PartNames
<1>4. world.pages \in Seq(PageType) /\ world.places \in Seq([iata : STRING])
  BY <1>2, WorldTypes
<1> HIDE DEF kind
<1>5. Work(u, rows, C, s)
  BY <1>2, <1>3, <1>4, BeginWorks
<1> HIDE DEF u, s, C
<1>6. s # <<>>
  BY <1>5, PhaseAt
<1>7. InOrder(p)'
  BY <1>1, <1>2, <1>5, <1>6 DEF InOrder, C
<1>8. ASSUME NEW q \in Procs, q # p PROVE InOrder(q)'
  <2>1. plan'[q] = plan[q] /\ tx'[q] = tx[q] /\ outcome'[q] = outcome[q]
    BY <1>1, <1>2, <1>8
  <2> QED BY <1>1, <1>2, <2>1 DEF InOrder
<1> QED BY <1>1, <1>2, <1>7, <1>8 DEF TxInv

LEMMA CloseStep ==
  ASSUME TxInv, NEW p \in Procs, plan[p] = <<>>, Close(p)
  PROVE  TxInv'
<1>1. /\ plan' = plan /\ tx' = [tx EXCEPT ![p] = Blank] /\ rows' = rows /\ world' = world
      /\ outcome' = [outcome EXCEPT ![p] = "none"]
  BY DEF Close
<1>2. /\ DOMAIN plan = Procs /\ DOMAIN tx = Procs /\ DOMAIN outcome = Procs
      /\ world \in Worlds /\ TableOf(rows) /\ \A q \in Procs : InOrder(q)
  BY DEF TxInv
<1>3. InOrder(p)'
  BY <1>1, <1>2 DEF InOrder
<1>4. ASSUME NEW q \in Procs, q # p PROVE InOrder(q)'
  <2>1. plan'[q] = plan[q] /\ tx'[q] = tx[q] /\ outcome'[q] = outcome[q]
    BY <1>1, <1>2, <1>4
  <2> QED BY <1>1, <1>2, <2>1 DEF InOrder
<1> QED BY <1>1, <1>2, <1>3, <1>4 DEF TxInv

LEMMA SyncInvInit == Init => SyncInv
<1> SUFFICES ASSUME Init PROVE SyncInv
  OBVIOUS
<1>1. /\ world \in Worlds /\ rows = world.rows
      /\ plan = [p \in Procs |-> <<>>] /\ tx = [p \in Procs |-> Blank]
      /\ outcome = [p \in Procs |-> "none"] /\ job = [p \in Procs |-> "idle"]
      /\ todo = [p \in Procs |-> <<>>]
  BY DEF Init, SyncInit
<1>2. TableOf(rows)
  BY <1>1, WorldTypes
<1>3. TxInv
  BY <1>1, <1>2 DEF TxInv, InOrder
<1>4. PartsInv
  BY <1>1, PartsOf DEF PartsInv, Employed
<1> QED BY <1>3, <1>4 DEF SyncInv

LEMMA SyncInvStep == SyncInv /\ [Next]_vars => SyncInv'
<1> SUFFICES ASSUME TxInv, PartsInv, [Next]_vars PROVE TxInv'
  BY PartsStep DEF SyncInv
<1>1. CASE UNCHANGED svars
  BY <1>1 DEF svars, TxInv, InOrder
<1>2. CASE StartSync \/ StartRaises \/ Skip \/ StartRefresh \/ StartBoot
           \/ StageWithout \/ Breaks \/ Completes \/ Fails \/ RefreshEnds \/ BootEnds
           \/ Expires \/ Judge \/ WriteBack \/ CleanUp \/ Accepts \/ Resets
  <2>1. UNCHANGED svars
    BY <1>2, OthersLeave DEF StartSync, StartRaises, Skip, StartRefresh, StartBoot, Takes,
      StageWithout, Breaks, Completes, Fails, RefreshEnds, BootEnds
  <2> QED BY <1>1, <2>1
<1>3. CASE StageEnds
  <2>1. plan[SyncJob] = <<>> /\ Close(SyncJob) /\ SyncJob \in Procs
    BY <1>3, Distinct DEF StageEnds, PartOver
  <2> QED BY <2>1, CloseStep
<1>4. ASSUME NEW p \in Procs, PartEnds(p) PROVE TxInv'
  <2>1. plan[p] = <<>> /\ Close(p)
    BY <1>4 DEF PartEnds, PartOver
  <2> QED BY <2>1, CloseStep
<1>5. ASSUME NEW p \in Procs, Part(p) PROVE TxInv'
  BY <1>5, PartStep
<1>6. ASSUME NEW p \in Procs, Crash(p) PROVE TxInv'
  <2>1. Leave(p, "none")
    BY <1>6 DEF Crash
  <2> QED BY <2>1, Leaves
<1>7. ASSUME NEW p \in Procs, Step(p) PROVE TxInv'
  BY <1>7, StepKeeps
<1>8. CASE UNCHANGED vars
  BY <1>1, <1>8 DEF vars
<1> QED BY <1>2, <1>3, <1>4, <1>5, <1>6, <1>7, <1>8 DEF Next

\* A transaction that ends well at its last step has committed.
LEMMA OnlyCommit ==
  ASSUME SyncInv, [Next]_vars, NEW p \in Procs, plan[p] = <<"commit">>, outcome'[p] = "ok"
  PROVE  Commit(p)
<1>0. /\ DOMAIN plan = Procs /\ DOMAIN outcome = Procs /\ DOMAIN tx = Procs
      /\ outcome[p] = "running" /\ plan[p] # <<>> /\ Head(plan[p]) = "commit"
  BY DEF SyncInv, TxInv, InOrder
<1>1. CASE UNCHANGED outcome
  BY <1>0, <1>1
<1>2. CASE StartSync \/ StartRaises \/ Skip \/ StartRefresh \/ StartBoot
           \/ StageWithout \/ Breaks \/ Completes \/ Fails \/ RefreshEnds \/ BootEnds
           \/ Expires \/ Judge \/ WriteBack \/ CleanUp \/ Accepts \/ Resets
  <2>1. UNCHANGED outcome
    BY <1>2, OthersLeave DEF StartSync, StartRaises, Skip, StartRefresh, StartBoot, Takes,
      StageWithout, Breaks, Completes, Fails, RefreshEnds, BootEnds, svars
  <2> QED BY <1>1, <2>1
<1>3. ASSUME NEW q, NEW what, what # "ok", outcome' = [outcome EXCEPT ![q] = what] PROVE FALSE
  BY <1>0, <1>3
<1>4. CASE StageEnds
  <2>1. outcome' = [outcome EXCEPT ![SyncJob] = "none"]
    BY <1>4 DEF StageEnds, Close
  <2> QED BY <1>3, <2>1
<1>5. ASSUME NEW q \in Procs, PartEnds(q) PROVE FALSE
  <2>1. outcome' = [outcome EXCEPT ![q] = "none"]
    BY <1>5 DEF PartEnds, Close
  <2> QED BY <1>3, <2>1
<1>6. ASSUME NEW q \in Procs, Part(q) PROVE FALSE
  <2>1. outcome' = [outcome EXCEPT ![q] = "running"]
    BY <1>6 DEF Part, Begin
  <2> QED BY <1>3, <2>1
<1>7. ASSUME NEW q \in Procs, Crash(q) PROVE FALSE
  <2>1. outcome' = [outcome EXCEPT ![q] = "none"]
    BY <1>7 DEF Crash, Leave
  <2> QED BY <1>3, <2>1
<1>8. ASSUME NEW q \in Procs, Step(q) PROVE Commit(p)
  <2>1. q = p
    <3>1. ASSUME q # p PROVE outcome'[p] = outcome[p]
      BY <1>0, <1>8, <3>1, StepOfPlan
    <3> QED BY <1>0, <3>1
  <2>2. ~At(p, "flushItem") /\ ~At(p, "preflight") /\ ~At(p, "flush") /\ ~At(p, "flushAirlines")
    BY <1>0 DEF At
  <2>3. ASSUME Leave(p, "error") \/ Leave(p, "raised") PROVE FALSE
    BY <1>0, <2>3 DEF Leave
  <2>4. CASE Drift(p) \/ Clash(p) \/ ClashAgain(p) \/ BreakCrawl(p) \/ Fail(p)
    BY <2>2, <2>3, <2>4 DEF Drift, Clash, ClashAgain, BreakCrawl, Fail
  <2>5. CASE Preflight(p) \/ Seed(p) \/ Load(p) \/ Resolve(p) \/ Airports(p) \/ Link(p)
             \/ Backfill(p) \/ Sync(p) \/ SkipSync(p) \/ Pairs(p) \/ Item(p) \/ Flush(p)
             \/ Recover(p) \/ DropCrawl(p)
    <3>1. UNCHANGED outcome
      BY <2>5 DEF Preflight, Seed, Load, Resolve, Airports, Link, Backfill, Sync, SkipSync,
        Pairs, Item, Flush, Recover, DropCrawl, NoWrite
    <3> QED BY <1>1, <3>1
  <2> QED BY <1>8, <2>1, <2>4, <2>5 DEF Step
<1>9. CASE UNCHANGED vars
  BY <1>1, <1>9 DEF vars, svars
<1> QED BY <1>2, <1>4, <1>5, <1>6, <1>7, <1>8, <1>9 DEF Next

LEMMA SessionsHold == SyncInv => SessionsTyped
<1> SUFFICES ASSUME SyncInv PROVE SessionsTyped
  OBVIOUS
<1>1. TableOf(rows) /\ \A p \in Procs : InOrder(p)
  BY DEF SyncInv, TxInv
<1>2. ASSUME NEW p \in Procs PROVE Sound(tx[p], rows)
  <2>1. CASE plan[p] # <<>>
    BY <1>1, <2>1 DEF InOrder, Work
  <2>2. CASE plan[p] = <<>>
    <3>1. tx[p] = Blank
      BY <1>1, <2>2 DEF InOrder
    <3>2. /\ DOMAIN Blank = TxFields /\ Blank.next \in Nat
          /\ Blank.seen = None /\ Blank.alias = None /\ Blank.pend = None /\ Blank.new = {}
          /\ Blank.keys = {} /\ Blank.wrote = None /\ Blank.inserted = {} /\ Blank.created = 0
      BY DEF Blank, TxFields
    <3>3. Sound(Blank, rows)
      BY <1>1, <3>2, EmptyIsSound
    <3> QED BY <3>1, <3>3
  <2> QED BY <2>1, <2>2
<1>3. ASSUME NEW p \in Procs
      PROVE  /\ outcome[p] \in {"none", "running", "ok", "error", "raised"}
             /\ (plan[p] # <<>>) = (outcome[p] = "running")
  <2>1. CASE plan[p] = <<>>
    BY <1>1, <2>1 DEF InOrder
  <2>2. CASE plan[p] # <<>>
    BY <1>1, <2>2 DEF InOrder
  <2> QED BY <2>1, <2>2
<1>4. ASSUME NEW p \in Procs
      PROVE  /\ tx[p].new \subseteq DOMAIN tx[p].seen
             /\ \A x \in DOMAIN tx[p].seen : IsRow(tx[p].seen[x])
             /\ DOMAIN tx[p].pend \subseteq DOMAIN Visible(p) \cup tx[p].new
             /\ \A x \in DOMAIN tx[p].alias :
                  tx[p].alias[x] \in DOMAIN Visible(p) \cup tx[p].new
             /\ tx[p].keys \cap tx[p].held = {}
  <2> DEFINE t == tx[p]
  <2>1. DOMAIN Visible(p) = DOMAIN rows \cup DOMAIN t.wrote
    BY DEF Visible, Over
  <2>2. Sound(t, rows)
    BY <1>2
  <2> HIDE DEF t
  <2>3. Reach(t, rows) = DOMAIN rows \cup DOMAIN t.wrote \cup t.new
    BY DEF Reach
  <2>4. /\ t.new \subseteq DOMAIN t.seen
        /\ \A x \in DOMAIN t.seen : IsRow(t.seen[x])
        /\ DOMAIN t.pend \subseteq Reach(t, rows)
        /\ \A x \in DOMAIN t.alias : t.alias[x] \in Reach(t, rows)
        /\ t.keys \cap t.held = {}
    BY <2>2 DEF Sound
  <2> QED BY <2>1, <2>3, <2>4 DEF t
<1>5. \A x \in DOMAIN rows : IsRow(rows[x])
  BY <1>1 DEF TableOf
<1> QED BY <1>3, <1>4, <1>5 DEF SessionsTyped

\* What a transaction that commits has been like.
LEMMA Committing ==
  ASSUME SyncInv, [Next]_vars, NEW p \in Procs, NEW kinds, Commits(p, kinds)
  PROVE  /\ rows' = Over(rows, tx[p].wrote)
         /\ Work(tx[p], rows, world.cores, plan[p])
         /\ tx[p].kind = "master" => Phase(tx[p], rows, world.cores, 14)
         /\ DOMAIN rows' = DOMAIN rows \cup DOMAIN tx[p].wrote
<1>1. plan[p] = <<"commit">> /\ outcome'[p] = "ok"
  BY DEF Commits
<1>2. Commit(p)
  BY <1>1, OnlyCommit
<1>3. rows' = Over(rows, tx[p].wrote)
  BY <1>2 DEF Commit, Visible
<1>4. Work(tx[p], rows, world.cores, plan[p])
  <2>1. plan[p] # <<>>
    BY <1>1
  <2> QED BY <2>1 DEF SyncInv, TxInv, InOrder
<1>5. Head(plan[p]) = "commit"
  BY <1>1
<1>6. tx[p].kind = "master" => Phase(tx[p], rows, world.cores, 14)
  BY <1>4, <1>5, PhaseAt
<1>7. DOMAIN rows' = DOMAIN rows \cup DOMAIN tx[p].wrote
  BY <1>3 DEF Over
<1> QED BY <1>3, <1>4, <1>6, <1>7

\* A commit finds the gaps filled and nothing else: Kept, of what it publishes.
LEMMA GapsOnlyStep ==
  SyncInv /\ [Next]_vars =>
    \A p \in Procs :
      Commits(p, {"master", "sync", "stage"}) /\ tx[p].calm =>
        \A x \in DOMAIN rows : \A f \in {"code", "norm", "country"} :
          rows[x][f] # Nothing => rows'[x][f] = rows[x][f]
<1> SUFFICES ASSUME SyncInv, [Next]_vars, NEW p \in Procs,
                    Commits(p, {"master", "sync", "stage"}), tx[p].calm,
                    NEW x \in DOMAIN rows, NEW f \in {"code", "norm", "country"},
                    rows[x][f] # Nothing
             PROVE  rows'[x][f] = rows[x][f]
  OBVIOUS
<1>1. rows' = Over(rows, tx[p].wrote) /\ Work(tx[p], rows, world.cores, plan[p])
  BY Committing
<1>2. tx[p].kind \in Fillers
  BY DEF Commits, Fillers
<1>3. Kept(tx[p], rows)
  BY <1>1, <1>2 DEF Work
<1> QED BY <1>1, <1>3 DEF Kept, GapFields

\* A commit publishes what Covered says of the last phase.
LEMMA CoveredStep ==
  SyncInv /\ [Next]_vars =>
    \A p \in Procs :
      Commits(p, {"master"}) /\ tx[p].calm =>
        \A i \in DOMAIN world.cores :
          LET c == world.cores[i]
              alias == tx[p].alias
          IN c.active =>
               \/ \E x \in DOMAIN rows' : rows'[x].core = c.id
               \/ /\ c.slug \in DOMAIN alias /\ alias[c.slug] \in DOMAIN rows'
                  /\ rows'[alias[c.slug]].core # Nothing
<1> SUFFICES ASSUME SyncInv, [Next]_vars, NEW p \in Procs,
                    Commits(p, {"master"}), tx[p].calm, NEW i \in DOMAIN world.cores,
                    world.cores[i].active
             PROVE  \/ \E x \in DOMAIN rows' : rows'[x].core = world.cores[i].id
                    \/ /\ world.cores[i].slug \in DOMAIN tx[p].alias
                       /\ tx[p].alias[world.cores[i].slug] \in DOMAIN rows'
                       /\ rows'[tx[p].alias[world.cores[i].slug]].core # Nothing
  OBVIOUS
<1> DEFINE t == tx[p]
           c == world.cores[i]
<1>1. /\ rows' = Over(rows, t.wrote) /\ DOMAIN rows' = DOMAIN rows \cup DOMAIN t.wrote
      /\ t.kind = "master" => Phase(t, rows, world.cores, 14)
  BY Committing
<1>2. Phase(t, rows, world.cores, 14)
  BY <1>1 DEF Commits
<1>3. Covered(t, rows, c) /\ DOMAIN t.seen = {} /\ t.new = {}
  BY <1>2 DEF Phase
<1>4. PICK x \in Reach(t, rows) :
        \/ Obj(t, rows, x).core = c.id
        \/ c.slug \in DOMAIN t.alias /\ x = t.alias[c.slug] /\ Obj(t, rows, x).core # Nothing
  BY <1>3 DEF Covered
<1>5. x \in DOMAIN rows' /\ Obj(t, rows, x) = rows'[x]
  BY <1>1, <1>3 DEF Reach, Obj
<1> QED BY <1>4, <1>5

\* A commit publishes what has been counted: Tally, with nothing left to flush.
LEMMA CountsStep ==
  SyncInv /\ [Next]_vars =>
    \A p \in Procs :
      Commits(p, {"master"}) => tx[p].created = Cardinality(tx[p].inserted)
<1> SUFFICES ASSUME SyncInv, [Next]_vars, NEW p \in Procs, Commits(p, {"master"})
             PROVE  tx[p].created = Cardinality(tx[p].inserted)
  OBVIOUS
<1> DEFINE t == tx[p]
<1>1. t.kind = "master" => Phase(t, rows, world.cores, 14)
  BY Committing
<1>2. Phase(t, rows, world.cores, 14)
  BY <1>1 DEF Commits
<1>3. Tally(t) /\ t.new = {}
  BY <1>2 DEF Phase
<1>4. Cardinality({}) = 0
  BY FS_EmptySet
<1>5. Cardinality(t.inserted) \in Nat
  BY <1>3, FS_CardinalityType DEF Tally
<1> QED BY <1>3, <1>4, <1>5 DEF Tally

-----------------------------------------------------------------------------
(* The theorems.                                                           *)

\* The aviation pipeline and the full refresh run at the same time only after
\* one of them has lost its lock while it ran, by expiry, a stall cleanup, an
\* accepted operation or a reset: neither a skipped run, nor one that raises
\* before its try, nor a dying worker, nor the end of one of two runs that
\* have not, gives away the lock of another.
THEOREM PipelinesExclude == Spec => []OverlapNeedsRemoval
<1>1. PipelineInv => OverlapNeedsRemoval
  BY Distinct DEF PipelineInv, LockKept, OverlapNeedsRemoval, Pipelines
<1> QED BY <1>1, PipelineInit, PipelineStep, PTL DEF Spec

\* A run that says "completed" has, for each of the stages that write
\* airlines, a transaction that committed, a failure that it lists, or a
\* drift that the reconciliation took back.
THEOREM CompletedTells == Spec => []CompletedIsTold
<1>1. PipelineInv => CompletedIsTold
  BY DEF PipelineInv
<1> QED BY <1>1, PipelineInit, PipelineStep, PTL DEF Spec

\* A synchronisation, an enrichment or the metadata stage that nobody disturbs
\* leaves the codes, normalised names and countries that rows have, for any
\* feed, site and tables, also when it starts over from its savepoint.
THEOREM GapsStayFilled == Spec => GapsOnly
  BY SyncInvInit, SyncInvStep, GapsOnlyStep, PTL DEF Spec, GapsOnly

\* After a master synchronisation that nobody disturbs, every active core
\* airline has its metadata or resolves to a row that has a core airline.
THEOREM CoresAreCovered == Spec => CoreIsCovered
  BY SyncInvInit, SyncInvStep, CoveredStep, PTL DEF Spec, CoreIsCovered

\* The airlines that a synchronisation reports as created are the rows that it
\* inserts, disturbed or not, and the sessions keep their types.
THEOREM CountsAreTrue == Spec => CountsReconcile
<1>1. Spec => []SessionsTyped
  BY SyncInvInit, SyncInvStep, SessionsHold, PTL DEF Spec
<1>2. Spec => [][\A p \in Procs :
                   Commits(p, {"master"}) => tx[p].created = Cardinality(tx[p].inserted)]_vars
  BY SyncInvInit, SyncInvStep, CountsStep, PTL DEF Spec
<1> QED BY <1>1, <1>2, PTL DEF CountsReconcile

===========================================================================
