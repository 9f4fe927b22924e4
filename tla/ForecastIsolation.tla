-------------------------- MODULE ForecastIsolation --------------------------
(***************************************************************************)
(* worker/forecasting_isolation.py over the shared runtime document: a     *)
(* stage runs the forecast in a spawned child and, whatever becomes of it, *)
(* ends with a result, falling back to the safe service in its own         *)
(* process.  Native crashes switch to safe mode and, three in a window,    *)
(* to no child at all.                                                     *)
(*                                                                         *)
(* A batch is one generate_and_persist: what it committed and what it says *)
(* it did.  The series and the arithmetic of a forecast are left out; so   *)
(* is the death of the worker, which takes the whole stage with it.        *)
(***************************************************************************)
EXTENDS RuntimeState

CONSTANTS
  MaxDepth     \* bound: nested fallbacks until Python refuses the next

ASSUME ForecastAssumption ==
  /\ MaxDepth \in Nat
  /\ \A b \in Budgets : b.airlines \in Nat

VARIABLES
  env,      \* FORECAST_SAFE_MODE of the job's process
  mode,     \* the service the run uses: "native" or "safe"
  child,    \* the spawned process
  stored,   \* snapshots this stage has committed
  result,   \* what the stage returns, or NoResult
  depth,
  runs,     \* what is left of the budget
  airlines  \* how many BENCHMARK_AIRLINES there are: fixed by Init

fvars == <<env, mode, child, stored, result, depth, runs, airlines>>
vars == <<rsvars, fvars>>

-----------------------------------------------------------------------------
\* Three metrics with two horizons each.
PerAirline == 6

NoBatch == [stored |-> 0, created |-> 0, errors |-> 0]
NoResult == [created |-> 0, errors |-> 0, error |-> FALSE, done |-> FALSE]

\* The turns of the loop with this outcome: rows are added, the airline is
\* unknown, or an exception rolls back all that is pending, this airline's and
\* the others'.
Turns(outcomes, o) == {i \in DOMAIN outcomes : outcomes[i] = o}

\* The turns whose rows no later exception rolls back.
Pending(outcomes) ==
  {i \in Turns(outcomes, "added") : \A j \in Turns(outcomes, "raises") : j < i}

\* Mutation: a failed commit is logged and not collected.
BatchSilent(outcomes, committed) ==
  LET errors == Cardinality(Turns(outcomes, "raises"))
  IN [stored  |-> IF committed THEN PerAirline * Cardinality(Pending(outcomes)) ELSE 0,
      created |-> PerAirline * Cardinality(Turns(outcomes, "added")) + errors,
      errors  |-> errors]

\* generate_and_persist: the turns, then one commit, whose failure is one
\* error more.  Nothing is subtracted from created when rows are lost, and an
\* airline that raises has counted a row or more of its own.
Batch(outcomes, committed) ==
  LET errors == Cardinality(Turns(outcomes, "raises"))
  IN [stored  |-> IF committed THEN PerAirline * Cardinality(Pending(outcomes)) ELSE 0,
      created |-> PerAirline * Cardinality(Turns(outcomes, "added")) + errors,
      errors  |-> errors + IF committed THEN 0 ELSE 1]

BatchesOf(turns) ==
  {Batch(outcomes, committed) : committed \in BOOLEAN,
     outcomes \in UNION {[1..n -> {"added", "unknown", "raises"}] : n \in turns}}

\* The native service stops early at STAGE_TIMEOUT_S, the safe one never.
Batches(m) ==
  BatchesOf(IF m = "native" THEN 0..airlines ELSE {airlines})

Report(b, error) ==
  [created |-> b.created, errors |-> b.errors, error |-> error, done |-> TRUE]

-----------------------------------------------------------------------------
\* is_subprocess_cooldown_active: while it is, the safe service in-process.
Start(p) ==
  /\ pc[p] = "idle"
  /\ runs > 0
  /\ runs' = runs - 1
  /\ \E ok \in BOOLEAN :
       /\ Within(ok)
       /\ IF now < Loaded(p, ok).cooldown
          THEN Goto(p, "inprocess") /\ mode' = [mode EXCEPT ![p] = "safe"]
          ELSE Goto(p, "decide") /\ UNCHANGED mode
  /\ UNCHANGED <<redis, mem, frame, now, log, calls, env,
                 child, stored, result, depth, airlines>>

\* is_forecast_safe_mode: the environment first, then the document.
IsSafeMode(p, s) == env[p] \/ s.safe

Spawned(p) == [child EXCEPT ![p].state = "running"]

\* Without FORECAST_ISOLATED the run stays in the process.
Decide(p) ==
  /\ pc[p] = "decide"
  /\ \E ok \in BOOLEAN :
       /\ Within(ok)
       /\ mode' = [mode EXCEPT ![p] =
            IF IsSafeMode(p, Loaded(p, ok)) THEN "safe" ELSE "native"]
  /\ \/ Goto(p, "join") /\ child' = Spawned(p)
     \/ Goto(p, "inprocess") /\ UNCHANGED child
  /\ UNCHANGED <<redis, mem, frame, now, log, calls, env,
                 stored, result, depth, runs, airlines>>

-----------------------------------------------------------------------------
\* _forecast_worker, in the child.
ChildCommits(p) ==
  /\ child[p].state = "running"
  /\ \E b \in Batches(mode[p]) :
       /\ child' = [child EXCEPT ![p] = [state |-> "stored", batch |-> b]]
       /\ stored' = [stored EXCEPT ![p] = @ + b.stored]
  /\ UNCHANGED <<rsvars, env, mode, result, depth, runs, airlines>>

\* It leaves with its result in the queue, with an exception there or with
\* nothing, or by a signal, and before or after it has committed.
ChildEnds(p) ==
  /\ child[p].state \in {"running", "stored"}
  /\ \E end \in {"answer", "failed", "signal", "segfault"} :
       /\ end = "answer" => child[p].state = "stored"
       /\ child' = [child EXCEPT ![p].state = end,
                                ![p].batch = IF end = "answer" THEN @ ELSE NoBatch]
  /\ UNCHANGED <<rsvars, env, mode, stored, result, depth, runs, airlines>>

NoChild(p) == [child EXCEPT ![p] = [state |-> "none", batch |-> NoBatch]]

Finish(p, r) ==
  /\ result' = [result EXCEPT ![p] = r]
  /\ Goto(p, "done")

Fallback(p) == Goto(p, "inprocess") /\ mode' = [mode EXCEPT ![p] = "safe"]

\* The child has left, and its answer is the result.
Answered(p) ==
  /\ pc[p] = "join"
  /\ child[p].state = "answer"
  /\ Finish(p, Report(child[p].batch, FALSE))
  /\ child' = NoChild(p)
  /\ UNCHANGED <<redis, mem, frame, now, log, overlapped, calls, faults,
                 env, mode, stored, depth, runs, airlines>>

\* It failed, or it is still there after the timeout and gets terminated or
\* killed, whatever it has committed meanwhile.
NoAnswer(p) ==
  /\ pc[p] = "join"
  /\ child[p].state \in {"failed", "running", "stored"}
  /\ Fallback(p)
  /\ child' = NoChild(p)
  /\ UNCHANGED <<redis, mem, frame, now, log, overlapped, calls, faults,
                 env, stored, result, depth, runs, airlines>>

\* A signal counts as a crash; signal 11 also switches to safe mode.
Crashed(p) ==
  /\ pc[p] = "join"
  /\ child[p].state \in {"signal", "segfault"}
  /\ RecordCrash(p, IF child[p].state = "segfault"
                    THEN "activate" ELSE "crashed")
  /\ UNCHANGED fvars

Activate(p) ==
  /\ pc[p] = "activate"
  /\ env' = [env EXCEPT ![p] = TRUE]
  /\ MergeKeys(p, [safe |-> TRUE], "crashed")
  /\ UNCHANGED <<calls, mode, child, stored, result, depth, runs, airlines>>

\* _fallback_safe with native_crash: the result will carry an error.
CrashFallback(p) ==
  /\ pc[p] = "crashed"
  /\ Fallback(p)
  /\ child' = NoChild(p)
  /\ result' = [result EXCEPT ![p].error = TRUE]
  /\ UNCHANGED <<redis, mem, frame, now, log, overlapped, calls, faults,
                 env, stored, depth, runs,
                 airlines>>

-----------------------------------------------------------------------------
\* _run_forecasting_inprocess.
InProcess(p) ==
  /\ pc[p] = "inprocess"
  /\ \E b \in Batches(mode[p]) :
       /\ stored' = [stored EXCEPT ![p] = @ + b.stored]
       /\ Finish(p, Report(b, result[p].error))
  /\ UNCHANGED <<redis, mem, frame, now, log, overlapped, calls, faults,
                 env, mode, child, depth, runs, airlines>>

\* An exception falls back to the same function again, until Python's
\* recursion limit makes _fallback_safe give up with an error.
InProcessRaises(p) ==
  /\ pc[p] = "inprocess"
  /\ IF depth[p] < MaxDepth
     THEN /\ depth' = [depth EXCEPT ![p] = @ + 1]
          /\ Fallback(p)
          /\ UNCHANGED result
     ELSE /\ Finish(p, Report([created |-> 0, errors |-> 0], TRUE))
          /\ UNCHANGED <<depth, mode>>
  /\ UNCHANGED <<redis, mem, frame, now, log, overlapped, calls, faults,
                 env, child, stored, runs, airlines>>

\* The job is over; the next one is a new fork of the worker.
JobEnds(p) ==
  /\ pc[p] = "done"
  /\ Goto(p, "idle")
  /\ mem' = [mem EXCEPT ![p] = Fresh]
  /\ env' = [env EXCEPT ![p] = FALSE]
  /\ mode' = [mode EXCEPT ![p] = "native"]
  /\ stored' = [stored EXCEPT ![p] = 0]
  /\ result' = [result EXCEPT ![p] = NoResult]
  /\ depth' = [depth EXCEPT ![p] = 0]
  /\ UNCHANGED <<redis, frame, now, log, overlapped, calls, faults,
                 child, runs, airlines>>

-----------------------------------------------------------------------------
Init ==
  /\ RuntimeInit
  /\ \E b \in Budgets : runs = b.runs /\ calls = b.calls /\ faults = b.faults
                        /\ airlines = b.airlines
  /\ env = [p \in Procs |-> FALSE]
  /\ mode = [p \in Procs |-> "native"]
  /\ child = [p \in Procs |-> [state |-> "none", batch |-> NoBatch]]
  /\ stored = [p \in Procs |-> 0]
  /\ result = [p \in Procs |-> NoResult]
  /\ depth = [p \in Procs |-> 0]

Stage(p) ==
  \/ Decide(p)
  \/ Answered(p)
  \/ NoAnswer(p)
  \/ Crashed(p)
  \/ Activate(p)
  \/ CrashFallback(p)
  \/ InProcess(p)
  \/ InProcessRaises(p)
  \/ JobEnds(p)

Next ==
  \/ \E p \in Procs :
       \/ Start(p)
       \/ Stage(p)
       \/ ChildCommits(p)
       \/ ChildEnds(p)
       \/ RuntimeCall(p) /\ UNCHANGED fvars
  \/ (DocExpires \/ Tick) /\ UNCHANGED fvars

Spec == Init /\ [][Next]_vars

-----------------------------------------------------------------------------
TypeOK ==
  /\ doc = NoDoc \/ doc.history \in Seq(Entries)
  /\ list \in Seq(Entries) /\ Len(list) <= HistoryCap
  /\ env \in [Procs -> BOOLEAN]
  /\ mode \in [Procs -> {"native", "safe"}]
  /\ \A p \in Procs : result[p].done => result[p].error \in BOOLEAN
  /\ overlapped \in BOOLEAN

\* While three crashes recorded within Window are less than Cooldown old, no
\* forecast passes the cooldown test, unless calls have overlapped or Redis
\* has failed (run_forecasting_isolated's promise against crash loops).
CrashLoopIsHalted ==
  [][\A p \in Procs :
       /\ pc[p] = "idle" /\ pc'[p] = "decide"
       /\ ~overlapped'
       => \A i \in DOMAIN log :
            Loop(i) /\ (\A q \in Procs : ~InCall(q)) => now >= log[i] + Cooldown]_vars

\* A stage may claim more snapshots than it has stored only with an error in
\* its list, although rollbacks leave its counter alone (and the variables keep
\* their types).
OverclaimIsListed ==
  /\ TypeOK
  /\ \A p \in Procs :
       result[p].done /\ result[p].created > stored[p] => result[p].errors > 0

=============================================================================
