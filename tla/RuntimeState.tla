---------------------------- MODULE RuntimeState ----------------------------
(***************************************************************************)
(* The shared runtime document of app/runtime_state.py: one JSON value     *)
(* under RUNTIME_KEY that every process reads, changes in memory and       *)
(* writes back, and a copy of it in each process that stands in when       *)
(* Redis answers with an error or with nothing.  Beside it, the Redis list *)
(* of degraded stages, which the document repeats in degraded_history.     *)
(*                                                                         *)
(* Modelled: every call that writes the keys forecasting and the degraded  *)
(* history use, one action per access to Redis.  The stage blocks of the   *)
(* same document are in SchemaGovernance; here their writer is one more    *)
(* merge that changes no key of the model.  A job runs in a fork of its    *)
(* worker, so a process forgets its memory and environment at its end.     *)
(***************************************************************************)
EXTENDS Naturals, Sequences, FiniteSets

CONSTANTS
  Procs,        \* worker processes, each running one job at a time
  Ops,          \* operation ids
  Stages,       \* stages that can be recorded as degraded
  HistoryCap,   \* 50
  Window,       \* 300 s, in ticks
  Cooldown,     \* 600 s, in ticks
  MaxTime,      \* bound: ticks
  Budgets       \* bounds: the forecasts, calls on the degraded history
                \* and Redis faults one behaviour may have

ASSUME BoundsAssumption ==
  /\ HistoryCap \in Nat \ {0}
  /\ {Window, Cooldown} \subseteq Nat \ {0}
  /\ MaxTime \in Nat
  /\ \A b \in Budgets : {b.runs, b.calls, b.faults} \subseteq Nat

VARIABLES
  doc,        \* the value of RUNTIME_KEY, or NoDoc
  list,       \* DEGRADED_HISTORY_KEY, newest first
  mem,        \* _memory_state of each process
  pc,         \* where each process stands in a call, or "idle"
  frame,      \* the local variables of its call
  now,        \* time.time()
  log,        \* history: when each crash of a child was recorded
  overlapped, \* history: two calls overlapped, or Redis failed or forgot
  calls,      \* what is left of the budget
  faults

redis == <<doc, list>>
rsvars == <<redis, mem, pc, frame, now, log, overlapped, calls, faults>>

-----------------------------------------------------------------------------
Entries == [op : Ops, stage : Stages]

\* The key is missing.
NoDoc == <<>>

\* The keys the model keeps.  A crash is the index of its entry in log.
Fresh == [safe |-> FALSE, crashes |-> {}, cooldown |-> 0, history |-> <<>>]

\* dict.update
Updated(s, u) == [k \in DOMAIN s |-> IF k \in DOMAIN u THEN u[k] ELSE s[k]]

FirstOf(h, n) == SubSeq(h, 1, IF Len(h) < n THEN Len(h) ELSE n)

\* Mutation: the history of the document keeps one entry more.
NewestFirstOneMore(e, h) == FirstOf(<<e>> \o h, HistoryCap + 1)

NewestFirst(e, h) == FirstOf(<<e>> \o h, HistoryCap)

\* _load: what p gets from Redis, or its own memory when the key is missing.
Seen(p) == IF doc = NoDoc THEN mem[p] ELSE doc

Fail(ok) == (ok \/ faults > 0) /\ faults' = faults - (IF ok THEN 0 ELSE 1)

InCall(p) == pc[p] \in {"merge", "save", "history", "range", "replace"}

\* The first access of a call of p to Redis, and every other: it is ok, or
\* it fails.
Enter(p, ok) ==
  /\ Fail(ok)
  /\ overlapped' = (overlapped \/ ~ok \/ \E q \in Procs \ {p} : InCall(q))

Within(ok) == Fail(ok) /\ overlapped' = (overlapped \/ ~ok)

Loaded(p, ok) == IF ok THEN Seen(p) ELSE mem[p]

Goto(p, l) == pc' = [pc EXCEPT ![p] = l]

\* Locals: where the call returns to, what it is about (an entry, or keys
\* to merge), the document it will write, the list as it read it.
NoFrame == [back |-> "idle", arg |-> <<>>, copy |-> <<>>, rows |-> <<>>]

Call(p, l, f) == Goto(p, l) /\ frame' = [frame EXCEPT ![p] = f]

Return(p) == Call(p, frame[p].back, NoFrame)

-----------------------------------------------------------------------------
\* merge_state loads again and lays its updates over what it gets.
MergeLoad(p) ==
  /\ pc[p] = "merge"
  /\ \E ok \in BOOLEAN :
       /\ Within(ok)
       /\ Call(p, "save", [frame[p] EXCEPT
                            !.copy = Updated(Loaded(p, ok), frame[p].arg)])
  /\ UNCHANGED <<redis, mem, now, log, calls>>

\* _save: the process's memory always, Redis when it answers.
Save(p) ==
  /\ pc[p] = "save"
  /\ mem' = [mem EXCEPT ![p] = frame[p].copy]
  /\ \E ok \in BOOLEAN :
       Within(ok) /\ doc' = IF ok THEN frame[p].copy ELSE doc
  /\ IF frame[p].back = "range"
     THEN Call(p, "range", [frame[p] EXCEPT !.back = "idle"])
     ELSE Return(p)
  /\ UNCHANGED <<list, now, log, calls>>

\* Mutation: crashes never leave the window.
RecentForEver(s) == s.crashes

Recent(s) == {i \in s.crashes : now - log[i] < Window}

\* Mutation: the crash just recorded does not count.
LoopsOnFourth(window) == Cardinality(window) > 3

Loops(window) == Cardinality(window) >= 3

\* record_subprocess_crash reads the window and, at the third crash in it,
\* sets the term of the cooldown; merge_state writes both.
CrashKeys(s) ==
  LET window == Recent(s) \cup {Len(log) + 1}
  IN [crashes  |-> window,
      cooldown |-> IF Loops(window) THEN now + Cooldown ELSE s.cooldown]

RecordCrash(p, next) ==
  /\ \E ok \in BOOLEAN :
       /\ Enter(p, ok)
       /\ Call(p, "merge", [NoFrame EXCEPT !.back = next,
                                           !.arg = CrashKeys(Loaded(p, ok))])
  /\ log' = Append(log, now)
  /\ UNCHANGED <<redis, mem, now, calls>>

\* activate_forecast_safe_mode and the end of runtime_state_reset: keys that
\* are known beforehand.
MergeKeys(p, keys, next) ==
  /\ \E ok \in BOOLEAN :
       /\ Enter(p, ok)
       /\ Call(p, "save", [NoFrame EXCEPT !.back = next,
                            !.copy = Updated(Loaded(p, ok), keys)])
  /\ UNCHANGED <<redis, mem, now, log>>

-----------------------------------------------------------------------------
NewCall(p) == pc[p] = "idle" /\ calls > 0 /\ calls' = calls - 1

\* record_degraded_stage pushes to the list and trims it, then rewrites the
\* history of the document.  The list's EXPIRE is left out.
RecordDegraded(p, e) ==
  /\ NewCall(p)
  /\ \E ok \in BOOLEAN :
       /\ Enter(p, ok)
       /\ list' = IF ok THEN FirstOf(<<e>> \o list, HistoryCap) ELSE list
  /\ Call(p, "history", [NoFrame EXCEPT !.arg = e])
  /\ UNCHANGED <<doc, mem, now, log>>

ReadHistory(p) ==
  /\ pc[p] = "history"
  /\ \E ok \in BOOLEAN :
       LET h == Loaded(p, ok).history
       IN /\ Within(ok)
          /\ Call(p, "merge", [frame[p] EXCEPT
                               !.arg = [history |-> NewestFirst(@, h)]])
  /\ UNCHANGED <<redis, mem, now, log, calls>>

\* The entries of h other than e, in their order.
Without(h, e) ==
  LET kept[i \in 0..Len(h)] ==
        IF i = 0 THEN <<>>
        ELSE IF h[i] = e THEN kept[i-1] ELSE Append(kept[i-1], h[i])
  IN kept[Len(h)]

\* remove_false_degraded_events: the history of the document first, written
\* only when an entry goes, and with merge_state's own load in between.
RemoveFalse(p, e) ==
  /\ NewCall(p)
  /\ \E ok \in BOOLEAN :
       LET h == Loaded(p, ok).history
           f == [NoFrame EXCEPT !.rows = e]
       IN /\ Enter(p, ok)
          /\ \/ Without(h, e) = h /\ Call(p, "range", f)
             \/ /\ Without(h, e) # h
                /\ Call(p, "merge", [f EXCEPT
                     !.back = "range", !.arg = [history |-> Without(h, e)]])
  /\ UNCHANGED <<redis, mem, now, log>>

\* It then reads the list and replaces it, in one MULTI, by what it keeps.
\* Exceptions on the way are swallowed.
ReadList(p) ==
  /\ pc[p] = "range"
  /\ \E ok \in BOOLEAN :
       /\ Within(ok)
       /\ IF ok THEN Call(p, "replace", [NoFrame EXCEPT
                                          !.rows = Without(list, frame[p].rows)])
                ELSE Return(p)
  /\ UNCHANGED <<redis, mem, now, log, calls>>

ReplaceList(p) ==
  /\ pc[p] = "replace"
  /\ \E ok \in BOOLEAN :
       Within(ok) /\ list' = IF ok THEN frame[p].rows ELSE list
  /\ Return(p)
  /\ UNCHANGED <<doc, mem, now, log, calls>>

\* runtime_state_reset without an operation, as POST /operations/reset calls
\* it, and the writers of other keys: a load and a save.
Rewrite(p) == NewCall(p) /\ MergeKeys(p, <<>>, "idle")

-----------------------------------------------------------------------------
\* RUNTIME_KEY lives a day after its last write.
DocExpires ==
  /\ doc # NoDoc
  /\ Fail(FALSE)
  /\ doc' = NoDoc
  /\ overlapped' = TRUE
  /\ UNCHANGED <<list, mem, pc, frame, now, log, calls>>

Tick ==
  /\ now < MaxTime
  /\ now' = now + 1
  /\ UNCHANGED <<redis, mem, pc, frame, log, overlapped, calls, faults>>

RuntimeCall(p) ==
  \/ MergeLoad(p)
  \/ Save(p)
  \/ ReadHistory(p)
  \/ ReadList(p)
  \/ ReplaceList(p)
  \/ Rewrite(p)
  \/ \E e \in Entries : RecordDegraded(p, e) \/ RemoveFalse(p, e)

\* A worker's start-up has written the document, which is its memory.
RuntimeInit ==
  /\ doc = Fresh
  /\ list = <<>>
  /\ mem = [p \in Procs |-> Fresh]
  /\ pc = [p \in Procs |-> "idle"]
  /\ frame = [p \in Procs |-> NoFrame]
  /\ now = 0
  /\ log = <<>>
  /\ overlapped = FALSE

-----------------------------------------------------------------------------
\* Three recorded crashes within Window ending at i.
Loop(i) ==
  \E j, k \in DOMAIN log :
    /\ j < k /\ k < i
    /\ log[i] - log[j] < Window

\* The cooldown that keeps forecasting out of its subprocess is set only by
\* three different crashes within the window, whatever races, outages and
\* stale copies the document went through (record_subprocess_crash).
CooldownIsEarned ==
  \A s \in {mem[p] : p \in Procs} \cup ({doc} \ {NoDoc}) :
    s.cooldown # 0 =>
      \E i \in DOMAIN log : Loop(i) /\ s.cooldown = log[i] + Cooldown

\* The two copies of the degraded history agree whenever no call is under
\* way, as long as calls did not overlap and Redis kept its word: what
\* record_degraded_stage and remove_false_degraded_events do to one they do
\* to the other, in the same order and up to the same length.
HistoriesAgree ==
  (~overlapped /\ \A p \in Procs : ~InCall(p)) => doc.history = list

=============================================================================
