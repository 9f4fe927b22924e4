----------------------- MODULE ForecastIsolationProofs -----------------------
(***************************************************************************)
(* Proofs about ForecastIsolation and the runtime document under it, for   *)
(* any number of processes, forecasts, calls and faults.                   *)
(***************************************************************************)
EXTENDS ForecastIsolation, FiniteSetTheorems, WellFoundedInduction, TLAPS

-----------------------------------------------------------------------------
(* The parts of a state the proofs speak of.                               *)

\* Points of a call on the runtime document, and of a stage.
CallPoints == {"merge", "save", "history", "range", "replace"}
Points == CallPoints \cup
  {"idle", "decide", "inprocess", "join", "activate", "crashed", "done"}

\* Where a call may return to, and the locals of one.
Backs == {"idle", "range", "activate", "crashed"}
Locals == {"back", "arg", "copy", "rows"}

\* The control state, the clock, and the crashes in the order of their times.
ControlOK ==
  /\ pc \in [Procs -> Points]
  /\ DOMAIN mem = Procs /\ DOMAIN frame = Procs
  /\ \A p \in Procs :
       /\ DOMAIN frame[p] = Locals
       /\ frame[p].back \in Backs
       /\ pc[p] \in {"history", "range", "replace"} => frame[p].back = "idle"
  /\ overlapped \in BOOLEAN
  /\ now \in Nat
  /\ log \in Seq(Nat)
  /\ \A i \in DOMAIN log : log[i] <= now
  /\ \A i, j \in DOMAIN log : i < j => log[i] <= log[j]

-----------------------------------------------------------------------------
(* What the operators return. *)

LEMMA Bounds ==
  HistoryCap \in Nat /\ Window \in Nat \ {0} /\ Cooldown \in Nat \ {0}
BY BoundsAssumption DEF BoundsAssumption

LEMMA ThreeAreALoop ==
  ASSUME NEW n \in Nat, NEW W \in SUBSET (1..n), NEW j \in W, NEW k \in W,
         j < k, k < n, n \in W
  PROVE Loops(W)
<1>1. IsFiniteSet(1..n)
  BY FS_Interval
<1>2. IsFiniteSet(W) /\ Cardinality(W) \in Nat
  BY <1>1, FS_Subset, FS_CardinalityType
<1>3. /\ IsFiniteSet(W \ {n}) /\ Cardinality(W \ {n}) = Cardinality(W) - 1
      /\ Cardinality(W \ {n}) \in Nat
  BY <1>2, FS_RemoveElement, FS_CardinalityType
<1>4. k \in W \ {n} /\ j \in W \ {n}
  OBVIOUS
<1>5. /\ IsFiniteSet((W \ {n}) \ {k})
      /\ Cardinality((W \ {n}) \ {k}) = Cardinality(W \ {n}) - 1
      /\ Cardinality((W \ {n}) \ {k}) \in Nat
  BY <1>3, <1>4, FS_RemoveElement, FS_CardinalityType
<1>6. j \in (W \ {n}) \ {k}
  BY <1>4
<1>7. Cardinality((W \ {n}) \ {k}) # 0
  BY <1>5, <1>6, FS_EmptySet
<1> QED
  BY <1>2, <1>3, <1>5, <1>7 DEF Loops

\* A window that loops has two crashes besides the newest.
LEMMA LoopIsThree ==
  ASSUME NEW n \in Nat, NEW W \in SUBSET (1..n), n \in W, Loops(W)
  PROVE \E j, k \in W : j < k /\ k < n
<1>1. IsFiniteSet(1..n)
  BY FS_Interval
<1>2. IsFiniteSet(W) /\ Cardinality(W) \in Nat
  BY <1>1, FS_Subset, FS_CardinalityType
<1>3. /\ IsFiniteSet(W \ {n}) /\ Cardinality(W \ {n}) = Cardinality(W) - 1
      /\ Cardinality(W \ {n}) \in Nat
  BY <1>2, FS_RemoveElement, FS_CardinalityType
<1>4. Cardinality(W \ {n}) >= 2
  <2>1. Cardinality(W) >= 3
    BY DEF Loops
  <2> QED
    BY <1>2, <1>3, <2>1
<1>5. PICK k \in W \ {n} : TRUE
  <2>1. Cardinality(W \ {n}) # 0
    BY <1>3, <1>4
  <2>2. W \ {n} # {}
    BY <1>3, <2>1, FS_EmptySet
  <2> QED
    BY <2>2
<1>6. PICK j \in W \ {n} : j # k
  <2>1. Cardinality(W \ {n}) # 1
    BY <1>4
  <2>2. W \ {n} # {k}
    BY <1>3, <2>1, FS_Singleton
  <2> QED
    BY <1>5, <2>2
<1>7. j \in Nat /\ k \in Nat /\ j < n /\ k < n
  OBVIOUS
<1>8. j < k \/ k < j
  BY <1>6, <1>7
<1> QED
  BY <1>5, <1>6, <1>7, <1>8

-----------------------------------------------------------------------------
(* The cooldown.                                                           *)

\* What Loop and CooldownIsEarned say, of a log given beside them.
LoopIn(l, i) ==
  \E j, k \in DOMAIN l : j < k /\ k < i /\ l[i] - l[j] < Window

EarnedIn(l, c) == \E i \in DOMAIN l : LoopIn(l, i) /\ c = l[i] + Cooldown

\* What a document, and the keys a call will lay over one, hold of the log.
SoundKeys(u, l) ==
  /\ "crashes" \in DOMAIN u => u.crashes \subseteq DOMAIN l
  /\ "cooldown" \in DOMAIN u =>
       u.cooldown \in Nat /\ (u.cooldown # 0 => EarnedIn(l, u.cooldown))

Sound(s, l) ==
  /\ DOMAIN s = {"safe", "crashes", "cooldown", "history"}
  /\ SoundKeys(s, l)

\* Every copy of the document is sound, those of calls under way included.
SoundInv ==
  /\ ControlOK
  /\ doc # NoDoc => Sound(doc, log)
  /\ \A p \in Procs :
       /\ Sound(mem[p], log)
       /\ pc[p] = "merge" => SoundKeys(frame[p].arg, log)
       /\ pc[p] = "save" => Sound(frame[p].copy, log)

LEMMA FreshIsSound == ASSUME NEW l PROVE Sound(Fresh, l)
BY DEF Sound, SoundKeys, Fresh

LEMMA UpdatedIsSound ==
  ASSUME NEW l, NEW s, NEW u, Sound(s, l), SoundKeys(u, l)
  PROVE Sound(Updated(s, u), l)
<1>1. DOMAIN Updated(s, u) = {"safe", "crashes", "cooldown", "history"}
  BY DEF Sound, Updated
<1>2. /\ Updated(s, u).crashes = IF "crashes" \in DOMAIN u THEN u.crashes
                                                           ELSE s.crashes
      /\ Updated(s, u).cooldown = IF "cooldown" \in DOMAIN u THEN u.cooldown
                                                             ELSE s.cooldown
  BY DEF Sound, Updated
<1> QED
  BY <1>1, <1>2 DEF Sound, SoundKeys

\* What was earned stays so when the log grows.
LEMMA GrownKeys ==
  ASSUME NEW l \in Seq(Nat), NEW n \in Nat, NEW u, SoundKeys(u, l)
  PROVE SoundKeys(u, Append(l, n))
<1> DEFINE m == Append(l, n)
<1>1. /\ DOMAIN l \subseteq DOMAIN m
      /\ \A i \in DOMAIN l : m[i] = l[i]
  OBVIOUS
<1>2. ASSUME NEW c, EarnedIn(l, c) PROVE EarnedIn(m, c)
  <2>1. PICK i \in DOMAIN l : LoopIn(l, i) /\ c = l[i] + Cooldown
    BY <1>2 DEF EarnedIn
  <2>2. LoopIn(m, i)
    BY <1>1, <2>1 DEF LoopIn
  <2> QED
    BY <1>1, <2>1, <2>2 DEF EarnedIn
<1> HIDE DEF m
<1>3. SoundKeys(u, m)
  BY <1>1, <1>2 DEF SoundKeys
<1> QED
  BY <1>3 DEF m

LEMMA Grown ==
  ASSUME NEW l \in Seq(Nat), NEW n \in Nat, NEW s, Sound(s, l)
  PROVE Sound(s, Append(l, n))
BY GrownKeys DEF Sound

\* What a call sees is sound, unless nothing has been lost but the key.
LEMMA LoadedIsSound ==
  ASSUME SoundInv, NEW p \in Procs, NEW ok \in BOOLEAN
  PROVE Sound(Loaded(p, ok), log)
BY DEF SoundInv, Loaded, Seen

\* A crash is recorded with the loop it closes.
LEMMA CrashKeysAreSound ==
  ASSUME ControlOK, NEW s, Sound(s, log)
  PROVE SoundKeys(CrashKeys(s), Append(log, now))
<1> DEFINE n == Len(log) + 1
           window == Recent(s) \cup {n}
           m == Append(log, now)
<1>1. /\ log \in Seq(Nat) /\ now \in Nat /\ n \in Nat
      /\ DOMAIN m = 1..n /\ m[n] = now
      /\ \A i \in DOMAIN log : i < n /\ m[i] = log[i]
      /\ \A i \in 1..n : i < n => i \in DOMAIN log
  BY DEF ControlOK
<1>2. Recent(s) \subseteq DOMAIN log
  BY DEF Recent, Sound, SoundKeys
<1>3. window \subseteq 1..n
  BY <1>1, <1>2
<1>4. Loops(window) => EarnedIn(m, now + Cooldown)
  <2>1. SUFFICES ASSUME Loops(window) PROVE EarnedIn(m, now + Cooldown)
    OBVIOUS
  <2>2. PICK j, k \in window : j < k /\ k < n
    <3> HIDE DEF n, window
    <3>1. n \in window
      BY DEF window
    <3> QED
      BY <1>1, <1>3, <2>1, <3>1, LoopIsThree
  <2>3. j \in DOMAIN log /\ k \in DOMAIN log
    BY <1>1, <1>3, <2>2
  <2>4. now - log[j] < Window
    BY <1>1, <2>2, <2>3 DEF Recent
  <2>5. LoopIn(m, n)
    <3>1. j \in DOMAIN m /\ k \in DOMAIN m /\ m[n] - m[j] < Window
      BY <1>1, <2>3, <2>4
    <3> HIDE DEF n, window, m
    <3> QED
      BY <2>2, <3>1 DEF LoopIn
  <2> QED
    BY <1>1, <2>5 DEF EarnedIn
<1>5. /\ DOMAIN CrashKeys(s) = {"crashes", "cooldown"}
      /\ CrashKeys(s).crashes = window
      /\ CrashKeys(s).cooldown = IF Loops(window) THEN now + Cooldown
                                                  ELSE s.cooldown
  BY DEF CrashKeys
<1>6. /\ s.cooldown \in Nat
      /\ s.cooldown # 0 => EarnedIn(m, s.cooldown)
  BY <1>1, Grown DEF Sound, SoundKeys
<1>7. now + Cooldown \in Nat
  BY <1>1, Bounds
<1> HIDE DEF n, window, m
<1>8. SoundKeys(CrashKeys(s), m)
  BY <1>1, <1>3, <1>4, <1>5, <1>6, <1>7 DEF SoundKeys
<1> QED
  BY <1>8 DEF m


\* A step that takes p to l, with or without a new frame, and may put a
\* sound document into p's memory and into Redis.
LEMMA StepKeepsControl ==
  ASSUME ControlOK, NEW p \in Procs, NEW l \in Points, NEW f,
         pc' = [pc EXCEPT ![p] = l],
         frame' = [frame EXCEPT ![p] = f]
           \/ (frame' = frame /\ l \notin CallPoints),
         DOMAIN f = Locals, f.back \in Backs,
         l \in {"history", "range", "replace"} => f.back = "idle",
         DOMAIN mem' = Procs,
         log' = log \/ log' = Append(log, now),
         now' = now, overlapped' \in BOOLEAN
  PROVE ControlOK'
<1>1. pc' \in [Procs -> Points]
  BY DEF ControlOK
<1>2. DOMAIN frame' = Procs
  BY DEF ControlOK
<1>3. ASSUME NEW q \in Procs
      PROVE /\ DOMAIN frame'[q] = Locals
            /\ frame'[q].back \in Backs
            /\ pc'[q] \in {"history", "range", "replace"}
                 => frame'[q].back = "idle"
  BY DEF ControlOK, CallPoints
<1>4. /\ log' \in Seq(Nat)
      /\ \A i \in DOMAIN log' : log'[i] <= now
      /\ \A i, j \in DOMAIN log' : i < j => log'[i] <= log'[j]
  <2>1. CASE log' = log
    BY <2>1 DEF ControlOK
  <2>2. CASE log' = Append(log, now)
    <3>1. /\ log \in Seq(Nat) /\ now \in Nat
          /\ DOMAIN log' = 1..(Len(log) + 1)
          /\ log'[Len(log) + 1] = now
          /\ \A i \in 1..Len(log) : log'[i] = log[i]
      BY <2>2 DEF ControlOK
    <3> QED
      BY <2>2, <3>1 DEF ControlOK
  <2> QED
    BY <2>1, <2>2
<1> QED
  BY <1>1, <1>2, <1>3, <1>4 DEF ControlOK

LEMMA StepKeepsSound ==
  ASSUME SoundInv, ControlOK', NEW p \in Procs, NEW l, NEW f,
         pc' = [pc EXCEPT ![p] = l],
         frame' = [frame EXCEPT ![p] = f]
           \/ (frame' = frame /\ l \notin CallPoints),
         l = "merge" => SoundKeys(f.arg, log'),
         l = "save" => Sound(f.copy, log'),
         \A q \in Procs : mem'[q] = mem[q] \/ Sound(mem'[q], log'),
         doc' = doc \/ doc' = NoDoc \/ Sound(doc', log'),
         log' = log \/ log' = Append(log, now)
  PROVE SoundInv'
<1>0. log \in Seq(Nat) /\ now \in Nat
  BY DEF SoundInv, ControlOK
<1>1. ASSUME NEW s, Sound(s, log) PROVE Sound(s, log')
  <2>1. Sound(s, Append(log, now))
    BY <1>0, <1>1, Grown
  <2> QED
    BY <1>1, <2>1
<1>2. ASSUME NEW u, SoundKeys(u, log) PROVE SoundKeys(u, log')
  <2>1. SoundKeys(u, Append(log, now))
    BY <1>0, <1>2, GrownKeys
  <2> QED
    BY <1>2, <2>1
<1>3. doc' # NoDoc => Sound(doc', log')
  BY <1>1 DEF SoundInv
<1>4. ASSUME NEW q \in Procs PROVE Sound(mem'[q], log')
  BY <1>1 DEF SoundInv
<1>5. ASSUME NEW q \in Procs
      PROVE /\ pc'[q] = "merge" => SoundKeys(frame'[q].arg, log')
            /\ pc'[q] = "save" => Sound(frame'[q].copy, log')
  <2>1. CASE q # p
    <3>1. pc'[q] = pc[q] /\ frame'[q] = frame[q]
      BY <2>1 DEF SoundInv, ControlOK
    <3> QED
      BY <1>1, <1>2, <3>1 DEF SoundInv
  <2>2. CASE q = p
    <3>1. pc'[q] = l
      BY <2>2 DEF SoundInv, ControlOK
    <3>2. l \in {"merge", "save"} => frame'[q] = f
      BY <2>2 DEF SoundInv, ControlOK, CallPoints
    <3> QED
      BY <3>1, <3>2
  <2> QED
    BY <2>1, <2>2
<1> QED
  BY <1>3, <1>4, <1>5 DEF SoundInv


\* A step of p outside the calls on the document.
LEMMA MoveKeepsSound ==
  ASSUME SoundInv, NEW p \in Procs, NEW l \in Points \ CallPoints, Goto(p, l),
         UNCHANGED <<redis, frame, log, now>>, overlapped' \in BOOLEAN,
         mem' = mem \/ mem' = [mem EXCEPT ![p] = Fresh]
  PROVE SoundInv'
<1>0. /\ DOMAIN NoFrame = Locals /\ NoFrame.back \in Backs
      /\ pc' = [pc EXCEPT ![p] = l]
      /\ l \in Points /\ l \notin {"history", "range", "replace", "merge", "save"}
      /\ l \notin CallPoints
  BY DEF NoFrame, Locals, Backs, Goto, CallPoints
<1>1. ControlOK'
  <2>1. DOMAIN mem' = Procs
    BY DEF SoundInv, ControlOK
  <2> QED
    BY <1>0, <2>1, StepKeepsControl DEF SoundInv
<1>2. \A q \in Procs : mem'[q] = mem[q] \/ Sound(mem'[q], log')
  BY FreshIsSound DEF SoundInv, ControlOK
<1>3. doc' = doc
  BY DEF redis
<1> QED
  BY <1>0, <1>1, <1>2, <1>3, StepKeepsSound

\* A step of p into a call, or on in one.
LEMMA CallKeepsSound ==
  ASSUME SoundInv, NEW p \in Procs, NEW l \in Points, NEW f, Call(p, l, f),
         DOMAIN f = Locals, f.back \in Backs,
         l \in {"history", "range", "replace"} => f.back = "idle",
         l = "merge" => SoundKeys(f.arg, log'),
         l = "save" => Sound(f.copy, log'),
         mem' = mem \/ (Sound(frame[p].copy, log)
                        /\ mem' = [mem EXCEPT ![p] = frame[p].copy]),
         doc' = doc \/ Sound(doc', log'),
         log' = log \/ log' = Append(log, now),
         now' = now, overlapped' \in BOOLEAN
  PROVE SoundInv'
<1>0. log \in Seq(Nat) /\ now \in Nat
  BY DEF SoundInv, ControlOK
<1>1. ControlOK'
  <2>1. DOMAIN mem' = Procs
    BY DEF SoundInv, ControlOK
  <2>2. pc' = [pc EXCEPT ![p] = l] /\ frame' = [frame EXCEPT ![p] = f]
    BY DEF Call, Goto
  <2> QED
    BY <2>1, <2>2, StepKeepsControl DEF SoundInv
<1>2. \A q \in Procs : mem'[q] = mem[q] \/ Sound(mem'[q], log')
  <2>1. Sound(frame[p].copy, log) => Sound(frame[p].copy, log')
    BY <1>0, Grown
  <2> QED
    BY <2>1 DEF SoundInv, ControlOK
<1> QED
  BY <1>1, <1>2, StepKeepsSound DEF Call, Goto


LEMMA BudgetIsABoolean ==
  ASSUME SoundInv, NEW p \in Procs, NEW ok \in BOOLEAN, Enter(p, ok) \/ Within(ok)
  PROVE overlapped' \in BOOLEAN
BY DEF SoundInv, ControlOK, Enter, Within

LEMMA RecordKeepsSound ==
  ASSUME SoundInv, NEW p \in Procs, NEW next \in Backs, RecordCrash(p, next)
  PROVE SoundInv'
<1>1. PICK ok \in BOOLEAN :
        /\ Enter(p, ok)
        /\ Call(p, "merge", [NoFrame EXCEPT !.back = next,
                                            !.arg = CrashKeys(Loaded(p, ok))])
  BY DEF RecordCrash
<1>2. /\ log' = Append(log, now) /\ doc' = doc /\ mem' = mem /\ now' = now
  BY DEF RecordCrash, redis
<1> DEFINE f == [NoFrame EXCEPT !.back = next, !.arg = CrashKeys(Loaded(p, ok))]
<1>3. /\ DOMAIN f = Locals /\ f.back \in Backs
      /\ f.arg = CrashKeys(Loaded(p, ok))
  BY DEF NoFrame, Locals
<1>4. SoundKeys(f.arg, log')
  BY <1>2, <1>3, LoadedIsSound, CrashKeysAreSound DEF SoundInv
<1>5. Call(p, "merge", f)
  BY <1>1
<1>6. overlapped' \in BOOLEAN
  BY <1>1, BudgetIsABoolean
<1> HIDE DEF f
<1> QED
  BY <1>2, <1>3, <1>4, <1>5, <1>6, CallKeepsSound DEF Points, CallPoints

LEMMA MergeKeysKeepsSound ==
  ASSUME SoundInv, NEW p \in Procs, NEW next \in Backs, NEW keys,
         SoundKeys(keys, log), MergeKeys(p, keys, next)
  PROVE SoundInv'
<1>1. PICK ok \in BOOLEAN :
        /\ Enter(p, ok)
        /\ Call(p, "save", [NoFrame EXCEPT !.back = next,
                             !.copy = Updated(Loaded(p, ok), keys)])
  BY DEF MergeKeys
<1>2. log' = log /\ doc' = doc /\ mem' = mem /\ now' = now
  BY DEF MergeKeys, redis
<1> DEFINE f == [NoFrame EXCEPT !.back = next,
                                !.copy = Updated(Loaded(p, ok), keys)]
<1>3. /\ DOMAIN f = Locals /\ f.back \in Backs
      /\ f.copy = Updated(Loaded(p, ok), keys)
  BY DEF NoFrame, Locals
<1>4. Sound(f.copy, log')
  BY <1>2, <1>3, LoadedIsSound, UpdatedIsSound
<1>5. Call(p, "save", f)
  BY <1>1
<1>6. overlapped' \in BOOLEAN
  BY <1>1, BudgetIsABoolean
<1> HIDE DEF f
<1> QED
  BY <1>2, <1>3, <1>4, <1>5, <1>6, CallKeepsSound DEF Points, CallPoints

LEMMA MergeLoadKeepsSound ==
  ASSUME SoundInv, NEW p \in Procs, MergeLoad(p) PROVE SoundInv'
<1>1. PICK ok \in BOOLEAN :
        /\ Within(ok)
        /\ Call(p, "save", [frame[p] EXCEPT
                             !.copy = Updated(Loaded(p, ok), frame[p].arg)])
  BY DEF MergeLoad
<1>2. log' = log /\ doc' = doc /\ mem' = mem /\ now' = now /\ pc[p] = "merge"
  BY DEF MergeLoad, redis
<1> DEFINE f == [frame[p] EXCEPT !.copy = Updated(Loaded(p, ok), frame[p].arg)]
<1>3. /\ DOMAIN f = Locals /\ f.back \in Backs
      /\ f.copy = Updated(Loaded(p, ok), frame[p].arg)
  BY DEF SoundInv, ControlOK, Locals
<1>4. Sound(f.copy, log')
  BY <1>2, <1>3, LoadedIsSound, UpdatedIsSound DEF SoundInv
<1>5. Call(p, "save", f)
  BY <1>1
<1>6. overlapped' \in BOOLEAN
  BY <1>1, BudgetIsABoolean
<1> HIDE DEF f
<1> QED
  BY <1>2, <1>3, <1>4, <1>5, <1>6, CallKeepsSound DEF Points, CallPoints

LEMMA SaveKeepsSound ==
  ASSUME SoundInv, NEW p \in Procs, Save(p) PROVE SoundInv'
<1>1. PICK ok \in BOOLEAN :
        Within(ok) /\ doc' = IF ok THEN frame[p].copy ELSE doc
  BY DEF Save
<1>2. /\ log' = log /\ now' = now
      /\ mem' = [mem EXCEPT ![p] = frame[p].copy]
      /\ Sound(frame[p].copy, log)
  BY DEF Save, SoundInv
<1>3. doc' = doc \/ Sound(doc', log')
  BY <1>1, <1>2
<1>4. overlapped' \in BOOLEAN
  BY <1>1, BudgetIsABoolean
<1>5. CASE frame[p].back = "range"
  <2> DEFINE f == [frame[p] EXCEPT !.back = "idle"]
  <2>1. DOMAIN f = Locals /\ f.back = "idle" /\ f.back \in Backs
    BY DEF SoundInv, ControlOK, Locals, Backs
  <2>2. Call(p, "range", f)
    BY <1>5 DEF Save
  <2> HIDE DEF f
  <2> QED
    BY <1>2, <1>3, <1>4, <2>1, <2>2, CallKeepsSound DEF Points, CallPoints
<1>6. CASE frame[p].back # "range"
  <2>1. DOMAIN NoFrame = Locals /\ NoFrame.back = "idle" /\ "idle" \in Backs
    BY DEF NoFrame, Locals, Backs
  <2>2. Call(p, frame[p].back, NoFrame)
    BY <1>6 DEF Save, Return
  <2>3. frame[p].back \in Points \ CallPoints
    BY <1>6 DEF SoundInv, ControlOK, Backs, Points, CallPoints
  <2> QED
    BY <1>2, <1>3, <1>4, <2>1, <2>2, <2>3, CallKeepsSound DEF CallPoints
<1> QED
  BY <1>5, <1>6


\* A call that leaves mem, Redis's document and the log alone, and may only
\* come to a merge with keys that say nothing of crashes.
LEMMA HistoryKeepsSound ==
  ASSUME SoundInv, NEW p \in Procs, NEW l \in Points, NEW f, Call(p, l, f),
         l # "save", DOMAIN f = Locals, f.back \in Backs,
         l \in {"history", "range", "replace"} => f.back = "idle",
         l = "merge" => DOMAIN f.arg = {"history"},
         UNCHANGED <<doc, mem, now, log>>, overlapped' \in BOOLEAN
  PROVE SoundInv'
<1>1. l = "merge" => SoundKeys(f.arg, log')
  BY DEF SoundKeys
<1> QED
  BY <1>1, CallKeepsSound

LEMMA HistoryCallsKeepSound ==
  ASSUME SoundInv, NEW p \in Procs,
         \/ \E e \in Entries : RecordDegraded(p, e) \/ RemoveFalse(p, e)
         \/ ReadHistory(p) \/ ReadList(p) \/ ReplaceList(p)
  PROVE SoundInv'
<1>0. /\ DOMAIN NoFrame = Locals /\ NoFrame.back = "idle"
      /\ {"idle", "range"} \subseteq Backs
      /\ {"idle", "merge", "history", "range", "replace"} \subseteq Points
  BY DEF NoFrame, Locals, Backs, Points, CallPoints
<1>1. ASSUME NEW e \in Entries, RecordDegraded(p, e) PROVE SoundInv'
  <2> DEFINE f == [NoFrame EXCEPT !.arg = e]
  <2>1. Call(p, "history", f) /\ UNCHANGED <<doc, mem, now, log>>
    BY <1>1 DEF RecordDegraded
  <2>2. DOMAIN f = Locals /\ f.back = "idle"
    BY DEF NoFrame, Locals
  <2>3. overlapped' \in BOOLEAN
    BY <1>1, BudgetIsABoolean DEF RecordDegraded
  <2> HIDE DEF f
  <2> QED
    BY <1>0, <2>1, <2>2, <2>3, HistoryKeepsSound
<1>2. ASSUME NEW e \in Entries, RemoveFalse(p, e) PROVE SoundInv'
  <2>1. PICK ok \in BOOLEAN :
          LET h == Loaded(p, ok).history
              f == [NoFrame EXCEPT !.rows = e]
          IN /\ Enter(p, ok)
             /\ \/ Without(h, e) = h /\ Call(p, "range", f)
                \/ /\ Without(h, e) # h
                   /\ Call(p, "merge", [f EXCEPT
                        !.back = "range", !.arg = [history |-> Without(h, e)]])
    BY <1>2 DEF RemoveFalse
  <2>2. UNCHANGED <<doc, mem, now, log>>
    BY <1>2 DEF RemoveFalse, redis
  <2>3. overlapped' \in BOOLEAN
    BY <2>1, BudgetIsABoolean
  <2> DEFINE h == Loaded(p, ok).history
             f == [NoFrame EXCEPT !.rows = e]
             g == [f EXCEPT !.back = "range",
                            !.arg = [history |-> Without(h, e)]]
  <2>4. DOMAIN f = Locals /\ f.back = "idle"
    BY DEF NoFrame, Locals
  <2>5. DOMAIN g = Locals /\ g.back = "range" /\ DOMAIN g.arg = {"history"}
    BY DEF NoFrame, Locals
  <2>6. Call(p, "range", f) \/ Call(p, "merge", g)
    BY <2>1
  <2> HIDE DEF f, g
  <2>7. CASE Call(p, "range", f)
    BY <1>0, <2>2, <2>3, <2>4, <2>7, HistoryKeepsSound
  <2>8. CASE Call(p, "merge", g)
    BY <1>0, <2>2, <2>3, <2>5, <2>8, HistoryKeepsSound
  <2> QED
    BY <2>6, <2>7, <2>8
<1>3. ASSUME ReadHistory(p) PROVE SoundInv'
  <2>1. PICK ok \in BOOLEAN :
          LET h == Loaded(p, ok).history
          IN /\ Within(ok)
             /\ Call(p, "merge", [frame[p] EXCEPT
                                  !.arg = [history |-> NewestFirst(@, h)]])
    BY <1>3 DEF ReadHistory
  <2> DEFINE f == [frame[p] EXCEPT
                     !.arg = [history |-> NewestFirst(@, Loaded(p, ok).history)]]
  <2>2. Call(p, "merge", f)
    BY <2>1
  <2>3. DOMAIN f = Locals /\ f.back \in Backs /\ DOMAIN f.arg = {"history"}
    BY DEF SoundInv, ControlOK, Locals
  <2>4. UNCHANGED <<doc, mem, now, log>> /\ overlapped' \in BOOLEAN
    BY <1>3, <2>1, BudgetIsABoolean DEF ReadHistory, redis
  <2> HIDE DEF f
  <2> QED
    BY <1>0, <2>2, <2>3, <2>4, HistoryKeepsSound
<1>4. Call(p, frame[p].back, NoFrame) /\ pc[p] \in {"range", "replace"}
        => Call(p, "idle", NoFrame)
  BY DEF SoundInv, ControlOK
<1>5. ASSUME ReadList(p) PROVE SoundInv'
  <2>1. PICK ok \in BOOLEAN :
          /\ Within(ok)
          /\ IF ok THEN Call(p, "replace", [NoFrame EXCEPT
                                       !.rows = Without(list, frame[p].rows)])
                   ELSE Return(p)
    BY <1>5 DEF ReadList
  <2> DEFINE f == [NoFrame EXCEPT !.rows = Without(list, frame[p].rows)]
  <2>2. Call(p, "replace", f) \/ Call(p, "idle", NoFrame)
    BY <1>4, <1>5, <2>1 DEF Return, ReadList
  <2>3. DOMAIN f = Locals /\ f.back = "idle"
    BY DEF NoFrame, Locals
  <2>4. UNCHANGED <<doc, mem, now, log>> /\ overlapped' \in BOOLEAN
    BY <1>5, <2>1, BudgetIsABoolean DEF ReadList, redis
  <2> HIDE DEF f
  <2>5. CASE Call(p, "replace", f)
    BY <1>0, <2>3, <2>4, <2>5, HistoryKeepsSound
  <2>6. CASE Call(p, "idle", NoFrame)
    BY <1>0, <2>4, <2>6, HistoryKeepsSound
  <2> QED
    BY <2>2, <2>5, <2>6
<1>6. ASSUME ReplaceList(p) PROVE SoundInv'
  <2>1. Call(p, "idle", NoFrame)
    BY <1>4, <1>6 DEF ReplaceList, Return
  <2>2. UNCHANGED <<doc, mem, now, log>> /\ overlapped' \in BOOLEAN
    BY <1>6, BudgetIsABoolean DEF ReplaceList
  <2> QED
    BY <1>0, <2>1, <2>2, HistoryKeepsSound
<1> QED
  BY <1>1, <1>2, <1>3, <1>5, <1>6


LEMMA RuntimeKeepsSound ==
  ASSUME SoundInv, NEW p \in Procs, RuntimeCall(p) PROVE SoundInv'
<1>1. CASE MergeLoad(p) BY <1>1, MergeLoadKeepsSound
<1>2. CASE Save(p) BY <1>2, SaveKeepsSound
<1>3. CASE Rewrite(p)
  <2>1. SoundKeys(<<>>, log)
    BY DEF SoundKeys
  <2>2. "idle" \in Backs
    BY DEF Backs
  <2> QED
    BY <1>3, <2>1, <2>2, MergeKeysKeepsSound DEF Rewrite
<1> QED
  BY <1>1, <1>2, <1>3, HistoryCallsKeepSound DEF RuntimeCall

LEMMA StageKeepsSound ==
  ASSUME SoundInv, NEW p \in Procs, Start(p) \/ Stage(p) PROVE SoundInv'
<1>0. /\ {"idle", "decide", "inprocess", "join", "done"}
           \subseteq Points \ CallPoints
      /\ {"activate", "crashed"} \subseteq Backs
  BY DEF Points, CallPoints, Backs
<1>1. CASE Start(p) \/ Decide(p)
  <2>1. UNCHANGED <<redis, frame, log, now, mem>>
    BY <1>1 DEF Start, Decide
  <2>2. overlapped' \in BOOLEAN
    BY <1>1, BudgetIsABoolean DEF Start, Decide
  <2>3. Goto(p, "decide") \/ Goto(p, "inprocess") \/ Goto(p, "join")
    BY <1>1 DEF Start, Decide
  <2> QED
    BY <1>0, <2>1, <2>2, <2>3, MoveKeepsSound
<1>2. CASE Answered(p) \/ NoAnswer(p) \/ CrashFallback(p) \/ InProcess(p)
             \/ InProcessRaises(p) \/ JobEnds(p)
  <2>1. /\ UNCHANGED <<redis, frame, log, now, overlapped>>
        /\ mem' = mem \/ mem' = [mem EXCEPT ![p] = Fresh]
    BY <1>2 DEF Answered, NoAnswer, CrashFallback, InProcess, InProcessRaises,
                JobEnds
  <2>2. overlapped' \in BOOLEAN
    BY <2>1 DEF SoundInv, ControlOK
  <2>3. Goto(p, "done") \/ Goto(p, "inprocess") \/ Goto(p, "idle")
    BY <1>2 DEF Answered, NoAnswer, CrashFallback, InProcess, InProcessRaises,
                JobEnds, Finish, Fallback
  <2> QED
    BY <1>0, <2>1, <2>2, <2>3, MoveKeepsSound
<1>3. CASE Crashed(p)
  <2>1. PICK next \in {"activate", "crashed"} : RecordCrash(p, next)
    BY <1>3 DEF Crashed
  <2> QED
    BY <1>0, <2>1, RecordKeepsSound
<1>4. CASE Activate(p)
  <2>1. SoundKeys([safe |-> TRUE], log)
    BY DEF SoundKeys
  <2> QED
    BY <1>0, <1>4, <2>1, MergeKeysKeepsSound DEF Activate
<1> QED
  BY <1>1, <1>2, <1>3, <1>4 DEF Stage

LEMMA SoundStep ==
  ASSUME SoundInv, [Next]_vars PROVE SoundInv'
<1>1. ASSUME UNCHANGED rsvars PROVE SoundInv'
  BY <1>1 DEF SoundInv, ControlOK, rsvars, redis
<1>2. CASE UNCHANGED vars
  BY <1>1, <1>2 DEF vars
<1>3. ASSUME NEW p \in Procs, ChildCommits(p) \/ ChildEnds(p) PROVE SoundInv'
  BY <1>1, <1>3 DEF ChildCommits, ChildEnds
<1>4. CASE DocExpires
  BY <1>4 DEF SoundInv, ControlOK, DocExpires
<1>5. CASE Tick
  <2>1. ControlOK'
    BY <1>5 DEF SoundInv, ControlOK, Tick
  <2> QED
    BY <1>5, <2>1 DEF SoundInv, Tick, redis
<1> QED
  BY <1>2, <1>3, <1>4, <1>5, RuntimeKeepsSound, StageKeepsSound DEF Next

LEMMA SoundInit == Init => SoundInv
<1> SUFFICES ASSUME Init PROVE SoundInv
  OBVIOUS
<1>1. ControlOK
  <2>1. pc \in [Procs -> Points]
    BY DEF Init, RuntimeInit, Points
  <2>2. DOMAIN mem = Procs /\ DOMAIN frame = Procs
    BY DEF Init, RuntimeInit
  <2>3. ASSUME NEW p \in Procs
        PROVE /\ DOMAIN frame[p] = Locals
              /\ frame[p].back = "idle"
    BY DEF Init, RuntimeInit, NoFrame, Locals
  <2>4. overlapped \in BOOLEAN /\ now \in Nat
    BY DEF Init, RuntimeInit
  <2>5. log \in Seq(Nat) /\ DOMAIN log = {}
    BY DEF Init, RuntimeInit
  <2> QED
    BY <2>1, <2>2, <2>3, <2>4, <2>5 DEF ControlOK, Backs
<1>2. /\ doc = Fresh /\ \A p \in Procs : mem[p] = Fresh /\ pc[p] = "idle"
  BY DEF Init, RuntimeInit
<1> QED
  BY <1>1, <1>2, FreshIsSound DEF SoundInv

LEMMA SoundAlways == Spec => []SoundInv
BY SoundInit, SoundStep, PTL DEF Spec

\* Wherever the document has been, a cooldown in it was set by three crashes
\* within the window.
THEOREM CooldownNeedsThreeCrashes == Spec => []CooldownIsEarned
<1>1. SoundInv => CooldownIsEarned
  <2>1. SUFFICES ASSUME SoundInv,
                        NEW s \in {mem[p] : p \in Procs} \cup ({doc} \ {NoDoc}),
                        s.cooldown # 0
                 PROVE \E i \in DOMAIN log : Loop(i)
                                             /\ s.cooldown = log[i] + Cooldown
    BY DEF CooldownIsEarned
  <2>2. Sound(s, log)
    BY <2>1 DEF SoundInv
  <2>3. EarnedIn(log, s.cooldown)
    BY <2>1, <2>2 DEF Sound, SoundKeys
  <2> QED
    BY <2>3 DEF EarnedIn, LoopIn, Loop
<1> QED
  BY <1>1, SoundAlways, PTL


-----------------------------------------------------------------------------
(* Calls that do not overlap, while Redis keeps its word.                  *)

Quiet == \A p \in Procs : ~InCall(p)

\* s knows every crash still in the window and the term of every loop.
CurrentIn(s, l, t) ==
  \A i \in DOMAIN l :
    /\ t - l[i] < Window => i \in s.crashes
    /\ LoopIn(l, i) => s.cooldown >= l[i] + Cooldown

\* The document s repeats the list h.
SettledIn(s, h, l, t) == s.history = h /\ CurrentIn(s, l, t)

\* s is what a call with locals f has to write beside the list h.
DueIn(s, f, h, l, t) ==
  SettledIn(s, IF f.back = "range" THEN Without(h, f.rows) ELSE h, l, t)

\* What a call at a point holds of the document d and the list h.
StandsIn(point, f, d, h, l, t) ==
  /\ point = "history" => h = NewestFirst(f.arg, d.history) /\ CurrentIn(d, l, t)
  /\ point = "merge" => DueIn(Updated(d, f.arg), f, h, l, t)
  /\ point = "save" => DueIn(f.copy, f, h, l, t)
  /\ point = "range" => SettledIn(d, Without(h, f.rows), l, t)
  /\ point = "replace" => SettledIn(d, f.rows, l, t)

Orderly ==
  ~overlapped =>
    /\ doc # NoDoc
    /\ \A p, q \in Procs : InCall(p) /\ InCall(q) => p = q
    /\ Quiet => SettledIn(doc, list, log, now)
    /\ \A p \in Procs :
         InCall(p) => StandsIn(pc[p], frame[p], doc, list, log, now)

\* A step of the only call there is.
LEMMA CallKeepsOrder ==
  ASSUME SoundInv, NEW p \in Procs, NEW l, NEW f, Call(p, l, f),
         ~overlapped' =>
           /\ doc' # NoDoc
           /\ \A q \in Procs \ {p} : ~InCall(q)
           /\ IF l \in CallPoints
              THEN StandsIn(l, f, doc', list', log', now')
              ELSE SettledIn(doc', list', log', now')
  PROVE Orderly'
<1>1. SUFFICES ASSUME ~overlapped' PROVE Orderly'
  BY DEF Orderly
<1>2. /\ pc'[p] = l /\ frame'[p] = f
      /\ \A q \in Procs \ {p} : pc'[q] = pc[q]
  BY DEF Call, Goto, SoundInv, ControlOK
<1>3. /\ InCall(p)' <=> l \in CallPoints
      /\ \A q \in Procs \ {p} : ~InCall(q)'
  BY <1>1, <1>2 DEF InCall, CallPoints
<1>4. \A q, r \in Procs : InCall(q)' /\ InCall(r)' => q = r
  BY <1>3
<1>5. Quiet' => SettledIn(doc, list, log, now)'
  BY <1>1, <1>3 DEF Quiet
<1>6. \A q \in Procs :
        InCall(q)' => StandsIn(pc[q], frame[q], doc, list, log, now)'
  BY <1>1, <1>2, <1>3
<1> QED
  BY <1>1, <1>4, <1>5, <1>6 DEF Orderly

\* A step outside the calls, of one process.
LEMMA MoveKeepsOrder ==
  ASSUME SoundInv, Orderly, NEW p \in Procs, NEW l, Goto(p, l),
         l \notin CallPoints, ~InCall(p), ~overlapped' => ~overlapped,
         UNCHANGED <<doc, list, frame, log, now>>
  PROVE Orderly'
<1>1. SUFFICES ASSUME ~overlapped' PROVE Orderly'
  BY DEF Orderly
<1>2. pc'[p] = l /\ \A q \in Procs \ {p} : pc'[q] = pc[q]
  BY DEF Goto, SoundInv, ControlOK
<1>3. \A q \in Procs : (InCall(q)' <=> InCall(q)) /\ (InCall(q) => pc'[q] = pc[q])
  BY <1>2 DEF InCall, CallPoints
<1>4. Quiet' <=> Quiet
  BY <1>3 DEF Quiet
<1> QED
  BY <1>1, <1>3, <1>4 DEF Orderly

\* What a call that loads can rely on.
LEMMA EnterAlone ==
  ASSUME Orderly, NEW p \in Procs, NEW ok \in BOOLEAN, Enter(p, ok),
         ~InCall(p), ~overlapped'
  PROVE /\ ok = TRUE /\ ~overlapped /\ Quiet /\ doc # NoDoc
        /\ Loaded(p, ok) = doc
        /\ \A q \in Procs \ {p} : ~InCall(q)
        /\ SettledIn(doc, list, log, now)
<1>1. ok = TRUE /\ ~overlapped /\ Quiet
  BY DEF Enter, Quiet
<1>2. doc # NoDoc /\ SettledIn(doc, list, log, now)
  BY <1>1 DEF Orderly
<1> QED
  BY <1>1, <1>2 DEF Loaded, Seen, Quiet

LEMMA WithinAlone ==
  ASSUME Orderly, NEW p \in Procs, NEW ok \in BOOLEAN, Within(ok),
         InCall(p), ~overlapped'
  PROVE /\ ok = TRUE /\ ~overlapped /\ doc # NoDoc
        /\ Loaded(p, ok) = doc
        /\ \A q \in Procs \ {p} : ~InCall(q)
        /\ StandsIn(pc[p], frame[p], doc, list, log, now)
<1>1. ok = TRUE /\ ~overlapped
  BY DEF Within
<1> QED
  BY <1>1 DEF Orderly, Loaded, Seen


LEMMA UpdatedKeys ==
  ASSUME NEW s, NEW u, DOMAIN s = {"safe", "crashes", "cooldown", "history"}
  PROVE \A k \in {"crashes", "cooldown", "history"} :
          Updated(s, u)[k] = IF k \in DOMAIN u THEN u[k] ELSE s[k]
BY DEF Updated

\* Keys that say nothing of crashes leave a document current.
LEMMA OtherKeysKeepCurrent ==
  ASSUME NEW s, NEW u, NEW l, NEW t,
         DOMAIN s = {"safe", "crashes", "cooldown", "history"},
         "crashes" \notin DOMAIN u, "cooldown" \notin DOMAIN u,
         CurrentIn(s, l, t)
  PROVE CurrentIn(Updated(s, u), l, t)
<1>1. /\ Updated(s, u).crashes = s.crashes
      /\ Updated(s, u).cooldown = s.cooldown
  BY UpdatedKeys
<1> QED
  BY <1>1 DEF CurrentIn

\* Recording a crash keeps it current: the third one of a loop, which need
\* not be a loop of the document's own crashes alone, sets the cooldown.
LEMMA CrashKeysKeepCurrent ==
  ASSUME ControlOK, NEW s, Sound(s, log), CurrentIn(s, log, now)
  PROVE CurrentIn(Updated(s, CrashKeys(s)), Append(log, now), now)
<1> DEFINE n == Len(log) + 1
           window == Recent(s) \cup {n}
           m == Append(log, now)
           u == Updated(s, CrashKeys(s))
<1>1. /\ log \in Seq(Nat) /\ now \in Nat /\ n \in Nat
      /\ DOMAIN m = 1..n /\ DOMAIN log = 1..(n - 1) /\ m[n] = now
      /\ \A i \in DOMAIN log :
           i < n /\ m[i] = log[i] /\ log[i] \in Nat /\ log[i] <= now
      /\ \A i, j \in DOMAIN log : i < j => log[i] <= log[j]
      /\ \A i \in DOMAIN m : i # n => i \in DOMAIN log
  BY DEF ControlOK
<1>2. /\ u.crashes = window
      /\ u.cooldown = IF Loops(window) THEN now + Cooldown ELSE s.cooldown
  BY UpdatedKeys DEF Sound, CrashKeys
<1>3. Recent(s) \subseteq DOMAIN log /\ s.cooldown \in Nat
  BY DEF Recent, Sound, SoundKeys
<1>4. \A i \in DOMAIN log : now - log[i] < Window => i \in Recent(s)
  BY DEF CurrentIn, Recent
<1>5. u.cooldown \in Nat
  BY <1>1, <1>2, <1>3, Bounds
<1>6. ASSUME NEW i \in DOMAIN m, now - m[i] < Window PROVE i \in u.crashes
  <2>1. CASE i = n
    BY <1>2, <2>1
  <2>2. CASE i # n
    <3>1. i \in DOMAIN log /\ m[i] = log[i]
      BY <1>1, <2>2
    <3> QED
      BY <1>2, <1>4, <1>6, <3>1
  <2> QED
    BY <2>1, <2>2
<1>7. ASSUME NEW i \in DOMAIN m, LoopIn(m, i)
      PROVE u.cooldown >= m[i] + Cooldown
  <2>0. PICK j, k \in DOMAIN m : j < k /\ k < i /\ m[i] - m[j] < Window
    BY <1>7 DEF LoopIn
  <2>1. CASE i # n
    <3>1. i \in DOMAIN log /\ j \in DOMAIN log /\ k \in DOMAIN log
      BY <1>1, <2>0, <2>1
    <3>2. LoopIn(log, i)
      BY <1>1, <2>0, <3>1 DEF LoopIn
    <3>3. s.cooldown >= log[i] + Cooldown
      BY <3>1, <3>2 DEF CurrentIn
    <3> HIDE DEF n, window, m, u
    <3> QED
      BY <1>1, <1>2, <3>1, <3>3, Bounds
  <2>2. CASE i = n
    <3>1. j \in DOMAIN log /\ k \in DOMAIN log /\ j < k /\ k < n
      BY <1>1, <2>0, <2>2
    <3>2. now - log[j] < Window /\ log[j] <= log[k]
      BY <1>1, <2>0, <2>2, <3>1
    <3>3. now - log[k] < Window
      BY <1>1, <3>1, <3>2, Bounds
    <3>4. j \in window /\ k \in window /\ n \in window
      BY <1>4, <3>1, <3>2, <3>3
    <3>5. window \subseteq 1..n
      BY <1>1, <1>3
    <3> HIDE DEF n, window, m, u
    <3>6. Loops(window)
      BY <1>1, <3>1, <3>4, <3>5, ThreeAreALoop
    <3> QED
      BY <1>1, <1>2, <2>2, <3>6, Bounds
  <2> QED
    BY <2>1, <2>2
<1> HIDE DEF n, window, m, u
<1>8. CurrentIn(u, m, now)
  BY <1>6, <1>7 DEF CurrentIn
<1> QED
  BY <1>8 DEF u, m


LEMMA RecordKeepsOrder ==
  ASSUME SoundInv, Orderly, NEW p \in Procs, NEW next \in Backs \ {"range"},
         ~InCall(p), RecordCrash(p, next)
  PROVE Orderly'
<1>1. PICK ok \in BOOLEAN :
        /\ Enter(p, ok)
        /\ Call(p, "merge", [NoFrame EXCEPT !.back = next,
                                            !.arg = CrashKeys(Loaded(p, ok))])
  BY DEF RecordCrash
<1>2. log' = Append(log, now) /\ doc' = doc /\ list' = list /\ now' = now
  BY DEF RecordCrash, redis
<1> DEFINE f == [NoFrame EXCEPT !.back = next, !.arg = CrashKeys(Loaded(p, ok))]
<1>3. f.back # "range" /\ f.arg = CrashKeys(Loaded(p, ok)) /\ Call(p, "merge", f)
  BY <1>1 DEF NoFrame
<1> HIDE DEF f
<1>4. ASSUME ~overlapped'
      PROVE /\ doc' # NoDoc
            /\ \A q \in Procs \ {p} : ~InCall(q)
            /\ StandsIn("merge", f, doc', list', log', now')
  <2>1. /\ doc # NoDoc /\ Loaded(p, ok) = doc
        /\ \A q \in Procs \ {p} : ~InCall(q)
        /\ SettledIn(doc, list, log, now)
    BY <1>1, <1>4, EnterAlone
  <2>2. Sound(doc, log) /\ ControlOK
    BY <2>1 DEF SoundInv
  <2>3. CurrentIn(Updated(doc, f.arg), Append(log, now), now)
    BY <1>3, <2>1, <2>2, CrashKeysKeepCurrent DEF SettledIn
  <2>4. Updated(doc, f.arg).history = list
    BY <1>3, <2>1, <2>2, UpdatedKeys DEF Sound, CrashKeys, SettledIn
  <2> QED
    BY <1>2, <1>3, <2>1, <2>3, <2>4 DEF StandsIn, DueIn, SettledIn
<1> QED
  BY <1>3, <1>4, CallKeepsOrder DEF CallPoints

LEMMA MergeKeysKeepsOrder ==
  ASSUME SoundInv, Orderly, NEW p \in Procs, NEW next \in Backs \ {"range"},
         NEW keys, DOMAIN keys \cap {"crashes", "cooldown", "history"} = {},
         ~InCall(p), MergeKeys(p, keys, next)
  PROVE Orderly'
<1>1. PICK ok \in BOOLEAN :
        /\ Enter(p, ok)
        /\ Call(p, "save", [NoFrame EXCEPT !.back = next,
                             !.copy = Updated(Loaded(p, ok), keys)])
  BY DEF MergeKeys
<1>2. log' = log /\ doc' = doc /\ list' = list /\ now' = now
  BY DEF MergeKeys, redis
<1> DEFINE f == [NoFrame EXCEPT !.back = next,
                                !.copy = Updated(Loaded(p, ok), keys)]
<1>3. /\ f.back # "range" /\ f.copy = Updated(Loaded(p, ok), keys)
      /\ Call(p, "save", f)
  BY <1>1 DEF NoFrame
<1> HIDE DEF f
<1>4. ASSUME ~overlapped'
      PROVE /\ doc' # NoDoc
            /\ \A q \in Procs \ {p} : ~InCall(q)
            /\ StandsIn("save", f, doc', list', log', now')
  <2>1. /\ doc # NoDoc /\ Loaded(p, ok) = doc
        /\ \A q \in Procs \ {p} : ~InCall(q)
        /\ SettledIn(doc, list, log, now)
    BY <1>1, <1>4, EnterAlone
  <2>2. DOMAIN doc = {"safe", "crashes", "cooldown", "history"}
    BY <2>1 DEF SoundInv, Sound
  <2>3. CurrentIn(f.copy, log, now)
    BY <1>3, <2>1, <2>2, OtherKeysKeepCurrent DEF SettledIn
  <2>4. f.copy.history = list
    BY <1>3, <2>1, <2>2, UpdatedKeys DEF SettledIn
  <2> QED
    BY <1>2, <1>3, <2>1, <2>3, <2>4 DEF StandsIn, DueIn, SettledIn
<1> QED
  BY <1>3, <1>4, CallKeepsOrder DEF CallPoints

LEMMA MergeLoadKeepsOrder ==
  ASSUME SoundInv, Orderly, NEW p \in Procs, MergeLoad(p) PROVE Orderly'
<1>1. PICK ok \in BOOLEAN :
        /\ Within(ok)
        /\ Call(p, "save", [frame[p] EXCEPT
                             !.copy = Updated(Loaded(p, ok), frame[p].arg)])
  BY DEF MergeLoad
<1>2. /\ log' = log /\ doc' = doc /\ list' = list /\ now' = now
      /\ pc[p] = "merge" /\ InCall(p)
  BY DEF MergeLoad, redis, InCall
<1> DEFINE f == [frame[p] EXCEPT !.copy = Updated(Loaded(p, ok), frame[p].arg)]
<1>3. /\ f.back = frame[p].back /\ f.rows = frame[p].rows
      /\ f.copy = Updated(Loaded(p, ok), frame[p].arg)
      /\ Call(p, "save", f)
  BY <1>1 DEF SoundInv, ControlOK, Locals
<1> HIDE DEF f
<1>4. ASSUME ~overlapped'
      PROVE /\ doc' # NoDoc
            /\ \A q \in Procs \ {p} : ~InCall(q)
            /\ StandsIn("save", f, doc', list', log', now')
  <2>1. /\ doc # NoDoc /\ Loaded(p, ok) = doc
        /\ \A q \in Procs \ {p} : ~InCall(q)
        /\ StandsIn(pc[p], frame[p], doc, list, log, now)
    BY <1>1, <1>2, <1>4, WithinAlone
  <2>2. DueIn(f.copy, frame[p], list, log, now)
    BY <1>2, <1>3, <2>1 DEF StandsIn
  <2> QED
    BY <1>2, <1>3, <2>1, <2>2 DEF StandsIn, DueIn
<1> QED
  BY <1>3, <1>4, CallKeepsOrder DEF CallPoints

LEMMA SaveKeepsOrder ==
  ASSUME SoundInv, Orderly, NEW p \in Procs, Save(p) PROVE Orderly'
<1>1. PICK ok \in BOOLEAN :
        Within(ok) /\ doc' = IF ok THEN frame[p].copy ELSE doc
  BY DEF Save
<1>2. /\ log' = log /\ list' = list /\ now' = now
      /\ pc[p] = "save" /\ InCall(p) /\ frame[p].back \in Backs
      /\ Sound(frame[p].copy, log)
  BY DEF Save, InCall, SoundInv, ControlOK
<1>3. ASSUME ~overlapped'
      PROVE /\ doc' = frame[p].copy /\ doc' # NoDoc
            /\ \A q \in Procs \ {p} : ~InCall(q)
            /\ DueIn(doc', frame[p], list, log, now)
  <2>1. /\ ok = TRUE /\ \A q \in Procs \ {p} : ~InCall(q)
        /\ StandsIn(pc[p], frame[p], doc, list, log, now)
    BY <1>1, <1>2, <1>3, WithinAlone
  <2>2. doc' = frame[p].copy
    BY <1>1, <2>1
  <2>3. "history" \in DOMAIN doc'
    BY <1>2, <2>2 DEF Sound
  <2> QED
    BY <1>2, <2>1, <2>2, <2>3 DEF NoDoc, StandsIn
<1>4. CASE frame[p].back = "range"
  <2> DEFINE f == [frame[p] EXCEPT !.back = "idle"]
  <2>1. f.rows = frame[p].rows /\ Call(p, "range", f)
    BY <1>4 DEF Save, SoundInv, ControlOK, Locals
  <2> HIDE DEF f
  <2>2. ~overlapped' => StandsIn("range", f, doc', list', log', now')
    BY <1>2, <1>3, <1>4, <2>1 DEF StandsIn, DueIn
  <2> QED
    BY <1>3, <2>1, <2>2, CallKeepsOrder DEF CallPoints
<1>5. CASE frame[p].back # "range"
  <2>1. Call(p, frame[p].back, NoFrame) /\ frame[p].back \notin CallPoints
    BY <1>2, <1>5 DEF Save, Return, Backs, CallPoints
  <2>2. ~overlapped' => SettledIn(doc', list', log', now')
    BY <1>2, <1>3, <1>5 DEF DueIn
  <2> QED
    BY <1>3, <2>1, <2>2, CallKeepsOrder
<1> QED
  BY <1>4, <1>5


LEMMA RecordDegradedKeepsOrder ==
  ASSUME SoundInv, Orderly, NEW p \in Procs, NEW e, RecordDegraded(p, e)
  PROVE Orderly'
<1>1. PICK ok \in BOOLEAN :
        /\ Enter(p, ok)
        /\ list' = IF ok THEN FirstOf(<<e>> \o list, HistoryCap) ELSE list
  BY DEF RecordDegraded
<1>2. log' = log /\ doc' = doc /\ now' = now /\ ~InCall(p)
  BY DEF RecordDegraded, NewCall, InCall
<1> DEFINE f == [NoFrame EXCEPT !.arg = e]
<1>3. f.arg = e /\ Call(p, "history", f)
  BY DEF NoFrame, RecordDegraded
<1> HIDE DEF f
<1>4. ASSUME ~overlapped'
      PROVE /\ doc' # NoDoc
            /\ \A q \in Procs \ {p} : ~InCall(q)
            /\ StandsIn("history", f, doc', list', log', now')
  <2>1. /\ doc # NoDoc /\ ok = TRUE
        /\ \A q \in Procs \ {p} : ~InCall(q)
        /\ SettledIn(doc, list, log, now)
    BY <1>1, <1>2, <1>4, EnterAlone
  <2>2. list' = NewestFirst(f.arg, doc.history)
    BY <1>1, <1>3, <2>1 DEF NewestFirst, SettledIn
  <2> QED
    BY <1>2, <2>1, <2>2 DEF StandsIn, SettledIn
<1> QED
  BY <1>3, <1>4, CallKeepsOrder DEF CallPoints

LEMMA ReadHistoryKeepsOrder ==
  ASSUME SoundInv, Orderly, NEW p \in Procs, ReadHistory(p) PROVE Orderly'
<1>1. PICK ok \in BOOLEAN :
        LET h == Loaded(p, ok).history
        IN /\ Within(ok)
           /\ Call(p, "merge", [frame[p] EXCEPT
                                !.arg = [history |-> NewestFirst(@, h)]])
  BY DEF ReadHistory
<1>2. /\ log' = log /\ doc' = doc /\ list' = list /\ now' = now
      /\ pc[p] = "history" /\ InCall(p) /\ frame[p].back = "idle"
  BY DEF ReadHistory, redis, InCall, SoundInv, ControlOK
<1> DEFINE u == [history |-> NewestFirst(frame[p].arg, Loaded(p, ok).history)]
           f == [frame[p] EXCEPT !.arg = u]
<1>3. f.back = "idle" /\ f.arg = u /\ Call(p, "merge", f)
  BY <1>1, <1>2 DEF SoundInv, ControlOK, Locals
<1>4. /\ DOMAIN u = {"history"}
      /\ u.history = NewestFirst(frame[p].arg, Loaded(p, ok).history)
  OBVIOUS
<1> HIDE DEF f, u
<1>5. ASSUME ~overlapped'
      PROVE /\ doc' # NoDoc
            /\ \A q \in Procs \ {p} : ~InCall(q)
            /\ StandsIn("merge", f, doc', list', log', now')
  <2>1. /\ doc # NoDoc /\ Loaded(p, ok) = doc
        /\ \A q \in Procs \ {p} : ~InCall(q)
        /\ StandsIn(pc[p], frame[p], doc, list, log, now)
    BY <1>1, <1>2, <1>5, WithinAlone
  <2>2. /\ list = NewestFirst(frame[p].arg, doc.history)
        /\ CurrentIn(doc, log, now)
    BY <1>2, <2>1 DEF StandsIn
  <2>3. DOMAIN doc = {"safe", "crashes", "cooldown", "history"}
    BY <2>1 DEF SoundInv, Sound
  <2>4. CurrentIn(Updated(doc, f.arg), log, now)
    BY <1>3, <1>4, <2>2, <2>3, OtherKeysKeepCurrent
  <2>5. Updated(doc, f.arg).history = list
    BY <1>3, <1>4, <2>1, <2>2, <2>3, UpdatedKeys
  <2> QED
    BY <1>2, <1>3, <2>1, <2>4, <2>5 DEF StandsIn, DueIn, SettledIn
<1> QED
  BY <1>3, <1>5, CallKeepsOrder DEF CallPoints

LEMMA RemoveFalseKeepsOrder ==
  ASSUME SoundInv, Orderly, NEW p \in Procs, NEW e, RemoveFalse(p, e)
  PROVE Orderly'
<1>1. PICK ok \in BOOLEAN :
        LET h == Loaded(p, ok).history
            f == [NoFrame EXCEPT !.rows = e]
        IN /\ Enter(p, ok)
           /\ \/ Without(h, e) = h /\ Call(p, "range", f)
              \/ /\ Without(h, e) # h
                 /\ Call(p, "merge", [f EXCEPT
                      !.back = "range", !.arg = [history |-> Without(h, e)]])
  BY DEF RemoveFalse
<1>2. log' = log /\ doc' = doc /\ list' = list /\ now' = now /\ ~InCall(p)
  BY DEF RemoveFalse, redis, NewCall, InCall
<1> DEFINE h == Loaded(p, ok).history
           u == [history |-> Without(h, e)]
           f == [NoFrame EXCEPT !.rows = e]
           g == [f EXCEPT !.back = "range", !.arg = u]
<1>3. /\ f.rows = e
      /\ g.rows = e /\ g.back = "range" /\ g.arg = u
      /\ DOMAIN u = {"history"} /\ u.history = Without(h, e)
  BY DEF NoFrame
<1>4. \/ Without(h, e) = h /\ Call(p, "range", f)
      \/ Call(p, "merge", g)
  BY <1>1
<1> HIDE DEF f, g, u
<1>5. ASSUME ~overlapped'
      PROVE /\ doc' # NoDoc /\ Loaded(p, ok) = doc /\ h = list
            /\ \A q \in Procs \ {p} : ~InCall(q)
            /\ CurrentIn(doc, log, now)
  BY <1>1, <1>2, <1>5, EnterAlone DEF SettledIn
<1>6. CASE Without(h, e) = h /\ Call(p, "range", f)
  <2>1. ~overlapped' => StandsIn("range", f, doc', list', log', now')
    BY <1>2, <1>3, <1>5, <1>6 DEF StandsIn, SettledIn
  <2> QED
    BY <1>5, <1>6, <2>1, CallKeepsOrder DEF CallPoints
<1>7. CASE Call(p, "merge", g)
  <2>1. ASSUME ~overlapped'
        PROVE StandsIn("merge", g, doc', list', log', now')
    <3>1. DOMAIN doc = {"safe", "crashes", "cooldown", "history"}
      BY <1>2, <1>5, <2>1 DEF SoundInv, Sound
    <3>2. CurrentIn(Updated(doc, u), log, now)
      BY <1>3, <1>5, <2>1, <3>1, OtherKeysKeepCurrent
    <3>3. Updated(doc, u).history = Without(list, e)
      <4> HIDE DEF h
      <4> QED
        BY <1>3, <1>5, <2>1, <3>1, UpdatedKeys
    <3> QED
      BY <1>2, <1>3, <3>2, <3>3 DEF StandsIn, DueIn, SettledIn
  <2> QED
    BY <1>5, <1>7, <2>1, CallKeepsOrder DEF CallPoints
<1> QED
  BY <1>4, <1>6, <1>7

LEMMA ReadListKeepsOrder ==
  ASSUME SoundInv, Orderly, NEW p \in Procs, ReadList(p) PROVE Orderly'
<1>1. PICK ok \in BOOLEAN :
        /\ Within(ok)
        /\ IF ok THEN Call(p, "replace", [NoFrame EXCEPT
                                     !.rows = Without(list, frame[p].rows)])
                 ELSE Return(p)
  BY DEF ReadList
<1>2. /\ log' = log /\ doc' = doc /\ list' = list /\ now' = now
      /\ pc[p] = "range" /\ InCall(p) /\ frame[p].back = "idle"
  BY DEF ReadList, redis, InCall, SoundInv, ControlOK
<1>3. ASSUME ~overlapped'
      PROVE /\ doc' # NoDoc /\ ok = TRUE
            /\ \A q \in Procs \ {p} : ~InCall(q)
            /\ SettledIn(doc, Without(list, frame[p].rows), log, now)
  BY <1>1, <1>2, <1>3, WithinAlone DEF StandsIn
<1> DEFINE f == [NoFrame EXCEPT !.rows = Without(list, frame[p].rows)]
<1>4. f.rows = Without(list, frame[p].rows)
  BY DEF NoFrame
<1>5. \/ ok = TRUE /\ Call(p, "replace", f)
      \/ ok = FALSE /\ Call(p, "idle", NoFrame)
  BY <1>1, <1>2 DEF Return
<1> HIDE DEF f
<1>6. ~overlapped' => StandsIn("replace", f, doc', list', log', now')
  BY <1>2, <1>3, <1>4 DEF StandsIn
<1>7. CASE ok = TRUE /\ Call(p, "replace", f)
  BY <1>3, <1>6, <1>7, CallKeepsOrder DEF CallPoints
<1>8. CASE ok = FALSE /\ Call(p, "idle", NoFrame)
  BY <1>3, <1>8, CallKeepsOrder
<1> QED
  BY <1>5, <1>7, <1>8

LEMMA ReplaceListKeepsOrder ==
  ASSUME SoundInv, Orderly, NEW p \in Procs, ReplaceList(p) PROVE Orderly'
<1>1. PICK ok \in BOOLEAN :
        Within(ok) /\ list' = IF ok THEN frame[p].rows ELSE list
  BY DEF ReplaceList
<1>2. /\ log' = log /\ doc' = doc /\ now' = now
      /\ pc[p] = "replace" /\ InCall(p) /\ Call(p, "idle", NoFrame)
  BY DEF ReplaceList, Return, InCall, SoundInv, ControlOK
<1>3. ASSUME ~overlapped'
      PROVE /\ doc' # NoDoc
            /\ \A q \in Procs \ {p} : ~InCall(q)
            /\ SettledIn(doc', list', log', now')
  BY <1>1, <1>2, <1>3, WithinAlone DEF StandsIn
<1> QED
  BY <1>2, <1>3, CallKeepsOrder DEF CallPoints


LEMMA RuntimeKeepsOrder ==
  ASSUME SoundInv, Orderly, NEW p \in Procs, RuntimeCall(p) PROVE Orderly'
<1>1. CASE Rewrite(p)
  <2>1. "idle" \in Backs \ {"range"} /\ ~InCall(p)
    BY <1>1 DEF Rewrite, NewCall, Backs, InCall
  <2>2. DOMAIN <<>> \cap {"crashes", "cooldown", "history"} = {}
    OBVIOUS
  <2> QED
    BY <1>1, <2>1, <2>2, MergeKeysKeepsOrder DEF Rewrite
<1> QED
  BY <1>1, MergeLoadKeepsOrder, SaveKeepsOrder, ReadHistoryKeepsOrder,
     ReadListKeepsOrder, ReplaceListKeepsOrder, RecordDegradedKeepsOrder,
     RemoveFalseKeepsOrder DEF RuntimeCall

LEMMA StageKeepsOrder ==
  ASSUME SoundInv, Orderly, NEW p \in Procs, Start(p) \/ Stage(p)
  PROVE Orderly'
<1>0. {"idle", "decide", "inprocess", "join", "done"} \cap CallPoints = {}
  BY DEF CallPoints
<1>1. CASE Start(p) \/ Decide(p)
  <2>1. UNCHANGED <<doc, list, frame, log, now>> /\ ~InCall(p)
    BY <1>1 DEF Start, Decide, redis, InCall
  <2>2. ~overlapped' => ~overlapped
    BY <1>1 DEF Start, Decide, Within
  <2>3. Goto(p, "decide") \/ Goto(p, "inprocess") \/ Goto(p, "join")
    BY <1>1 DEF Start, Decide
  <2> QED
    BY <1>0, <2>1, <2>2, <2>3, MoveKeepsOrder
<1>2. CASE Answered(p) \/ NoAnswer(p) \/ CrashFallback(p) \/ InProcess(p)
             \/ InProcessRaises(p) \/ JobEnds(p)
  <2>1. UNCHANGED <<doc, list, frame, log, now, overlapped>> /\ ~InCall(p)
    BY <1>2 DEF Answered, NoAnswer, CrashFallback, InProcess, InProcessRaises,
                JobEnds, redis, InCall
  <2>2. Goto(p, "done") \/ Goto(p, "inprocess") \/ Goto(p, "idle")
    BY <1>2 DEF Answered, NoAnswer, CrashFallback, InProcess, InProcessRaises,
                JobEnds, Finish, Fallback
  <2> QED
    BY <1>0, <2>1, <2>2, MoveKeepsOrder
<1>3. CASE Crashed(p)
  <2>1. PICK next \in {"activate", "crashed"} : RecordCrash(p, next)
    BY <1>3 DEF Crashed
  <2>2. next \in Backs \ {"range"} /\ ~InCall(p)
    BY <1>3, <2>1 DEF Crashed, Backs, InCall
  <2> QED
    BY <2>1, <2>2, RecordKeepsOrder
<1>4. CASE Activate(p)
  <2>1. "crashed" \in Backs \ {"range"} /\ ~InCall(p)
    BY <1>4 DEF Activate, Backs, InCall
  <2>2. DOMAIN [safe |-> TRUE] \cap {"crashes", "cooldown", "history"} = {}
    OBVIOUS
  <2> QED
    BY <1>4, <2>1, <2>2, MergeKeysKeepsOrder DEF Activate
<1> QED
  BY <1>1, <1>2, <1>3, <1>4 DEF Stage

\* Time only takes crashes out of the window.
LEMMA TickKeepsOrder ==
  ASSUME SoundInv, Orderly, Tick PROVE Orderly'
<1>1. /\ UNCHANGED <<doc, list, pc, frame, log, overlapped>> /\ now' = now + 1
  BY DEF Tick, redis
<1>2. log \in Seq(Nat) /\ now \in Nat
  BY DEF SoundInv, ControlOK
<1>3. ASSUME NEW s, CurrentIn(s, log, now) PROVE CurrentIn(s, log', now')
  <2>1. \A i \in DOMAIN log : now' - log[i] < Window => now - log[i] < Window
    BY <1>1, <1>2, Bounds
  <2>2. CurrentIn(s, log, now')
    BY <1>3, <2>1 DEF CurrentIn
  <2> QED
    BY <1>1, <2>2
<1>4. ASSUME NEW s, NEW h, SettledIn(s, h, log, now)
      PROVE SettledIn(s, h, log', now')
  BY <1>3, <1>4 DEF SettledIn
<1>5. ASSUME NEW p \in Procs,
             StandsIn(pc[p], frame[p], doc, list, log, now)
      PROVE StandsIn(pc[p], frame[p], doc, list, log', now')
  BY <1>3, <1>4, <1>5 DEF StandsIn, DueIn
<1>6. /\ Quiet' <=> Quiet
      /\ \A p \in Procs : InCall(p)' <=> InCall(p)
  BY <1>1 DEF Quiet, InCall
<1> QED
  BY <1>1, <1>4, <1>5, <1>6 DEF Orderly

LEMMA OrderStep ==
  ASSUME SoundInv, Orderly, [Next]_vars PROVE Orderly'
<1>1. ASSUME UNCHANGED rsvars PROVE Orderly'
  BY <1>1 DEF Orderly, Quiet, InCall, rsvars, redis
<1>2. CASE UNCHANGED vars
  BY <1>1, <1>2 DEF vars
<1>3. ASSUME NEW p \in Procs, ChildCommits(p) \/ ChildEnds(p) PROVE Orderly'
  BY <1>1, <1>3 DEF ChildCommits, ChildEnds
<1>4. CASE DocExpires
  BY <1>4 DEF Orderly, DocExpires
<1> QED
  BY <1>2, <1>3, <1>4, TickKeepsOrder, RuntimeKeepsOrder, StageKeepsOrder
     DEF Next

LEMMA OrderInit == Init => Orderly
<1> SUFFICES ASSUME Init PROVE Orderly
  OBVIOUS
<1>1. /\ doc = Fresh /\ list = <<>> /\ log = <<>> /\ now = 0
      /\ \A p \in Procs : ~InCall(p)
  BY DEF Init, RuntimeInit, InCall
<1>2. doc # NoDoc /\ doc.history = <<>>
  <2>1. "safe" \in DOMAIN Fresh /\ Fresh.history = <<>>
    BY DEF Fresh
  <2> QED
    BY <1>1, <2>1 DEF NoDoc
<1>3. DOMAIN log = {}
  BY <1>1
<1> QED
  BY <1>1, <1>2, <1>3 DEF Orderly, SettledIn, CurrentIn

LEMMA OrderAlways == Spec => []Orderly
<1>1. Init => Orderly
  BY OrderInit
<1>2. SoundInv /\ Orderly /\ [Next]_vars => Orderly'
  BY OrderStep
<1> QED
  BY <1>1, <1>2, SoundAlways, PTL DEF Spec

\* What is recorded in, or removed from, one copy of the degraded history is
\* recorded in, or removed from, the other before the call ends.
THEOREM BothHistoriesAreOne == Spec => []HistoriesAgree
<1>1. Orderly => HistoriesAgree
  BY DEF Orderly, HistoriesAgree, Quiet, SettledIn
<1> QED
  BY <1>1, OrderAlways, PTL

-----------------------------------------------------------------------------
\* Only Start takes an idle process to its decision.
LEMMA DecisionFollowsStart ==
  ASSUME SoundInv, NEW p \in Procs, pc[p] = "idle", pc'[p] = "decide",
         [Next]_vars
  PROVE Start(p)
<1>0. \A q \in Procs :
        /\ \A l : Goto(q, l) =>
             pc'[q] = l /\ \A r \in Procs \ {q} : pc'[r] = pc[r]
        /\ \A l, f : Call(q, l, f) => Goto(q, l)
  BY DEF Call, Goto, SoundInv, ControlOK
<1>1. ASSUME UNCHANGED pc PROVE FALSE
  BY <1>1
<1>2. PICK q \in Procs :
        \/ Start(q) \/ Stage(q) \/ ChildCommits(q) \/ ChildEnds(q)
        \/ RuntimeCall(q)
  BY <1>1 DEF Next, vars, rsvars, DocExpires, Tick
<1>3. \E l \in Points : Goto(q, l)
  <2>1. CASE Start(q) \/ Stage(q)
    BY <2>1, <1>0 DEF Start, Stage, Decide, Answered, NoAnswer, Crashed,
       Activate, CrashFallback, InProcess, InProcessRaises, JobEnds, Finish,
       Fallback, RecordCrash, MergeKeys, Points, CallPoints
  <2>2. CASE ChildCommits(q) \/ ChildEnds(q)
    BY <1>1, <2>2 DEF ChildCommits, ChildEnds, rsvars
  <2>3. CASE RuntimeCall(q)
    BY <1>0, <2>3 DEF RuntimeCall, MergeLoad, Save, ReadHistory, ReadList,
       ReplaceList, Rewrite, RecordDegraded, RemoveFalse, MergeKeys, Return,
       Points, CallPoints, Backs, SoundInv, ControlOK
  <2> QED
    BY <1>2, <2>1, <2>2, <2>3
<1>4. q = p
  BY <1>0, <1>3
<1>5. ~Stage(p)
  BY <1>0 DEF Stage, Decide, Answered, NoAnswer, Crashed, Activate,
     CrashFallback, InProcess, InProcessRaises, JobEnds
<1>6. ~ChildCommits(p) /\ ~ChildEnds(p)
  BY <1>1 DEF ChildCommits, ChildEnds, rsvars
<1>7. ~RuntimeCall(p)
  <2>1. ~Rewrite(p)
    BY <1>0 DEF Rewrite, MergeKeys
  <2>2. ASSUME NEW e PROVE ~RecordDegraded(p, e) /\ ~RemoveFalse(p, e)
    BY <1>0 DEF RecordDegraded, RemoveFalse
  <2> QED
    BY <2>1, <2>2 DEF RuntimeCall, MergeLoad, Save, ReadHistory, ReadList,
       ReplaceList
<1> QED
  BY <1>2, <1>4, <1>5, <1>6, <1>7

\* While Redis answers and calls do not overlap, a loop of crashes keeps
\* every forecast out of a subprocess for its cooldown.
THEOREM CrashLoopsAreHalted == Spec => CrashLoopIsHalted
<1>1. ASSUME SoundInv, Orderly, [Next]_vars, NEW p \in Procs,
             pc[p] = "idle", pc'[p] = "decide", ~overlapped',
             NEW i \in DOMAIN log, Loop(i), \A q \in Procs : ~InCall(q)
      PROVE now >= log[i] + Cooldown
  <2>1. Start(p)
    BY <1>1, DecisionFollowsStart
  <2>2. PICK ok \in BOOLEAN :
          /\ Within(ok)
          /\ IF now < Loaded(p, ok).cooldown
             THEN Goto(p, "inprocess") ELSE Goto(p, "decide")
    BY <2>1 DEF Start
  <2>3. ok = TRUE /\ ~overlapped
    BY <1>1, <2>2 DEF Within
  <2>4. doc # NoDoc /\ SettledIn(doc, list, log, now)
    BY <1>1, <2>3 DEF Orderly, Quiet
  <2>5. Loaded(p, ok) = doc
    BY <2>3, <2>4 DEF Loaded, Seen
  <2>6. ~(now < doc.cooldown)
    BY <1>1, <2>2, <2>5 DEF Goto, SoundInv, ControlOK
  <2>7. doc.cooldown >= log[i] + Cooldown
    BY <1>1, <2>4 DEF SettledIn, CurrentIn, Loop, LoopIn
  <2>8. doc.cooldown \in Nat /\ now \in Nat /\ log[i] \in Nat
    BY <1>1, <2>4 DEF SoundInv, Sound, SoundKeys, ControlOK
  <2> QED
    BY <2>6, <2>7, <2>8, Bounds
<1>2. SoundInv /\ Orderly /\ [Next]_vars =>
        [\A p \in Procs :
           /\ pc[p] = "idle" /\ pc'[p] = "decide"
           /\ ~overlapped'
           => \A i \in DOMAIN log :
                Loop(i) /\ (\A q \in Procs : ~InCall(q))
                  => now >= log[i] + Cooldown]_vars
  BY <1>1
<1> QED
  BY <1>2, SoundAlways, OrderAlways, PTL DEF Spec, CrashLoopIsHalted

-----------------------------------------------------------------------------
(* The degraded history and its list keep their types.                     *)

\* f keeps the first n entries of h but those that are e.
KeptIn(f, n, h, e) ==
  \A i \in 0..n : f[i] = IF i = 0 THEN <<>>
                         ELSE IF h[i] = e THEN f[i-1] ELSE Append(f[i-1], h[i])

\* The prefixes of a filtered sequence can be written down, one by one.
LEMMA PrefixesExist ==
  ASSUME NEW S, NEW h \in Seq(S), NEW e
  PROVE \A n \in 0..Len(h) : \E f \in [0..n -> Seq(S)] :
          KeptIn(f, n, h, e) /\ \A i \in 0..n : Len(f[i]) <= i
<1> DEFINE Good(n) == \E f \in [0..n -> Seq(S)] :
             KeptIn(f, n, h, e) /\ \A i \in 0..n : Len(f[i]) <= i
           bad == {n \in 0..Len(h) : ~Good(n)}
<1>1. bad \subseteq Nat
  OBVIOUS
<1>2. SUFFICES ASSUME bad # {} PROVE FALSE
  OBVIOUS
<1>3. PICK n \in bad : \A m \in bad : ~(<<m, n>> \in OpToRel(<, Nat))
  <2> HIDE DEF bad
  <2> QED
    BY <1>1, <1>2, NatLessThanWellFounded, WFMin, Zenon
<1>4. n \in 0..Len(h) /\ ~Good(n) /\ \A m \in bad : ~(m < n)
  BY <1>1, <1>3 DEF OpToRel
<1>5. n # 0
  <2> DEFINE g == [i \in 0..0 |-> <<>>]
  <2>1. g \in [0..0 -> Seq(S)] /\ \A i \in 0..0 : i = 0 /\ g[i] = <<>> /\ Len(g[i]) <= i
    OBVIOUS
  <2> HIDE DEF g
  <2>2. Good(0)
    BY <2>1 DEF KeptIn
  <2> QED
    BY <1>4, <2>2
<1>6. PICK f \in [0..(n-1) -> Seq(S)] :
        KeptIn(f, n-1, h, e) /\ \A i \in 0..(n-1) : Len(f[i]) <= i
  <2>1. n-1 \in 0..Len(h) /\ n-1 < n
    BY <1>4, <1>5
  <2>2. Good(n-1)
    BY <1>4, <2>1
  <2> QED
    BY <2>2
<1> DEFINE last == IF h[n] = e THEN f[n-1] ELSE Append(f[n-1], h[n])
           g == [i \in 0..n |-> IF i = n THEN last ELSE f[i]]
<1>7. last \in Seq(S) /\ Len(last) <= n
  <2>1. h[n] \in S /\ n-1 \in 0..(n-1) /\ n \in Nat
    BY <1>4, <1>5
  <2>2. f[n-1] \in Seq(S) /\ Len(f[n-1]) <= n-1 /\ Len(f[n-1]) \in Nat
    BY <1>6, <2>1
  <2> QED
    BY <2>1, <2>2
<1>8. /\ g \in [0..n -> Seq(S)]
      /\ g[n] = last
      /\ \A i \in 0..(n-1) : g[i] = f[i]
      /\ \A i \in 0..n : i = n \/ i \in 0..(n-1)
      /\ n \in Nat
  <2> HIDE DEF last
  <2> QED
    BY <1>4, <1>6, <1>7
<1> HIDE DEF g
<1>9. KeptIn(g, n, h, e)
  <2>1. SUFFICES ASSUME NEW i \in 0..n
                 PROVE g[i] = IF i = 0 THEN <<>>
                              ELSE IF h[i] = e THEN g[i-1] ELSE Append(g[i-1], h[i])
    BY DEF KeptIn
  <2>2. CASE i = n
    <3>1. n-1 \in 0..(n-1)
      BY <1>4, <1>5
    <3> QED
      BY <1>5, <1>8, <2>2, <3>1
  <2>3. CASE i \in 0..(n-1)
    <3>1. i # 0 => i-1 \in 0..(n-1)
      BY <1>8, <2>3
    <3> QED
      BY <1>6, <1>8, <2>3, <3>1 DEF KeptIn
  <2> QED
    BY <1>8, <2>1, <2>2, <2>3
<1>10. \A i \in 0..n : Len(g[i]) <= i
  <2> HIDE DEF last
  <2> QED BY <1>6, <1>7, <1>8
<1> QED
  BY <1>4, <1>8, <1>9, <1>10

\* Without keeps some of the entries.
LEMMA WithoutIsKept ==
  ASSUME NEW S, NEW h \in Seq(S), NEW e
  PROVE Without(h, e) \in Seq(S) /\ Len(Without(h, e)) <= Len(h)
<1> DEFINE n == Len(h)
           Filtered(f) == [i \in 0..n |->
             IF i = 0 THEN <<>>
             ELSE IF h[i] = e THEN f[i-1] ELSE Append(f[i-1], h[i])]
           kept == CHOOSE f : f = Filtered(f)
<1>1. n \in Nat /\ n \in 0..n
  OBVIOUS
<1>2. PICK f \in [0..n -> Seq(S)] :
        KeptIn(f, n, h, e) /\ \A i \in 0..n : Len(f[i]) <= i
  BY <1>1, PrefixesExist
<1>3. f = Filtered(f)
  BY <1>2 DEF KeptIn
<1>4. kept = Filtered(kept)
  <2> HIDE DEF Filtered
  <2> QED BY <1>3
<1>5. Without(h, e) = kept[n]
  BY Zenon DEF Without
<1> HIDE DEF kept
<1>6. \A i \in 0..n : kept[i] = f[i]
  <2> DEFINE bad == {i \in 0..n : kept[i] # f[i]}
  <2>1. bad \subseteq Nat
    OBVIOUS
  <2>2. SUFFICES ASSUME bad # {} PROVE FALSE
    OBVIOUS
  <2>3. PICK i \in bad : \A j \in bad : ~(<<j, i>> \in OpToRel(<, Nat))
    <3> HIDE DEF bad
    <3> QED
      BY <2>1, <2>2, NatLessThanWellFounded, WFMin, Zenon
  <2>4. i \in 0..n /\ kept[i] # f[i] /\ \A j \in bad : ~(j < i)
    BY <2>1, <2>3 DEF OpToRel
  <2>5. i # 0 => i-1 \in 0..n /\ kept[i-1] = f[i-1]
    BY <2>4
  <2>6. kept[i] = Filtered(kept)[i] /\ f[i] = Filtered(f)[i]
    <3> HIDE DEF Filtered
    <3> QED BY <1>3, <1>4
  <2>7. Filtered(kept)[i] = Filtered(f)[i]
    BY <2>4, <2>5
  <2> QED
    BY <2>4, <2>6, <2>7
<1> QED
  BY <1>1, <1>2, <1>5, <1>6


LEMMA FirstIsShort ==
  ASSUME NEW S, NEW h \in Seq(S), NEW n \in Nat
  PROVE FirstOf(h, n) \in Seq(S) /\ Len(FirstOf(h, n)) <= n
BY DEF FirstOf

\* What the list, and what replaces it, is.
IsShort(h) == h \in Seq(Entries) /\ Len(h) <= HistoryCap

\* What a call at a point has of the history, or the entry it is about.
HoldsTyped(point, f) ==
  /\ point = "merge" /\ "history" \in DOMAIN f.arg => f.arg.history \in Seq(Entries)
  /\ point = "save" => f.copy.history \in Seq(Entries)
  /\ point = "history" => f.arg \in Entries
  /\ point = "replace" => IsShort(f.rows)

HistoriesTyped ==
  /\ doc # NoDoc => doc.history \in Seq(Entries)
  /\ IsShort(list)
  /\ \A p \in Procs : mem[p].history \in Seq(Entries)
  /\ \A p \in Procs : HoldsTyped(pc[p], frame[p])

\* A step of p to the point l with the locals f.
LEMMA StepKeepsTyped ==
  ASSUME SoundInv, HistoriesTyped, NEW p \in Procs, NEW l, NEW f, Call(p, l, f),
         HoldsTyped(l, f),
         \A q \in Procs : mem'[q] = mem[q] \/ mem'[q].history \in Seq(Entries),
         doc' = doc \/ doc'.history \in Seq(Entries),
         list' = list \/ IsShort(list')
  PROVE HistoriesTyped'
<1>1. ASSUME NEW q \in Procs PROVE HoldsTyped(pc'[q], frame'[q])
  <2>1. IF q = p THEN pc'[q] = l /\ frame'[q] = f
                 ELSE pc'[q] = pc[q] /\ frame'[q] = frame[q]
    BY DEF Call, Goto, SoundInv, ControlOK
  <2> QED
    BY <2>1 DEF HistoriesTyped
<1>2. /\ doc' # NoDoc => doc'.history \in Seq(Entries)
      /\ \A q \in Procs : mem'[q].history \in Seq(Entries)
  BY DEF HistoriesTyped
<1>3. IsShort(list')
  BY DEF HistoriesTyped
<1> QED
  BY <1>1, <1>2, <1>3 DEF HistoriesTyped, IsShort

\* A step of p that begins or continues no call.
LEMMA MoveKeepsTyped ==
  ASSUME SoundInv, HistoriesTyped, NEW p \in Procs, NEW l, Goto(p, l),
         l \notin CallPoints, UNCHANGED <<redis, frame>>,
         \A q \in Procs : mem'[q] = mem[q] \/ mem'[q].history \in Seq(Entries)
  PROVE HistoriesTyped'
<1>1. ASSUME NEW q \in Procs PROVE HoldsTyped(pc'[q], frame'[q])
  <2>1. pc'[q] = (IF q = p THEN l ELSE pc[q]) /\ frame'[q] = frame[q]
    BY DEF Goto, SoundInv, ControlOK
  <2>2. HoldsTyped(pc[q], frame[q]) /\ HoldsTyped(l, frame[q])
    BY DEF HistoriesTyped, HoldsTyped, CallPoints
  <2> QED
    BY <2>1, <2>2
<1>2. /\ doc' = doc /\ list' = list
      /\ \A q \in Procs : mem'[q].history \in Seq(Entries)
  BY DEF HistoriesTyped, redis
<1> QED
  BY <1>1, <1>2 DEF HistoriesTyped, IsShort

LEMMA LoadedIsTyped ==
  ASSUME HistoriesTyped, NEW p \in Procs, NEW ok \in BOOLEAN
  PROVE Loaded(p, ok).history \in Seq(Entries)
BY DEF HistoriesTyped, Loaded, Seen

LEMMA UpdatedIsTyped ==
  ASSUME NEW l, NEW s, NEW u, Sound(s, l), s.history \in Seq(Entries),
         "history" \in DOMAIN u => u.history \in Seq(Entries)
  PROVE Updated(s, u).history \in Seq(Entries)
BY DEF Sound, Updated

LEMMA NewestIsShort ==
  ASSUME NEW e \in Entries, NEW h \in Seq(Entries)
  PROVE IsShort(FirstOf(<<e>> \o h, HistoryCap)) /\ NewestFirst(e, h) \in Seq(Entries)
<1>1. <<e>> \o h \in Seq(Entries)
  OBVIOUS
<1> QED
  BY <1>1, Bounds, FirstIsShort DEF IsShort, NewestFirst


LEMMA KeysKeepTyped ==
  ASSUME SoundInv, HistoriesTyped, NEW p \in Procs, NEW keys, NEW next,
         "history" \in DOMAIN keys => keys.history \in Seq(Entries),
         MergeKeys(p, keys, next)
  PROVE HistoriesTyped'
<1>1. PICK ok \in BOOLEAN :
        Call(p, "save", [NoFrame EXCEPT !.back = next,
                          !.copy = Updated(Loaded(p, ok), keys)])
  BY DEF MergeKeys
<1> DEFINE f == [NoFrame EXCEPT !.back = next, !.copy = Updated(Loaded(p, ok), keys)]
<1>2. f.copy = Updated(Loaded(p, ok), keys)
  BY DEF NoFrame
<1>3. f.copy.history \in Seq(Entries)
  <2>1. Sound(Loaded(p, ok), log) /\ Loaded(p, ok).history \in Seq(Entries)
    BY LoadedIsSound, LoadedIsTyped
  <2> HIDE DEF f
  <2> QED
    BY <1>2, <2>1, UpdatedIsTyped
<1>4. Call(p, "save", f) /\ mem' = mem /\ doc' = doc /\ list' = list
  BY <1>1 DEF MergeKeys, redis
<1> HIDE DEF f
<1>5. HoldsTyped("save", f)
  BY <1>3 DEF HoldsTyped
<1> QED
  BY <1>4, <1>5, StepKeepsTyped


LEMMA RuntimeKeepsTyped ==
  ASSUME SoundInv, HistoriesTyped, NEW p \in Procs, RuntimeCall(p)
  PROVE HistoriesTyped'
<1>0. ASSUME NEW l \in {"range", "idle"}, NEW f PROVE HoldsTyped(l, f)
  BY DEF HoldsTyped
<1>1. CASE MergeLoad(p)
  <2>1. PICK ok \in BOOLEAN :
          Call(p, "save", [frame[p] EXCEPT
                            !.copy = Updated(Loaded(p, ok), frame[p].arg)])
    BY <1>1 DEF MergeLoad
  <2> DEFINE f == [frame[p] EXCEPT !.copy = Updated(Loaded(p, ok), frame[p].arg)]
  <2>2. f.copy = Updated(Loaded(p, ok), frame[p].arg)
    BY DEF SoundInv, ControlOK, Locals
  <2>3. f.copy.history \in Seq(Entries)
    <3>1. Sound(Loaded(p, ok), log) /\ Loaded(p, ok).history \in Seq(Entries)
      BY LoadedIsSound, LoadedIsTyped
    <3>2. "history" \in DOMAIN frame[p].arg => frame[p].arg.history \in Seq(Entries)
      BY <1>1 DEF HistoriesTyped, HoldsTyped, MergeLoad
    <3> HIDE DEF f
    <3> QED
      BY <2>2, <3>1, <3>2, UpdatedIsTyped
  <2>4. Call(p, "save", f) /\ mem' = mem /\ doc' = doc /\ list' = list
    BY <1>1, <2>1 DEF MergeLoad, redis
  <2> HIDE DEF f
  <2>5. HoldsTyped("save", f)
    BY <2>3 DEF HoldsTyped
  <2> QED
    BY <2>4, <2>5, StepKeepsTyped
<1>2. CASE Save(p)
  <2>1. frame[p].copy.history \in Seq(Entries)
    BY <1>2 DEF HistoriesTyped, HoldsTyped, Save
  <2>2. /\ \A q \in Procs : mem'[q] = mem[q] \/ mem'[q].history \in Seq(Entries)
        /\ doc' = doc \/ doc'.history \in Seq(Entries)
        /\ list' = list
    BY <1>2, <2>1 DEF Save, SoundInv, ControlOK
  <2>3. CASE frame[p].back = "range"
    <3>1. Call(p, "range", [frame[p] EXCEPT !.back = "idle"])
      BY <1>2, <2>3 DEF Save
    <3> QED
      BY <1>0, <2>2, <3>1, StepKeepsTyped
  <2>4. CASE frame[p].back # "range"
    <3>1. Call(p, frame[p].back, NoFrame)
      BY <1>2, <2>4 DEF Save, Return
    <3>2. frame[p].back \notin {"merge", "save", "history", "replace"}
      BY DEF SoundInv, ControlOK, Backs
    <3>3. HoldsTyped(frame[p].back, NoFrame)
      BY <3>2 DEF HoldsTyped
    <3> QED
      BY <2>2, <3>1, <3>3, StepKeepsTyped
  <2> QED
    BY <2>3, <2>4
<1>3. CASE ReadHistory(p)
  <2>1. PICK ok \in BOOLEAN :
          Call(p, "merge", [frame[p] EXCEPT
             !.arg = [history |-> NewestFirst(@, Loaded(p, ok).history)]])
    BY <1>3 DEF ReadHistory
  <2> DEFINE f == [frame[p] EXCEPT
                     !.arg = [history |-> NewestFirst(@, Loaded(p, ok).history)]]
  <2>2. f.arg.history = NewestFirst(frame[p].arg, Loaded(p, ok).history)
    BY DEF SoundInv, ControlOK, Locals
  <2>3. frame[p].arg \in Entries
    BY <1>3 DEF HistoriesTyped, HoldsTyped, ReadHistory
  <2>4. f.arg.history \in Seq(Entries)
    <3>1. Loaded(p, ok).history \in Seq(Entries)
      BY LoadedIsTyped
    <3> HIDE DEF f
    <3> QED
      BY <2>2, <2>3, <3>1, NewestIsShort
  <2>5. Call(p, "merge", f) /\ mem' = mem /\ doc' = doc /\ list' = list
    BY <1>3, <2>1 DEF ReadHistory, redis
  <2> HIDE DEF f
  <2>6. HoldsTyped("merge", f)
    BY <2>4 DEF HoldsTyped
  <2> QED
    BY <2>5, <2>6, StepKeepsTyped
<1>4. CASE ReadList(p)
  <2>1. mem' = mem /\ doc' = doc /\ list' = list /\ frame[p].back = "idle"
    BY <1>4 DEF ReadList, redis, SoundInv, ControlOK
  <2> DEFINE f == [NoFrame EXCEPT !.rows = Without(list, frame[p].rows)]
  <2>2. Call(p, "replace", f) \/ Call(p, "idle", NoFrame)
    BY <1>4, <2>1 DEF ReadList, Return
  <2>3. f.rows = Without(list, frame[p].rows)
    BY DEF NoFrame
  <2>4. IsShort(f.rows)
    <3>1. list \in Seq(Entries) /\ Len(list) <= HistoryCap /\ Len(list) \in Nat
      BY DEF HistoriesTyped, IsShort
    <3>2. /\ Without(list, frame[p].rows) \in Seq(Entries)
          /\ Len(Without(list, frame[p].rows)) <= Len(list)
      BY <3>1, WithoutIsKept
    <3>3. Len(Without(list, frame[p].rows)) \in Nat
      BY <3>2
    <3> HIDE DEF f
    <3> QED
      BY <2>3, <3>1, <3>2, <3>3, Bounds DEF IsShort
  <2> HIDE DEF f
  <2>5. HoldsTyped("replace", f)
    BY <2>4 DEF HoldsTyped
  <2>6. HoldsTyped("idle", NoFrame)
    BY <1>0
  <2> QED
    BY <2>1, <2>2, <2>5, <2>6, StepKeepsTyped
<1>5. CASE ReplaceList(p)
  <2>1. IsShort(frame[p].rows) /\ frame[p].back = "idle"
    BY <1>5 DEF HistoriesTyped, HoldsTyped, ReplaceList, SoundInv, ControlOK
  <2>2. /\ Call(p, "idle", NoFrame) /\ mem' = mem /\ doc' = doc
        /\ list' = list \/ IsShort(list')
    BY <1>5, <2>1 DEF ReplaceList, Return
  <2> QED
    BY <1>0, <2>2, StepKeepsTyped
<1>6. CASE Rewrite(p)
  <2>1. MergeKeys(p, <<>>, "idle")
    BY <1>6 DEF Rewrite
  <2>2. "history" \in DOMAIN <<>> => <<>>.history \in Seq(Entries)
    OBVIOUS
  <2> QED
    BY <2>1, <2>2, KeysKeepTyped
<1>7. ASSUME NEW e \in Entries, RecordDegraded(p, e) PROVE HistoriesTyped'
  <2> DEFINE f == [NoFrame EXCEPT !.arg = e]
  <2>1. Call(p, "history", f) /\ f.arg = e /\ mem' = mem /\ doc' = doc
    BY <1>7 DEF RecordDegraded, NoFrame
  <2>2. list' = list \/ IsShort(list')
    <3>1. list' = list \/ list' = FirstOf(<<e>> \o list, HistoryCap)
      BY <1>7 DEF RecordDegraded
    <3>2. list \in Seq(Entries)
      BY DEF HistoriesTyped, IsShort
    <3> QED
      BY <3>1, <3>2, NewestIsShort
  <2> HIDE DEF f
  <2>3. HoldsTyped("history", f)
    BY <2>1 DEF HoldsTyped
  <2> QED
    BY <2>1, <2>2, <2>3, StepKeepsTyped
<1>8. ASSUME NEW e \in Entries, RemoveFalse(p, e) PROVE HistoriesTyped'
  <2>1. PICK ok \in BOOLEAN :
          LET h == Loaded(p, ok).history
              f == [NoFrame EXCEPT !.rows = e]
          IN \/ Without(h, e) = h /\ Call(p, "range", f)
             \/ /\ Without(h, e) # h
                /\ Call(p, "merge", [f EXCEPT
                     !.back = "range", !.arg = [history |-> Without(h, e)]])
    BY <1>8 DEF RemoveFalse
  <2> DEFINE h == Loaded(p, ok).history
             f == [NoFrame EXCEPT !.rows = e]
             g == [f EXCEPT !.back = "range",
                            !.arg = [history |-> Without(h, e)]]
  <2>2. Call(p, "range", f) \/ Call(p, "merge", g)
    BY <2>1
  <2>3. g.arg.history = Without(h, e)
    BY DEF NoFrame
  <2>4. g.arg.history \in Seq(Entries)
    <3>1. h \in Seq(Entries)
      BY LoadedIsTyped
    <3> HIDE DEF h, g
    <3> QED
      BY <2>3, <3>1, WithoutIsKept
  <2>5. mem' = mem /\ doc' = doc /\ list' = list
    BY <1>8 DEF RemoveFalse, redis
  <2> HIDE DEF f, g
  <2>6. HoldsTyped("merge", g) /\ HoldsTyped("range", f)
    BY <1>0, <2>4 DEF HoldsTyped
  <2> QED
    BY <2>2, <2>5, <2>6, StepKeepsTyped
<1> QED
  BY <1>1, <1>2, <1>3, <1>4, <1>5, <1>6, <1>7, <1>8 DEF RuntimeCall


LEMMA StageKeepsTyped ==
  ASSUME SoundInv, HistoriesTyped, NEW p \in Procs, Start(p) \/ Stage(p)
  PROVE HistoriesTyped'
<1>0. Fresh.history \in Seq(Entries)
  BY DEF Fresh
<1>1. CASE Crashed(p)
  <2>1. PICK next \in {"activate", "crashed"} : RecordCrash(p, next)
    BY <1>1 DEF Crashed
  <2>2. PICK ok \in BOOLEAN :
          Call(p, "merge", [NoFrame EXCEPT !.back = next,
                                           !.arg = CrashKeys(Loaded(p, ok))])
    BY <2>1 DEF RecordCrash
  <2> DEFINE f == [NoFrame EXCEPT !.back = next, !.arg = CrashKeys(Loaded(p, ok))]
  <2>3. f.arg = CrashKeys(Loaded(p, ok))
    BY DEF NoFrame
  <2>4. DOMAIN f.arg = {"crashes", "cooldown"}
    BY <2>3 DEF CrashKeys
  <2>5. Call(p, "merge", f) /\ mem' = mem /\ doc' = doc /\ list' = list
    BY <2>1, <2>2 DEF RecordCrash, redis
  <2> HIDE DEF f
  <2>6. HoldsTyped("merge", f)
    BY <2>4 DEF HoldsTyped
  <2> QED
    BY <2>5, <2>6, StepKeepsTyped
<1>2. CASE Activate(p)
  <2>1. "history" \in DOMAIN [safe |-> TRUE]
          => [safe |-> TRUE].history \in Seq(Entries)
    OBVIOUS
  <2> QED
    BY <1>2, <2>1, KeysKeepTyped DEF Activate
<1>3. CASE ~Crashed(p) /\ ~Activate(p)
  <2>1. PICK l \in {"idle", "decide", "inprocess", "join", "done"} : Goto(p, l)
    BY <1>3 DEF Stage, Start, Decide, Answered, NoAnswer, CrashFallback, InProcess,
                InProcessRaises, JobEnds, Finish, Fallback
  <2>2. UNCHANGED <<redis, frame>>
    BY <1>3 DEF Stage, Start, Decide, Answered, NoAnswer, CrashFallback, InProcess,
                InProcessRaises, JobEnds
  <2>3. \A q \in Procs : mem'[q] = mem[q] \/ mem'[q].history \in Seq(Entries)
    <3>1. mem' = mem \/ mem' = [mem EXCEPT ![p] = Fresh]
      BY <1>3 DEF Stage, Start, Decide, Answered, NoAnswer, CrashFallback, InProcess,
                  InProcessRaises, JobEnds
    <3> QED
      BY <1>0, <3>1 DEF SoundInv, ControlOK
  <2> QED
    BY <2>1, <2>2, <2>3, MoveKeepsTyped DEF CallPoints
<1> QED
  BY <1>1, <1>2, <1>3

LEMMA TypedStep ==
  ASSUME SoundInv, HistoriesTyped, [Next]_vars PROVE HistoriesTyped'
<1>1. ASSUME UNCHANGED <<list, mem, pc, frame>>, doc' = doc \/ doc' = NoDoc
      PROVE HistoriesTyped'
  BY <1>1 DEF HistoriesTyped, HoldsTyped, IsShort
<1>2. CASE UNCHANGED vars
  BY <1>1, <1>2 DEF vars, rsvars, redis
<1>3. ASSUME NEW p \in Procs, ChildCommits(p) \/ ChildEnds(p)
      PROVE HistoriesTyped'
  BY <1>1, <1>3 DEF ChildCommits, ChildEnds, rsvars, redis
<1>4. CASE DocExpires \/ Tick
  BY <1>1, <1>4 DEF DocExpires, Tick, redis
<1> QED
  BY <1>2, <1>3, <1>4, RuntimeKeepsTyped, StageKeepsTyped DEF Next

LEMMA TypedInit == Init => HistoriesTyped
<1> SUFFICES ASSUME Init PROVE HistoriesTyped
  OBVIOUS
<1>1. /\ doc = Fresh /\ list = <<>>
      /\ \A p \in Procs : mem[p] = Fresh /\ pc[p] = "idle"
  BY DEF Init, RuntimeInit
<1>2. Fresh.history \in Seq(Entries)
  BY DEF Fresh
<1>3. IsShort(<<>>)
  BY Bounds DEF IsShort
<1> QED
  BY <1>1, <1>2, <1>3 DEF HistoriesTyped, HoldsTyped

LEMMA TypedAlways == Spec => []HistoriesTyped
BY TypedInit, TypedStep, SoundAlways, PTL DEF Spec

-----------------------------------------------------------------------------
(* What a stage claims, and what it has stored.                            *)

IsBatch(b) ==
  /\ DOMAIN b = {"stored", "created", "errors"}
  /\ b.stored \in Nat /\ b.created \in Nat /\ b.errors \in Nat

IsResult(r) ==
  /\ DOMAIN r = {"created", "errors", "error", "done"}
  /\ r.created \in Nat /\ r.errors \in Nat
  /\ r.error \in BOOLEAN /\ r.done \in BOOLEAN

\* Without an error in its list, x claims no more than n rows.
Modest(x, n) == x.errors = 0 => x.created <= n

\* A batch without errors has stored what it counted: no turn has rolled
\* anything back, and the commit went through.
LEMMA BatchIsModest ==
  ASSUME NEW n \in Nat, NEW outcomes \in [1..n -> {"added", "unknown", "raises"}],
         NEW committed \in BOOLEAN
  PROVE LET b == Batch(outcomes, committed) IN IsBatch(b) /\ Modest(b, b.stored)
<1> DEFINE added == Turns(outcomes, "added")
           raises == Turns(outcomes, "raises")
           b == Batch(outcomes, committed)
<1>1. added \subseteq 1..n /\ raises \subseteq 1..n /\ Pending(outcomes) \subseteq added
  BY DEF Turns, Pending
<1>2. IsFiniteSet(added) /\ IsFiniteSet(raises) /\ IsFiniteSet(Pending(outcomes))
  BY <1>1, FS_Interval, FS_Subset
<1>3. /\ Cardinality(added) \in Nat /\ Cardinality(raises) \in Nat
      /\ Cardinality(Pending(outcomes)) \in Nat
  BY <1>2, FS_CardinalityType
<1>4. /\ DOMAIN b = {"stored", "created", "errors"}
      /\ b.stored = IF committed THEN 6 * Cardinality(Pending(outcomes)) ELSE 0
      /\ b.created = 6 * Cardinality(added) + Cardinality(raises)
      /\ b.errors = Cardinality(raises) + IF committed THEN 0 ELSE 1
  BY DEF Batch, PerAirline
<1>5. ASSUME b.errors = 0 PROVE b.created <= b.stored
  <2>1. committed = TRUE /\ Cardinality(raises) = 0
    <3> HIDE DEF b, raises
    <3> QED BY <1>3, <1>4, <1>5
  <2>2. raises = {}
    BY <1>2, <2>1, FS_EmptySet
  <2>3. Pending(outcomes) = added
    BY <2>2 DEF Pending
  <2> HIDE DEF b, added, raises
  <2> QED
    BY <1>3, <1>4, <2>1, <2>3
<1>6. IsBatch(b)
  <2> HIDE DEF b, added, raises
  <2> QED
    BY <1>3, <1>4 DEF IsBatch
<1> QED
  BY <1>5, <1>6 DEF Modest

LEMMA BatchesAreModest ==
  ASSUME airlines \in Nat, NEW m, NEW b \in Batches(m)
  PROVE IsBatch(b) /\ Modest(b, b.stored)
<1>1. PICK n \in Nat : \E committed \in BOOLEAN :
        \E outcomes \in [1..n -> {"added", "unknown", "raises"}] :
          b = Batch(outcomes, committed)
  BY DEF Batches, BatchesOf
<1> QED
  BY <1>1, BatchIsModest

\* A child that may still answer is waited for; what it has committed the
\* stage has stored, until the job is over.
ClaimOf(p) ==
  /\ stored[p] \in Nat
  /\ DOMAIN child[p] = {"state", "batch"}
  /\ IsBatch(child[p].batch) /\ Modest(child[p].batch, child[p].batch.stored)
  /\ child[p].state \in {"running", "stored", "answer"} => pc[p] = "join"
  /\ child[p].state \in {"stored", "answer"} => child[p].batch.stored <= stored[p]
  /\ IsResult(result[p])
  /\ result[p].done => Modest(result[p], stored[p])

ClaimsInv ==
  /\ airlines \in Nat
  /\ env \in [Procs -> BOOLEAN] /\ mode \in [Procs -> {"native", "safe"}]
  /\ DOMAIN stored = Procs /\ DOMAIN child = Procs /\ DOMAIN result = Procs
  /\ \A p \in Procs : ClaimOf(p)


\* A step of p touches the claims of p alone.
LEMMA ClaimStep ==
  ASSUME ClaimsInv, NEW p \in Procs, airlines' = airlines,
         env' = env \/ \E v \in BOOLEAN : env' = [env EXCEPT ![p] = v],
         mode' = mode \/ \E v \in {"native", "safe"} : mode' = [mode EXCEPT ![p] = v],
         DOMAIN stored' = Procs, DOMAIN child' = Procs, DOMAIN result' = Procs,
         \A q \in Procs \ {p} :
           /\ stored'[q] = stored[q] /\ child'[q] = child[q]
           /\ result'[q] = result[q] /\ pc'[q] = pc[q],
         ClaimOf(p)'
  PROVE ClaimsInv'
<1>1. ASSUME NEW q \in Procs PROVE ClaimOf(q)'
  <2>1. CASE q = p
    BY <2>1
  <2>2. CASE q # p
    <3>1. ClaimOf(q)
      BY DEF ClaimsInv
    <3>2. /\ stored'[q] = stored[q] /\ child'[q] = child[q]
          /\ result'[q] = result[q] /\ pc'[q] = pc[q]
      BY <2>2
    <3> QED
      BY <3>1, <3>2 DEF ClaimOf
  <2> QED
    BY <2>1, <2>2
<1>2. env' \in [Procs -> BOOLEAN] /\ mode' \in [Procs -> {"native", "safe"}]
  BY DEF ClaimsInv
<1> QED
  BY <1>1, <1>2 DEF ClaimsInv

\* A step of p while no child of it may still answer, that leaves its claims.
LEMMA ControlKeepsClaims ==
  ASSUME SoundInv, ClaimsInv, NEW p \in Procs,
         child[p].state \notin {"running", "stored", "answer"},
         \E l \in Points : Goto(p, l),
         UNCHANGED <<child, stored, result, airlines>>,
         env' = env \/ \E v \in BOOLEAN : env' = [env EXCEPT ![p] = v],
         mode' = mode \/ \E v \in {"native", "safe"} : mode' = [mode EXCEPT ![p] = v]
  PROVE ClaimsInv'
<1>1. \A q \in Procs \ {p} : pc'[q] = pc[q]
  BY DEF Goto, SoundInv, ControlOK
<1>2. ClaimOf(p)'
  BY DEF ClaimsInv, ClaimOf
<1>3. DOMAIN stored' = Procs /\ DOMAIN child' = Procs /\ DOMAIN result' = Procs
  BY DEF ClaimsInv
<1> QED
  BY <1>1, <1>2, <1>3, ClaimStep

LEMMA ElsewhereNoAnswer ==
  ASSUME ClaimsInv, NEW p \in Procs, pc[p] # "join"
  PROVE child[p].state \notin {"running", "stored", "answer"}
BY DEF ClaimsInv, ClaimOf

LEMMA RuntimeKeepsClaims ==
  ASSUME SoundInv, ClaimsInv, NEW p \in Procs, RuntimeCall(p), UNCHANGED fvars
  PROVE ClaimsInv'
<1>1. pc[p] # "join"
  BY DEF RuntimeCall, MergeLoad, Save, ReadHistory, ReadList, ReplaceList, Rewrite,
         RecordDegraded, RemoveFalse, NewCall
<1>2. \E l \in Points : Goto(p, l)
  <2>1. {"save", "range", "history", "merge", "replace"} \cup Backs \subseteq Points
    BY DEF Points, CallPoints, Backs
  <2>2. frame[p].back \in Points
    BY <2>1 DEF SoundInv, ControlOK
  <2> QED
    BY <2>1, <2>2 DEF RuntimeCall, MergeLoad, Save, ReadHistory, ReadList, ReplaceList,
       Rewrite, RecordDegraded, RemoveFalse, MergeKeys, Call, Return
<1> QED
  BY <1>1, <1>2, ElsewhereNoAnswer, ControlKeepsClaims DEF fvars

LEMMA ChildKeepsClaims ==
  ASSUME SoundInv, ClaimsInv, NEW p \in Procs, ChildCommits(p) \/ ChildEnds(p)
  PROVE ClaimsInv'
<1>1. /\ UNCHANGED <<pc, env, mode, result, airlines>>
      /\ ClaimOf(p) /\ airlines \in Nat
      /\ DOMAIN stored = Procs /\ DOMAIN child = Procs /\ DOMAIN result = Procs
  BY DEF ChildCommits, ChildEnds, rsvars, ClaimsInv
<1>2. CASE ChildCommits(p)
  <2>1. PICK b \in Batches(mode[p]) :
          /\ child' = [child EXCEPT ![p] = [state |-> "stored", batch |-> b]]
          /\ stored' = [stored EXCEPT ![p] = @ + b.stored]
    BY <1>2 DEF ChildCommits
  <2>2. IsBatch(b) /\ Modest(b, b.stored)
    BY <1>1, BatchesAreModest
  <2>3. /\ DOMAIN child'[p] = {"state", "batch"}
        /\ child'[p].state = "stored" /\ child'[p].batch = b
        /\ stored'[p] = stored[p] + b.stored
        /\ child[p].state = "running"
    BY <1>1, <1>2, <2>1 DEF ChildCommits
  <2>4. /\ b.stored \in Nat /\ stored[p] \in Nat
        /\ result[p].created \in Nat
    BY <1>1, <2>2 DEF IsBatch, ClaimOf, IsResult
  <2>5. ClaimOf(p)'
    BY <1>1, <2>2, <2>3, <2>4 DEF ClaimOf, Modest
  <2> QED
    BY <1>1, <2>1, <2>5, ClaimStep
<1>3. CASE ChildEnds(p)
  <2>1. PICK end \in {"answer", "failed", "signal", "segfault"} :
          /\ end = "answer" => child[p].state = "stored"
          /\ child' = [child EXCEPT
               ![p].state = end,
               ![p].batch = IF end = "answer" THEN @ ELSE NoBatch]
    BY <1>3 DEF ChildEnds
  <2>2. /\ DOMAIN child'[p] = {"state", "batch"} /\ DOMAIN child' = Procs
        /\ child'[p].state = end
        /\ child'[p].batch = IF end = "answer" THEN child[p].batch ELSE NoBatch
        /\ \A q \in Procs \ {p} : child'[q] = child[q]
    BY <1>1, <2>1 DEF ClaimOf
  <2>3. IsBatch(NoBatch) /\ Modest(NoBatch, NoBatch.stored)
    BY DEF NoBatch, IsBatch, Modest
  <2>4. stored' = stored
    BY <1>3 DEF ChildEnds
  <2>5. child[p].state \in {"running", "stored"}
    BY <1>3 DEF ChildEnds
  <2>6. ClaimOf(p)'
    BY <1>1, <2>1, <2>2, <2>3, <2>4, <2>5 DEF ClaimOf
  <2> QED
    BY <1>1, <2>2, <2>4, <2>6, ClaimStep
<1> QED
  BY <1>2, <1>3


\* What a stage returns is what its batch says, of rows the stage has stored.
LEMMA AnswerKeepsClaims ==
  ASSUME SoundInv, ClaimsInv, NEW p \in Procs, Answered(p)
  PROVE ClaimsInv'
<1> DEFINE r == Report(child[p].batch, FALSE)
<1>1. /\ ClaimOf(p) /\ UNCHANGED <<env, mode, stored, airlines>>
      /\ DOMAIN stored = Procs /\ DOMAIN child = Procs /\ DOMAIN result = Procs
      /\ result' = [result EXCEPT ![p] = r]
      /\ child' = [child EXCEPT ![p] = [state |-> "none", batch |-> NoBatch]]
      /\ child[p].state = "answer"
  BY DEF Answered, ClaimsInv, Finish, NoChild
<1>2. /\ IsResult(r) /\ r.errors = child[p].batch.errors
      /\ r.created = child[p].batch.created
  BY <1>1 DEF Report, IsResult, ClaimOf, IsBatch
<1> HIDE DEF r
<1>3. Modest(r, stored[p])
  BY <1>1, <1>2 DEF ClaimOf, Modest, IsBatch
<1>4. \A q \in Procs \ {p} : pc'[q] = pc[q]
  BY DEF Answered, Finish, Goto, SoundInv, ControlOK
<1>5. IsBatch(NoBatch) /\ Modest(NoBatch, NoBatch.stored)
  BY DEF NoBatch, IsBatch, Modest
<1>6. /\ DOMAIN child'[p] = {"state", "batch"}
      /\ child'[p].state = "none" /\ child'[p].batch = NoBatch
      /\ result'[p] = r
  BY <1>1
<1>7. ClaimOf(p)'
  BY <1>1, <1>2, <1>3, <1>5, <1>6 DEF ClaimOf
<1> QED
  BY <1>1, <1>4, <1>7, ClaimStep

LEMMA InProcessKeepsClaims ==
  ASSUME SoundInv, ClaimsInv, NEW p \in Procs, InProcess(p)
  PROVE ClaimsInv'
<1>1. PICK b \in Batches(mode[p]) :
        /\ stored' = [stored EXCEPT ![p] = @ + b.stored]
        /\ Finish(p, Report(b, result[p].error))
  BY DEF InProcess
<1> DEFINE r == Report(b, result[p].error)
<1>2. /\ ClaimOf(p) /\ UNCHANGED <<env, mode, child, airlines>>
      /\ DOMAIN stored = Procs /\ DOMAIN child = Procs /\ DOMAIN result = Procs
      /\ result' = [result EXCEPT ![p] = r]
      /\ child[p].state \notin {"running", "stored", "answer"}
  BY <1>1, ElsewhereNoAnswer DEF InProcess, ClaimsInv, Finish
<1>3. IsBatch(b) /\ Modest(b, b.stored)
  BY BatchesAreModest DEF ClaimsInv
<1>4. /\ IsResult(r) /\ r.errors = b.errors /\ r.created = b.created
  BY <1>2, <1>3 DEF Report, IsResult, ClaimOf, IsBatch
<1>5. stored'[p] = stored[p] + b.stored
  BY <1>1, <1>2
<1>6. stored'[p] \in Nat /\ Modest(r, stored'[p])
  BY <1>2, <1>3, <1>4, <1>5 DEF ClaimOf, Modest, IsBatch
<1>7. \A q \in Procs \ {p} : pc'[q] = pc[q]
  BY <1>1 DEF Finish, Goto, SoundInv, ControlOK
<1>8. result'[p] = r
  BY <1>2
<1> HIDE DEF r
<1>9. ClaimOf(p)'
  BY <1>2, <1>4, <1>6, <1>8 DEF ClaimOf
<1> QED
  BY <1>1, <1>2, <1>7, <1>9, ClaimStep

\* Without a batch nothing is claimed.
LEMMA GiveUpKeepsClaims ==
  ASSUME SoundInv, ClaimsInv, NEW p \in Procs, InProcessRaises(p)
  PROVE ClaimsInv'
<1>0. child[p].state \notin {"running", "stored", "answer"}
  BY ElsewhereNoAnswer DEF InProcessRaises
<1>1. CASE depth[p] < MaxDepth
  <2>1. Fallback(p) /\ UNCHANGED <<child, stored, result, airlines, env>>
    BY <1>1 DEF InProcessRaises
  <2> QED
    BY <1>0, <2>1, ControlKeepsClaims DEF Fallback, Points
<1>2. CASE ~(depth[p] < MaxDepth)
  <2> DEFINE r == Report([created |-> 0, errors |-> 0], TRUE)
  <2>1. /\ ClaimOf(p) /\ UNCHANGED <<env, mode, child, stored, airlines>>
        /\ DOMAIN stored = Procs /\ DOMAIN child = Procs /\ DOMAIN result = Procs
        /\ result' = [result EXCEPT ![p] = r]
    BY <1>2 DEF InProcessRaises, ClaimsInv, Finish
  <2>2. IsResult(r) /\ r.created = 0
    BY DEF Report, IsResult
  <2>3. \A q \in Procs \ {p} : pc'[q] = pc[q]
    BY <1>2 DEF InProcessRaises, Finish, Goto, SoundInv, ControlOK
  <2>4. result'[p] = r
    BY <2>1
  <2> HIDE DEF r
  <2>5. ClaimOf(p)'
    BY <1>0, <2>1, <2>2, <2>4 DEF ClaimOf, Modest
  <2> QED
    BY <2>1, <2>3, <2>5, ClaimStep
<1> QED
  BY <1>1, <1>2

\* The child is gone, and with it what it might have answered.
LEMMA FallbackKeepsClaims ==
  ASSUME SoundInv, ClaimsInv, NEW p \in Procs, NoAnswer(p) \/ CrashFallback(p)
  PROVE ClaimsInv'
<1>1. /\ ClaimOf(p) /\ UNCHANGED <<env, stored, airlines>>
      /\ DOMAIN stored = Procs /\ DOMAIN child = Procs /\ DOMAIN result = Procs
      /\ child' = [child EXCEPT ![p] = [state |-> "none", batch |-> NoBatch]]
      /\ Fallback(p)
      /\ result' = result \/ result' = [result EXCEPT ![p].error = TRUE]
  BY DEF NoAnswer, CrashFallback, ClaimsInv, NoChild
<1>2. /\ IsResult(result'[p]) /\ result'[p].done = result[p].done
      /\ result'[p].errors = result[p].errors
      /\ result'[p].created = result[p].created
      /\ DOMAIN result' = Procs /\ \A q \in Procs \ {p} : result'[q] = result[q]
  BY <1>1 DEF ClaimOf, IsResult
<1>3. IsBatch(NoBatch) /\ Modest(NoBatch, NoBatch.stored)
  BY DEF NoBatch, IsBatch, Modest
<1>4. /\ DOMAIN child'[p] = {"state", "batch"}
      /\ child'[p].state = "none" /\ child'[p].batch = NoBatch
  BY <1>1
<1>5. ClaimOf(p)'
  BY <1>1, <1>2, <1>3, <1>4 DEF ClaimOf, Modest
<1>6. \A q \in Procs \ {p} : pc'[q] = pc[q]
  BY <1>1 DEF Fallback, Goto, SoundInv, ControlOK
<1> QED
  BY <1>1, <1>2, <1>5, <1>6, ClaimStep DEF Fallback

\* A child is spawned, and has done nothing yet.
LEMMA SpawnKeepsClaims ==
  ASSUME SoundInv, ClaimsInv, NEW p \in Procs, Decide(p)
  PROVE ClaimsInv'
<1>0. child[p].state \notin {"running", "stored", "answer"}
  BY ElsewhereNoAnswer DEF Decide
<1>1. /\ UNCHANGED <<env, stored, result, airlines>>
      /\ \E v \in {"native", "safe"} : mode' = [mode EXCEPT ![p] = v]
  BY DEF Decide
<1>2. CASE Goto(p, "inprocess") /\ UNCHANGED child
  BY <1>0, <1>1, <1>2, ControlKeepsClaims DEF Points
<1>3. CASE Goto(p, "join") /\ child' = Spawned(p)
  <2>1. /\ ClaimOf(p)
        /\ DOMAIN stored = Procs /\ DOMAIN child = Procs /\ DOMAIN result = Procs
    BY DEF ClaimsInv
  <2>2. /\ DOMAIN child' = Procs /\ DOMAIN child'[p] = {"state", "batch"}
        /\ child'[p].state = "running" /\ child'[p].batch = child[p].batch
        /\ \A q \in Procs \ {p} : child'[q] = child[q]
    BY <1>3, <2>1 DEF Spawned, ClaimOf
  <2>3. pc'[p] = "join" /\ \A q \in Procs \ {p} : pc'[q] = pc[q]
    BY <1>3 DEF Goto, SoundInv, ControlOK
  <2>4. ClaimOf(p)'
    BY <1>1, <2>1, <2>2, <2>3 DEF ClaimOf
  <2> QED
    BY <1>1, <2>1, <2>2, <2>3, <2>4, ClaimStep
<1> QED
  BY <1>2, <1>3 DEF Decide

\* The rows of the job are forgotten together with what it claimed.
LEMMA EndKeepsClaims ==
  ASSUME SoundInv, ClaimsInv, NEW p \in Procs, JobEnds(p)
  PROVE ClaimsInv'
<1>0. child[p].state \notin {"running", "stored", "answer"}
  BY ElsewhereNoAnswer DEF JobEnds
<1>1. /\ ClaimOf(p) /\ UNCHANGED <<child, airlines>>
      /\ DOMAIN stored = Procs /\ DOMAIN child = Procs /\ DOMAIN result = Procs
      /\ env' = [env EXCEPT ![p] = FALSE] /\ mode' = [mode EXCEPT ![p] = "native"]
      /\ stored' = [stored EXCEPT ![p] = 0]
      /\ result' = [result EXCEPT ![p] = NoResult]
  BY DEF JobEnds, ClaimsInv
<1>2. IsResult(NoResult) /\ NoResult.created = 0
  BY DEF NoResult, IsResult
<1>3. stored'[p] = 0 /\ result'[p] = NoResult
  BY <1>1
<1>4. ClaimOf(p)'
  BY <1>0, <1>1, <1>2, <1>3 DEF ClaimOf, Modest
<1>5. \A q \in Procs \ {p} : pc'[q] = pc[q]
  BY DEF JobEnds, Goto, SoundInv, ControlOK
<1> QED
  BY <1>1, <1>4, <1>5, ClaimStep

LEMMA StageKeepsClaims ==
  ASSUME SoundInv, ClaimsInv, NEW p \in Procs, Start(p) \/ Stage(p)
  PROVE ClaimsInv'
<1>1. CASE Start(p)
  <2>1. child[p].state \notin {"running", "stored", "answer"}
    BY <1>1, ElsewhereNoAnswer DEF Start
  <2>2. /\ UNCHANGED <<child, stored, result, airlines, env>>
        /\ \E l \in Points : Goto(p, l)
        /\ mode' = mode \/ mode' = [mode EXCEPT ![p] = "safe"]
    BY <1>1 DEF Start, Points
  <2> QED
    BY <2>1, <2>2, ControlKeepsClaims
<1>2. CASE Crashed(p)
  <2>1. child[p].state \notin {"running", "stored", "answer"}
    BY <1>2 DEF Crashed
  <2>2. UNCHANGED fvars /\ \E l \in Points : Goto(p, l)
    BY <1>2 DEF Crashed, RecordCrash, Call, Points, CallPoints
  <2> QED
    BY <2>1, <2>2, ControlKeepsClaims DEF fvars
<1>3. CASE Activate(p)
  <2>1. child[p].state \notin {"running", "stored", "answer"}
    BY <1>3, ElsewhereNoAnswer DEF Activate
  <2>2. /\ UNCHANGED <<child, stored, result, airlines, mode>>
        /\ env' = [env EXCEPT ![p] = TRUE]
        /\ \E l \in Points : Goto(p, l)
    BY <1>3 DEF Activate, MergeKeys, Call, Points, CallPoints
  <2> QED
    BY <2>1, <2>2, ControlKeepsClaims
<1> QED
  BY <1>1, <1>2, <1>3, SpawnKeepsClaims, AnswerKeepsClaims, FallbackKeepsClaims,
     InProcessKeepsClaims, GiveUpKeepsClaims, EndKeepsClaims DEF Stage

LEMMA ClaimsStep ==
  ASSUME SoundInv, ClaimsInv, [Next]_vars PROVE ClaimsInv'
<1>1. ASSUME UNCHANGED <<fvars, pc>> PROVE ClaimsInv'
  BY <1>1 DEF ClaimsInv, ClaimOf, fvars
<1>2. CASE UNCHANGED vars
  BY <1>1, <1>2 DEF vars, rsvars
<1>3. CASE (DocExpires \/ Tick) /\ UNCHANGED fvars
  BY <1>1, <1>3 DEF DocExpires, Tick
<1> QED
  BY <1>2, <1>3, RuntimeKeepsClaims, StageKeepsClaims, ChildKeepsClaims DEF Next

LEMMA ClaimsInit == Init => ClaimsInv
<1> SUFFICES ASSUME Init PROVE ClaimsInv
  OBVIOUS
<1>1. airlines \in Nat
  <2>1. PICK b \in Budgets : airlines = b.airlines
    BY DEF Init
  <2> QED
    BY <2>1, ForecastAssumption DEF ForecastAssumption
<1>2. /\ env \in [Procs -> BOOLEAN] /\ mode \in [Procs -> {"native", "safe"}]
      /\ DOMAIN stored = Procs /\ DOMAIN child = Procs /\ DOMAIN result = Procs
  BY DEF Init
<1>3. ASSUME NEW p \in Procs PROVE ClaimOf(p)
  <2>1. /\ stored[p] = 0 /\ result[p] = NoResult
        /\ child[p] = [state |-> "none", batch |-> NoBatch]
    BY DEF Init
  <2>2. IsBatch(NoBatch) /\ Modest(NoBatch, NoBatch.stored)
    BY DEF NoBatch, IsBatch, Modest
  <2>3. IsResult(NoResult) /\ NoResult.done = FALSE
    BY DEF NoResult, IsResult
  <2> QED
    BY <2>1, <2>2, <2>3 DEF ClaimOf
<1> QED
  BY <1>1, <1>2, <1>3 DEF ClaimsInv

LEMMA ClaimsAlways == Spec => []ClaimsInv
BY ClaimsInit, ClaimsStep, SoundAlways, PTL DEF Spec

\* Whatever children time out, fail or are killed, and however often a batch is
\* rolled back, a stage that claims more snapshots than it has stored lists an
\* error.
THEOREM OverclaimsAreListed == Spec => []OverclaimIsListed
<1>1. ASSUME SoundInv, HistoriesTyped, ClaimsInv PROVE OverclaimIsListed
  <2>1. TypeOK
    <3>1. \A p \in Procs : result[p].error \in BOOLEAN
      BY <1>1 DEF ClaimsInv, ClaimOf, IsResult
    <3>2. env \in [Procs -> BOOLEAN] /\ mode \in [Procs -> {"native", "safe"}]
      BY <1>1 DEF ClaimsInv
    <3> QED
      BY <1>1, <3>1, <3>2 DEF TypeOK, HistoriesTyped, IsShort, SoundInv, ControlOK
  <2>2. ASSUME NEW p \in Procs, result[p].done, result[p].created > stored[p]
        PROVE result[p].errors > 0
    <3>1. /\ result[p].created \in Nat /\ result[p].errors \in Nat /\ stored[p] \in Nat
          /\ Modest(result[p], stored[p])
      BY <1>1, <2>2 DEF ClaimsInv, ClaimOf, IsResult
    <3> QED
      BY <2>2, <3>1 DEF Modest
  <2> QED
    BY <2>1, <2>2 DEF OverclaimIsListed
<1> QED
  BY <1>1, SoundAlways, TypedAlways, ClaimsAlways, PTL

=============================================================================
