------------------------------ MODULE LockProofs ------------------------------
(***************************************************************************)
(* Proofs about the locks in front of the work: the dispatch lock under    *)
(* which accept_refresh reads and writes the lifecycle record              *)
(* (OperationLifecycle), for any sets of operations and writers, and the   *)
(* overlap lock of the periodic jobs (JobLock), for any set of executions  *)
(* and any number of retries.                                              *)
(***************************************************************************)
EXTENDS OperationLifecycle, JobLock, TLAPS

-----------------------------------------------------------------------------
(* OperationLifecycle implements LifecycleRegister. *)

USE NoOpAssumption

Busy(w) == writer[w] # Resting

\* What the dispatch lock is for.
Section ==
  \A o \in Ops : InSection(o) =>
    dispatch /\ \A p \in Ops : InSection(p) => o = p

\* Nothing can get in between the check and create_queued.
CreateSafe ==
  \A o \in Ops : pc[o] = "create" =>
    ~Register!Active(record) /\ \A w \in Writers : ~Busy(w)

\* The one writer there is writes the record of its own operation.
WriterSafe ==
  \A w \in Writers : Busy(w) =>
    /\ record.op \in {writer[w].op, NoOp}
    /\ \A x \in Writers : Busy(x) => x = w

ActiveHasOp == Register!Active(record) => record.op \in Ops

IInv ==
  /\ TypeOK
  /\ ActiveHasOp
  /\ intact => Section /\ CreateSafe /\ WriterSafe

LEMMA NotResting == \A c \in Register!Calls : c # Resting
BY DEF Register!Calls, Resting

\* The types of the variables are kept by every step.
THEOREM TypeCorrect == Spec => []TypeOK
<1> USE DEF Register!RecordType, Register!States, Register!Calls,
            Register!NoRecord, Register!Queued, NoRecord, States, Resting, TypeOK
<1>1. Init => TypeOK
  <2> SUFFICES ASSUME Init PROVE TypeOK
    OBVIOUS
  <2>1. record \in Register!RecordType
    BY DEF Init
  <2>2. pc \in [Ops -> {"new", "check", "create", "release", "done", "refused"}]
    BY DEF Init
  <2>3. writer \in [Writers -> Register!Calls \cup {Resting}]
    BY Zenon DEF Init
  <2>4. dispatch \in BOOLEAN /\ intact \in BOOLEAN
    BY Zenon DEF Init
  <2> QED BY <2>1, <2>2, <2>3, <2>4
<1>2. TypeOK /\ [Next]_vars => TypeOK'
  <2> SUFFICES ASSUME TypeOK, [Next]_vars PROVE TypeOK'
    OBVIOUS
  <2>1. ASSUME NEW o \in Ops, Request(o) PROVE TypeOK'
    <3> USE DEF Goto, Disturbs, Disturbed
    <3>1. CASE TryLock(o) \/ TryLockFails(o)
      BY <3>1 DEF TryLock, TryLockFails
    <3>2. CASE Check(o) \/ CheckFails(o)
      BY <3>2 DEF Check, CheckFails
    <3>3. CASE Create(o) \/ CreateFails(o)
      BY <3>3 DEF Create, CreateFails
    <3>4. CASE Release(o)
      <4>1. dispatch' \in BOOLEAN
        BY Zenon, <3>4 DEF Release
      <4> QED BY <3>4, <4>1 DEF Release
    <3>5. CASE Die(o)
      BY <3>5 DEF Die
    <3> QED BY <2>1, <3>1, <3>2, <3>3, <3>4, <3>5 DEF Request
  <2>2. ASSUME NEW w \in Writers, Write(w) PROVE TypeOK'
    <3>1. ASSUME NEW o \in Ops, NEW s \in States, TransitionRead(w, o, s)
          PROVE  TypeOK'
      BY <3>1 DEF TransitionRead, Disturbs
    <3>2. ASSUME NEW o \in Ops, ClearRead(w, o) PROVE TypeOK'
      BY <3>2 DEF ClearRead, Disturbs
    <3>3. CASE TransitionWrite(w)
      BY <3>3 DEF TransitionWrite, Writing
    <3>4. CASE ClearDelete(w) \/ WriteFails(w)
      BY <3>4 DEF ClearDelete, WriteFails
    <3> QED BY <2>2, <3>1, <3>2, <3>3, <3>4 DEF Write
  <2>3. CASE LockExpires
    BY <2>3 DEF LockExpires, Disturbs
  <2>5. CASE RecordExpires
    BY <2>5 DEF RecordExpires, Disturbs
  <2>4. CASE UNCHANGED vars
    BY <2>4 DEF vars
  <2> QED BY <2>1, <2>2, <2>3, <2>4, <2>5 DEF Next
<1> QED BY <1>1, <1>2, PTL DEF Spec

\* A request's steps: the lock admits one, and Check leaves no writer behind.
LEMMA RequestKeeps ==
  ASSUME IInv, TypeOK', NEW o \in Ops, Request(o) PROVE IInv'
<1> USE DEF IInv, TypeOK, ActiveHasOp, Section, CreateSafe, WriterSafe, Busy,
            InSection, Goto, Disturbs, Disturbed, Register!Active
<1>1. CASE TryLock(o) BY <1>1 DEF TryLock
<1>2. CASE TryLockFails(o) BY <1>2 DEF TryLockFails
<1>3. CASE Check(o) BY <1>3 DEF Check
<1>4. CASE CheckFails(o) BY <1>4 DEF CheckFails
<1>5. CASE Create(o) BY <1>5 DEF Create, Register!Queued
<1>6. CASE CreateFails(o) BY <1>6 DEF CreateFails
<1>7. CASE Release(o) BY <1>7 DEF Release
<1>8. CASE Die(o) BY <1>8 DEF Die
<1> QED BY <1>1, <1>2, <1>3, <1>4, <1>5, <1>6, <1>7, <1>8 DEF Request

\* A writer's GET makes it the only one, or is a disturbance.
LEMMA ReadKeeps ==
  ASSUME IInv, TypeOK', NEW w \in Writers, NEW o \in Ops,
         NEW c \in Register!Calls, c.op = o,
         writer[w] = Resting, record.op \in {o, NoOp},
         writer' = [writer EXCEPT ![w] = c],
         Disturbs(Collides(w, o)), UNCHANGED <<record, dispatch, pc>>
  PROVE  IInv'
<1> USE DEF IInv, ActiveHasOp
<1>1. ActiveHasOp'
  BY DEF Register!Active
<1> SUFFICES ASSUME intact' PROVE (Section /\ CreateSafe /\ WriterSafe)'
  BY <1>1
<1>2. intact /\ ~Collides(w, o)
  BY DEF Disturbs
<1>3. Section'
  BY <1>2 DEF Section, InSection
<1>4. ASSUME NEW x \in Writers, Busy(x) PROVE FALSE
  <2>1. record.op \in {writer[x].op, NoOp} /\ x # w
    BY <1>2, <1>4 DEF WriterSafe, Busy
  <2>2. CASE Register!Active(record)
    BY <1>2, <2>1, <2>2 DEF Collides, Alone
  <2>3. CASE ~Register!Active(record)
    BY <1>2, <1>4, <2>1, <2>3 DEF Collides, Quiet, Busy
  <2> QED BY <2>2, <2>3
<1>5. WriterSafe'
  BY <1>4 DEF WriterSafe, Busy, TypeOK
<1>6. ASSUME NEW p \in Ops, pc[p] = "create" PROVE FALSE
  <2>1. ~Register!Active(record) /\ InSection(p)
    BY <1>2, <1>6 DEF CreateSafe, InSection
  <2> QED BY <1>2, <2>1 DEF Collides, Quiet
<1>7. CreateSafe'
  BY <1>6 DEF CreateSafe
<1> QED BY <1>3, <1>5, <1>7

LEMMA WriteKeeps ==
  ASSUME IInv, TypeOK', NEW w \in Writers, Write(w) PROVE IInv'
<1>1. ASSUME NEW o \in Ops, NEW s \in States, TransitionRead(w, o, s)
      PROVE  IInv'
  <2>1. [op |-> o, state |-> s] \in Register!Calls
    BY DEF Register!Calls, States
  <2> QED BY <1>1, <2>1, ReadKeeps DEF TransitionRead
<1>2. ASSUME NEW o \in Ops, ClearRead(w, o) PROVE IInv'
  <2>1. [op |-> o, state |-> "clear"] \in Register!Calls
    BY DEF Register!Calls
  <2> QED BY <1>2, <2>1, ReadKeeps DEF ClearRead
<1>3. CASE TransitionWrite(w) \/ ClearDelete(w) \/ WriteFails(w)
  <2> USE DEF IInv, TypeOK, Busy, Section, CreateSafe, WriterSafe, InSection,
              ActiveHasOp, Resting, Register!Active, Register!NoRecord, NoRecord,
              Register!Calls, Register!States, States, Writing, Clearing
  <2>1. CASE TransitionWrite(w) BY <1>3, <2>1 DEF TransitionWrite
  <2>2. CASE ClearDelete(w) BY <1>3, <2>2 DEF ClearDelete
  <2>3. CASE WriteFails(w) BY <1>3, <2>3 DEF WriteFails
  <2> QED BY <1>3, <2>1, <2>2, <2>3
<1> QED BY <1>1, <1>2, <1>3 DEF Write

\* Until something disturbs it, the section of accept_refresh has one request,
\* and at most one writer is under way, with the record still its own.
THEOREM Undisturbed == Spec => []IInv
<1>1. Init /\ TypeOK => IInv
  <2> SUFFICES ASSUME Init, TypeOK PROVE IInv
    OBVIOUS
  <2>1. ActiveHasOp
    BY DEF Init, ActiveHasOp, NoRecord, Register!NoRecord, Register!Active
  <2>2. Section /\ CreateSafe
    BY DEF Init, Section, CreateSafe, InSection
  <2>3. WriterSafe
    BY Zenon DEF Init, WriterSafe, Busy
  <2> QED BY <2>1, <2>2, <2>3 DEF IInv
<1>2. IInv /\ TypeOK' /\ [Next]_vars => IInv'
  <2> SUFFICES ASSUME IInv, TypeOK', [Next]_vars PROVE IInv'
    OBVIOUS
  <2> USE DEF IInv, ActiveHasOp, Section, CreateSafe, WriterSafe, Busy,
              InSection, Disturbs
  <2>1. CASE LockExpires
    BY <2>1 DEF LockExpires
  <2>2. CASE RecordExpires
    BY <2>2 DEF RecordExpires, Register!Active, Register!NoRecord, NoRecord
  <2>3. CASE UNCHANGED vars
    BY <2>3 DEF vars, TypeOK
  <2> QED BY <2>1, <2>2, <2>3, RequestKeeps, WriteKeeps DEF Next
<1> QED BY <1>1, <1>2, TypeCorrect, PTL DEF Spec

-----------------------------------------------------------------------------
\* Every step is a step of the register or leaves it alone.
LEMMA StepSimulates ==
  ASSUME IInv, TypeOK', [Next]_vars
  PROVE  [Register!Next]_<<record, CallsUnderWay, intact>>
<1>1. CallsUnderWay' \in SUBSET Register!Calls
  BY DEF CallsUnderWay, TypeOK
<1>2. CASE UNCHANGED vars
  BY <1>2 DEF vars, CallsUnderWay
<1>3. CASE Next /\ intact' = FALSE
  BY <1>1, <1>3 DEF Register!Next
<1>4. CASE Next /\ intact' # FALSE
  <2>1. intact' = TRUE /\ intact
    BY <1>4 DEF TypeOK, IInv, Next, Request, Write, TryLock, TryLockFails, Check,
         CheckFails, Create, CreateFails, Release, Die, TransitionRead, ClearRead,
         TransitionWrite, ClearDelete, WriteFails, LockExpires, RecordExpires,
         Disturbs, Disturbed
  <2> SUFFICES Register!Promised
    BY <1>1, <2>1 DEF Register!Next
  <2>2. ASSUME NEW o \in Ops, Request(o) PROVE Register!Promised
    <3>1. CASE Create(o)
      <4>1. Register!Accept(o)
        BY <2>1, <3>1 DEF Create, Register!Accept, IInv, CreateSafe
      <4> QED BY <4>1 DEF Register!Promised
    <3>2. CASE ~Create(o)
      BY <2>2, <3>2 DEF Request, TryLock, TryLockFails, Check, CheckFails,
           CreateFails, Release, Die, Register!Promised, Register!Idle
    <3> QED BY <3>1, <3>2
  <2>3. ASSUME NEW w \in Writers, Write(w) PROVE Register!Promised
    <3>1. CASE TransitionWrite(w)
      <4>1. writer[w] \in CallsUnderWay
        BY <3>1 DEF TransitionWrite, Writing, CallsUnderWay, Resting, States,
             Register!States
      <4>2. record.op \in {writer[w].op, NoOp}
        BY <2>1, <4>1 DEF IInv, WriterSafe, Busy, CallsUnderWay
      <4>3. Register!Transition(writer[w])
        BY <3>1, <4>2 DEF TransitionWrite, Writing, States, Register!Transition
      <4> QED BY <4>1, <4>3 DEF Register!Promised
    <3>2. CASE ClearDelete(w)
      <4>1. writer[w] \in CallsUnderWay
        BY <3>2 DEF ClearDelete, Clearing, CallsUnderWay, Resting
      <4>2. CASE record.op = writer[w].op
        <5>1. Register!Clear(writer[w])
          BY <3>2, <4>2 DEF ClearDelete, Clearing, Register!Clear, NoRecord
        <5> QED BY <4>1, <5>1 DEF Register!Promised
      <4>3. CASE record.op # writer[w].op
        <5>1. record.op = NoOp
          BY <2>1, <4>1, <4>3 DEF IInv, WriterSafe, Busy, CallsUnderWay
        <5>2. ~Register!Active(record)
          BY <5>1 DEF IInv, ActiveHasOp
        <5>3. Register!Expire
          BY <3>2, <5>2 DEF ClearDelete, Register!Expire, NoRecord
        <5> QED BY <5>3 DEF Register!Promised
      <4> QED BY <4>2, <4>3
    <3>3. CASE ~TransitionWrite(w) /\ ~ClearDelete(w)
      BY <2>3, <3>3 DEF Write, TransitionRead, ClearRead, WriteFails,
           Register!Promised, Register!Idle
    <3> QED BY <3>1, <3>2, <3>3
  <2>4. CASE LockExpires
    BY <2>4 DEF LockExpires, Register!Promised, Register!Idle
  <2>5. CASE RecordExpires
    BY <2>1, <2>5 DEF RecordExpires, Disturbs, Register!Promised, Register!Expire,
         NoRecord
  <2> QED BY <1>4, <2>2, <2>3, <2>4, <2>5 DEF Next
<1> QED BY <1>2, <1>3, <1>4

\* OperationLifecycleManager, command by command, implements the register.
THEOREM ImplementsRegister == Spec => CallsAreAtomic
<1>1. Init => Register!Init
  BY DEF Init, Register!Init, NoRecord, CallsUnderWay
<1>2. IInv /\ TypeOK' /\ [Next]_vars =>
        [Register!Next]_<<record, CallsUnderWay, intact>>
  BY StepSimulates
<1> QED BY <1>1, <1>2, Undisturbed, TypeCorrect, PTL
        DEF Spec, CallsAreAtomic, Register!Spec

-----------------------------------------------------------------------------
(* What the overlap lock of the jobs guarantees. *)

USE DEF MaxRetriesAssumption, history

AnyStep(e) ==
  \/ Enqueue(e) \/ Read(e) \/ Step(e) \/ Crash(e) \/ ReleaseFails(e)

\* Every step of JobSpec is an expiry or a step of one execution.
LEMMA NextCases == JobNext => Expire \/ \E e \in Execs : AnyStep(e)
  BY DEF JobNext, Disturbance, AnyStep

\* Fails moves one execution on and counts within MaxRetries.
LEMMA FailsType ==
  ASSUME NEW e \in Execs, JobTypeOK, Fails(e)
  PROVE /\ point' \in [Execs -> ExecStates]
        /\ retries' \in [Execs -> 0 .. MaxRetries]
        /\ point' \in {[point EXCEPT ![e] = "queued"], [point EXCEPT ![e] = "failed"]}
  BY MaxRetriesAssumption DEF Fails, JobTypeOK, ExecStates

LEMMA FlushedType ==
  ASSUME NEW e \in Execs, JobTypeOK, NEW s \in RowStatuses, NEW u \in Untils
  PROVE Flushed(e, s, u) \in RowType
  BY DEF Flushed, JobTypeOK, RowType

LEMMA TypeInit == JobInit => JobTypeOK
<1> SUFFICES ASSUME JobInit PROVE JobTypeOK
  OBVIOUS
<1>1. NoRow \in RowType
  BY DEF NoRow, RowType, RowStatuses, Untils
<1>2. 0 \in 0 .. MaxRetries
  BY MaxRetriesAssumption
<1> QED
  BY <1>1, <1>2 DEF JobInit, JobTypeOK, ExecStates

LEMMA TypeStep == JobTypeOK /\ [JobNext]_jobVars => JobTypeOK'
<1> SUFFICES ASSUME JobTypeOK, [JobNext]_jobVars PROVE JobTypeOK'
  OBVIOUS
<1> USE DEF RowType, RowStatuses, Untils, ExecStates, NoRow
<1>1. CASE UNCHANGED jobVars
  BY <1>1 DEF jobVars, history, JobTypeOK
<1>2. CASE Expire
  BY <1>2 DEF Expire, JobTypeOK
<1>3. ASSUME NEW e \in Execs, Enqueue(e) PROVE JobTypeOK'
  BY <1>3, MaxRetriesAssumption DEF Enqueue, JobTypeOK
<1>4. ASSUME NEW e \in Execs, Read(e) PROVE JobTypeOK'
  BY <1>4 DEF Read, JobTypeOK
<1>5. ASSUME NEW e \in Execs, MeetsLock(e) PROVE JobTypeOK'
  BY <1>5, FailsType DEF MeetsLock, Close, JobTypeOK
<1>6. ASSUME NEW e \in Execs, CreateRow(e) PROVE JobTypeOK'
  <2>1. NoRow \in RowType /\ loaded' \in [Execs -> RowType]
    BY <1>6 DEF CreateRow, Close, JobTypeOK
  <2>2. CASE ~row.exists
    <3>1. row' \in RowType
      <4>1. row' = [exists |-> TRUE, status |-> "running", until |-> "future"]
        BY <1>6, <2>2 DEF CreateRow
      <4> QED BY <4>1
    <3> QED BY <1>6, <2>1, <2>2, <3>1 DEF CreateRow, JobTypeOK
  <2>3. CASE row.exists
    BY <1>6, <2>1, <2>3, FailsType DEF CreateRow, JobTypeOK
  <2> QED BY <2>2, <2>3
<1>7. ASSUME NEW e \in Execs, TakeLock(e) PROVE JobTypeOK'
  BY <1>7, FlushedType DEF TakeLock, Close, JobTypeOK
<1>8. ASSUME NEW e \in Execs, FnReturns(e) \/ FnRaises(e) PROVE JobTypeOK'
  BY <1>8 DEF FnReturns, FnRaises, JobTypeOK
<1>9. ASSUME NEW e \in Execs, ReleaseRead(e) PROVE JobTypeOK'
  BY <1>9 DEF ReleaseRead, JobTypeOK
<1>10. ASSUME NEW e \in Execs, ReleaseCommit(e) PROVE JobTypeOK'
  <2>1. row' \in RowType
    BY <1>10, FlushedType DEF ReleaseCommit, JobTypeOK
  <2> QED BY <1>10, <2>1, FailsType DEF ReleaseCommit, Close, JobTypeOK
<1>11. ASSUME NEW e \in Execs, ReleaseFails(e) PROVE JobTypeOK'
  BY <1>11, FailsType DEF ReleaseFails, Close, JobTypeOK
<1>12. ASSUME NEW e \in Execs, Crash(e) PROVE JobTypeOK'
  BY <1>12, FailsType DEF Crash, Close, Inside, JobTypeOK
<1> QED
  BY <1>1, <1>2, <1>3, <1>4, <1>5, <1>6, <1>7, <1>8, <1>9, <1>10, <1>11, <1>12,
     NextCases DEF AnyStep, Step

\* Every variable keeps its type, however executions interleave.
THEOREM JobTypeCorrect == JobSpec => []JobTypeOK
  BY TypeInit, TypeStep, PTL DEF JobSpec

-----------------------------------------------------------------------------
(* LockAccounted needs no more than the types: a lock that is set has a    *)
(* witness that will reset it, and every step keeps one.                   *)

LEMMA AccountedInit == JobInit => LockAccounted
  BY DEF JobInit, LockAccounted, NoRow

\* An execution that does not move stays a witness.
LEMMA WitnessStays ==
  ASSUME NEW x \in Execs, WillReset(x), point'[x] = point[x], loaded'[x] = loaded[x]
  PROVE WillReset(x)'
  BY DEF WillReset

LEMMA AccountedStep == JobTypeOK /\ LockAccounted /\ [JobNext]_jobVars => LockAccounted'
<1> SUFFICES ASSUME JobTypeOK, LockAccounted, [JobNext]_jobVars, row'.until # "null"
             PROVE orphaned' \/ \E x \in Execs : WillReset(x)'
  BY DEF LockAccounted
<1> USE DEF RowType, RowStatuses, Untils, NoRow
<1>1. CASE UNCHANGED jobVars
  BY <1>1 DEF jobVars, LockAccounted, WillReset
<1>2. CASE Expire
  BY <1>2 DEF Expire, LockAccounted, WillReset
<1>3. ASSUME NEW e \in Execs, Enqueue(e)
      PROVE orphaned' \/ \E x \in Execs : WillReset(x)'
  BY <1>3 DEF Enqueue, LockAccounted, WillReset, JobTypeOK
<1>4. ASSUME NEW e \in Execs, Read(e)
      PROVE orphaned' \/ \E x \in Execs : WillReset(x)'
  BY <1>4 DEF Read, LockAccounted, WillReset, JobTypeOK
<1>5. ASSUME NEW e \in Execs, MeetsLock(e)
      PROVE orphaned' \/ \E x \in Execs : WillReset(x)'
  BY <1>5, FailsType DEF MeetsLock, Close, LockAccounted, WillReset, JobTypeOK
<1>6. ASSUME NEW e \in Execs, CreateRow(e)
      PROVE orphaned' \/ \E x \in Execs : WillReset(x)'
  <2>1. CASE ~row.exists
    BY <1>6, <2>1 DEF CreateRow, WillReset, JobTypeOK
  <2>2. CASE row.exists
    BY <1>6, <2>2, FailsType DEF CreateRow, Close, LockAccounted, WillReset, JobTypeOK
  <2> QED BY <2>1, <2>2
<1>7. ASSUME NEW e \in Execs, TakeLock(e)
      PROVE orphaned' \/ \E x \in Execs : WillReset(x)'
  BY <1>7 DEF TakeLock, WillReset, JobTypeOK
<1>8. ASSUME NEW e \in Execs, FnReturns(e) \/ FnRaises(e)
      PROVE orphaned' \/ \E x \in Execs : WillReset(x)'
  BY <1>8 DEF FnReturns, FnRaises, LockAccounted, WillReset, JobTypeOK
<1>9. ASSUME NEW e \in Execs, ReleaseRead(e)
      PROVE orphaned' \/ \E x \in Execs : WillReset(x)'
  BY <1>9 DEF ReleaseRead, LockAccounted, WillReset, JobTypeOK
\* Had the release loaded a lock, the row would be free now; it has not, so
\* the lock it leaves alone has another witness.
<1>10. ASSUME NEW e \in Execs, ReleaseCommit(e)
       PROVE orphaned' \/ \E x \in Execs : WillReset(x)'
  <2>1. loaded[e].until = "null" /\ row.until # "null"
    BY <1>10 DEF ReleaseCommit, Flushed
  <2>2. ~WillReset(e)
    BY <1>10, <2>1 DEF WillReset, ReleaseCommit
  <2>3. orphaned \/ \E x \in Execs : x # e /\ WillReset(x)
    BY <2>1, <2>2 DEF LockAccounted
  <2>4. \A x \in Execs : x # e => point'[x] = point[x] /\ loaded'[x] = loaded[x]
    BY <1>10, FailsType DEF ReleaseCommit, Close, JobTypeOK
  <2>5. orphaned' = orphaned
    BY <1>10 DEF ReleaseCommit
  <2> QED BY <2>3, <2>4, <2>5, WitnessStays
<1>11. ASSUME NEW e \in Execs, ReleaseFails(e)
       PROVE orphaned' \/ \E x \in Execs : WillReset(x)'
  BY <1>11 DEF ReleaseFails, WillReset, JobTypeOK
<1>12. ASSUME NEW e \in Execs, Crash(e)
       PROVE orphaned' \/ \E x \in Execs : WillReset(x)'
  <2>1. CASE Inside(e)
    BY <1>12, <2>1 DEF Crash
  <2>2. CASE ~Inside(e)
    BY <1>12, <2>2, FailsType DEF Crash, Close, Inside, LockAccounted, WillReset, JobTypeOK
  <2> QED BY <2>1, <2>2
<1> QED
  BY <1>1, <1>2, <1>3, <1>4, <1>5, <1>6, <1>7, <1>8, <1>9, <1>10, <1>11, <1>12,
     NextCases DEF AnyStep, Step

\* A lock that is set belongs to an execution that will reset it, or somebody
\* died or failed while releasing (release_job_lock).
THEOREM LockAccountedHolds == JobSpec => []LockAccounted
  BY TypeInit, TypeStep, AccountedInit, AccountedStep, PTL DEF JobSpec

-----------------------------------------------------------------------------
(* As long as no two acquire_job_lock calls have interleaved, RaceFree is  *)
(* inductive.  Its core is that the row says "running" exactly while the   *)
(* lock is set, and that a free lock loaded by an acquiring execution      *)
(* stays free until that execution takes it.                               *)

LEMMA RaceFreeInit == JobInit => RaceFree
  BY DEF JobInit, RaceFree, Inside, NoRow

\* A failing execution is outside afterwards, and nobody else has moved.
LEMMA FailsOutside ==
  ASSUME NEW e \in Execs, JobTypeOK, Fails(e), Close(e)
  PROVE  /\ point'[e] \in {"queued", "failed"}
         /\ \A x \in Execs : x # e => point'[x] = point[x] /\ loaded'[x] = loaded[x]
  BY DEF Fails, Close, JobTypeOK

\* A step of one execution that leaves the row alone and goes outside.
LEMMA RaceFreeLeaves ==
  ASSUME RaceFree, row' = row, NEW e \in Execs,
         point'[e] \in {"queued", "failed", "ended"},
         \A x \in Execs : x # e => point'[x] = point[x] /\ loaded'[x] = loaded[x]
  PROVE  RaceFree'
  BY DEF RaceFree, Inside

\* A step of an execution that stays inside and leaves the row alone.
LEMMA RaceFreeStays ==
  ASSUME RaceFree, row' = row, NEW e \in Execs,
         Inside(e), point'[e] \in {"run", "release"},
         \A x \in Execs : x # e => point'[x] = point[x] /\ loaded'[x] = loaded[x]
  PROVE  RaceFree'
  BY DEF RaceFree, Inside

\* An acquiring execution gets the lock: nobody else was inside or acquiring.
LEMMA RaceFreeEnters ==
  ASSUME RaceFree, NEW e \in Execs,
         point[e] = "acquire", loaded[e].until = "null",
         point'[e] = "run",
         row'.exists, row'.status = "running", row'.until = "future",
         \A x \in Execs : x # e => point'[x] = point[x] /\ loaded'[x] = loaded[x]
  PROVE  RaceFree'
  BY DEF RaceFree, Inside

LEMMA RaceFreeStep ==
  ASSUME JobTypeOK, ~raced => RaceFree, [JobNext]_jobVars, ~raced'
  PROVE  RaceFree'
<1>1. CASE UNCHANGED jobVars
  BY <1>1 DEF jobVars, history, RaceFree, Inside
<1>2. CASE Expire
  <2>1. /\ row'.status = row.status /\ row'.exists = row.exists
        /\ row.until # "null" /\ row'.until # "null"
        /\ UNCHANGED <<point, loaded>> /\ ~raced
    BY <1>2 DEF Expire, history, JobTypeOK, RowType
  <2> QED
    BY <2>1 DEF RaceFree, Inside
<1>3. ASSUME NEW e \in Execs, AnyStep(e) PROVE RaceFree
  BY <1>3 DEF AnyStep, Enqueue, Read, Step, Crash, ReleaseFails, MeetsLock,
     CreateRow, TakeLock, FnReturns, FnRaises, ReleaseRead, ReleaseCommit, history
<1>4. ASSUME NEW e \in Execs, Enqueue(e), RaceFree PROVE RaceFree'
  BY <1>4, RaceFreeLeaves DEF Enqueue, JobTypeOK
<1>5. ASSUME NEW e \in Execs, Read(e), RaceFree PROVE RaceFree'
  <2>1. /\ row' = row
        /\ point'[e] = "acquire" /\ loaded'[e] = row
        /\ \A x \in Execs : x # e => point'[x] = point[x] /\ loaded'[x] = loaded[x]
        /\ \A x \in Execs : point[x] # "acquire"
    BY <1>5 DEF Read, JobTypeOK
  <2> QED
    BY <1>5, <2>1 DEF RaceFree, Inside
<1>6. ASSUME NEW e \in Execs, MeetsLock(e), RaceFree PROVE RaceFree'
  BY <1>6, FailsOutside, RaceFreeLeaves DEF MeetsLock
<1>7. ASSUME NEW e \in Execs, CreateRow(e), RaceFree PROVE RaceFree'
  <2>1. CASE row.exists
    BY <1>7, <2>1, FailsOutside, RaceFreeLeaves DEF CreateRow
  <2>2. CASE ~row.exists
    <3>1. /\ point[e] = "acquire"
          /\ point'[e] = "run"
          /\ row'.exists /\ row'.status = "running" /\ row'.until = "future"
          /\ \A x \in Execs : x # e => point'[x] = point[x] /\ loaded'[x] = loaded[x]
      BY <1>7, <2>2 DEF CreateRow, Close, JobTypeOK
    <3>2. loaded[e].until = "null"
      BY <1>7 DEF RaceFree, CreateRow
    <3> QED BY <1>7, <3>1, <3>2, RaceFreeEnters
  <2> QED BY <2>1, <2>2
<1>8. ASSUME NEW e \in Execs, TakeLock(e), RaceFree PROVE RaceFree'
  <2>1. /\ point[e] = "acquire" /\ loaded[e].until = "null"
        /\ point'[e] = "run"
        /\ \A x \in Execs : x # e => point'[x] = point[x] /\ loaded'[x] = loaded[x]
    BY <1>8 DEF TakeLock, Close, JobTypeOK
  <2>2. row' = Flushed(e, "running", "future")
    BY <1>8 DEF TakeLock
  <2>3. loaded[e].status # "running"
    BY <1>8, <2>1 DEF RaceFree
  <2>4. row'.exists /\ row'.status = "running" /\ row'.until = "future"
    BY <2>1, <2>2, <2>3 DEF Flushed
  <2> QED BY <1>8, <2>1, <2>4, RaceFreeEnters
<1>9. ASSUME NEW e \in Execs, FnReturns(e) \/ FnRaises(e), RaceFree PROVE RaceFree'
  BY <1>9, RaceFreeStays DEF FnReturns, FnRaises, Inside, JobTypeOK
<1>10. ASSUME NEW e \in Execs, ReleaseRead(e), RaceFree PROVE RaceFree'
  <2>1. /\ row' = row /\ Inside(e)
        /\ point'[e] = "commit" /\ loaded'[e] = row
        /\ \A x \in Execs : x # e => point'[x] = point[x] /\ loaded'[x] = loaded[x]
    BY <1>10 DEF ReleaseRead, Inside, JobTypeOK
  <2>2. row.status = "running" /\ row.until # "null"
    BY <1>10, <2>1 DEF RaceFree
  <2> QED
    BY <1>10, <2>1, <2>2 DEF RaceFree, Inside
<1>11. ASSUME NEW e \in Execs, ReleaseCommit(e), RaceFree PROVE RaceFree'
  <2>1. /\ point[e] = "commit" /\ Inside(e)
        /\ row' = Flushed(e, outcome[e], "null")
        /\ outcome[e] \in {"success", "failed"}
    BY <1>11 DEF ReleaseCommit, Inside, JobTypeOK
  <2>2. row'.exists /\ row'.status # "running" /\ row'.until = "null"
    BY <1>11, <2>1 DEF RaceFree, Flushed
  <2>3. /\ point'[e] \in {"queued", "failed", "ended"}
        /\ \A x \in Execs : x # e => point'[x] = point[x] /\ loaded'[x] = loaded[x]
    BY <1>11, FailsOutside DEF ReleaseCommit, Close, JobTypeOK
  <2>4. \A x \in Execs : ~Inside(x)'
    BY <1>11, <2>1, <2>3 DEF RaceFree, Inside
  <2> QED
    BY <1>11, <2>2, <2>3, <2>4 DEF RaceFree, Inside
<1>12. ASSUME NEW e \in Execs, ReleaseFails(e), RaceFree PROVE RaceFree'
  <2>1. row' = row /\ Close(e) /\ Inside(e)
    BY <1>12 DEF ReleaseFails, Inside
  <2>2. CASE outcome[e] = "success"
    BY <1>12, <2>1, <2>2, RaceFreeStays DEF ReleaseFails, Close, JobTypeOK
  <2>3. CASE outcome[e] # "success"
    BY <1>12, <2>1, <2>3, FailsOutside, RaceFreeLeaves DEF ReleaseFails
  <2> QED BY <2>2, <2>3
<1>13. ASSUME NEW e \in Execs, Crash(e), RaceFree PROVE RaceFree'
  BY <1>13, FailsOutside, RaceFreeLeaves DEF Crash
<1> QED
  BY <1>1, <1>2, <1>3, <1>4, <1>5, <1>6, <1>7, <1>8, <1>9, <1>10, <1>11, <1>12,
     <1>13, NextCases DEF AnyStep, Step

LEMMA RaceInvHolds == JobSpec => []RaceInv
<1>1. JobInit => RaceInv
  BY TypeInit, RaceFreeInit DEF RaceInv
<1>2. RaceInv /\ [JobNext]_jobVars => RaceInv'
  BY TypeStep, RaceFreeStep DEF RaceInv
<1> QED
  BY <1>1, <1>2, PTL DEF JobSpec

\* Two executions of a job overlap only if their acquire_job_lock calls have
\* interleaved: never because a lock has outlived its minutes.
THEOREM OverlapNeedsRaceHolds == JobSpec => []OverlapNeedsRace
<1>1. RaceInv => OverlapNeedsRace
  BY DEF RaceInv, RaceFree, OverlapNeedsRace
<1> QED
  BY <1>1, RaceInvHolds, PTL

\* The row of a running execution says so and is locked, unless such a race
\* has happened.
THEOREM RowShowsRunHolds == JobSpec => []RowShowsRun
<1>1. RaceInv => RowShowsRun
  BY DEF RaceInv, RaceFree, RowShowsRun
<1> QED
  BY <1>1, RaceInvHolds, PTL

=============================================================================
