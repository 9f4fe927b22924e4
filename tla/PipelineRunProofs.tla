-------------------------- MODULE PipelineRunProofs --------------------------
(***************************************************************************)
(* Proofs about PipelineRun, for any list of stages and any number of      *)
(* attempts.                                                               *)
(***************************************************************************)
EXTENDS PipelineRun, TLAPS

USE DEF AttemptsAssumption

-----------------------------------------------------------------------------
(* What the operators return. *)

LEMMA StagesFacts ==
  /\ Stages \in Seq(DOMAIN Output)
  /\ Len(Stages) \in Nat
  /\ DOMAIN Stages = 1 .. Len(Stages)
  /\ 1 \in DOMAIN Stages
<1>1. Stages \in Seq(DOMAIN Output) /\ Stages # <<>>
  BY StagesAssumption DEF StagesAssumption
<1> HIDE DEF Output
<1> QED
  BY <1>1

LEMMA CurrentStage ==
  ASSUME next \in DOMAIN Stages
  PROVE Current \in StageSet
  BY DEF Current, StageSet

LEMMA OutputTables ==
  ASSUME NEW s \in StageSet
  PROVE Output[s] \subseteq Tables
  BY DEF Tables

LEMMA BlankType ==
  /\ Blank \in Results
  /\ \A text \in Classes : Failure(text) \in Results
  BY DEF Blank, Failure, Results, Classes

LEMMA NotedType ==
  ASSUME NEW errs \in [Reporters -> Classes], NEW s, NEW text \in Classes
  PROVE Noted(errs, s, text) \in [Reporters -> Classes]
  BY DEF Noted

LEMMA MarkedType ==
  ASSUME NEW res \in [StageSet -> Results], NEW errs \in [Reporters -> Classes],
         NEW refuted
  PROVE /\ Marked(res, refuted) \in [StageSet -> Results]
        /\ Dropped(errs, refuted) \in [Reporters -> Classes]
<1>1. ASSUME NEW s \in StageSet
      PROVE [res[s] EXCEPT !.err = "none", !.reconciled = TRUE] \in Results
  BY DEF Results, Classes
<1>2. "none" \in Classes
  BY DEF Classes
<1> QED
  BY <1>1, <1>2 DEF Marked, Dropped

LEMMA FailedType ==
  ASSUME NEW res, NEW errs
  PROVE FailedStages(res, errs) \subseteq Reporters
  BY DEF FailedStages, Reporters

LEMMA PayloadsType ==
  ASSUME TypeOK, NEW stage \in BlobStages, NEW res \in [StageSet -> Results],
         NEW failed \in SUBSET Reporters, NEW known \in SUBSET Tables
  PROVE Payloads(stage, res, failed, known) \subseteq BlobType
<1>1. attempt \in 0 .. MaxAttempts
  BY DEF TypeOK
<1>2. known \cup blob.kpis \in SUBSET Tables
  BY DEF TypeOK, BlobType
<1> QED
  BY <1>1, <1>2 DEF Payloads, BlobType

LEMMA ProgressType ==
  ASSUME TypeOK, NEW res \in [StageSet -> Results], NEW errs,
         kpis' \subseteq Tables
  PROVE Progress(res, errs) \subseteq BlobType
<1>1. "working" \in BlobStages
  BY DEF BlobStages
<1> QED
  BY <1>1, FailedType, PayloadsType DEF Progress

LEMMA WriteType ==
  ASSUME TypeOK, NEW payloads \in SUBSET BlobType,
         Write(payloads) \/ WriteRaises(payloads)
  PROVE blob' \in BlobType
  BY DEF Write, WriteRaises, TypeOK

LEMMA AdvanceType ==
  ASSUME TypeOK, Advance
  PROVE next' \in DOMAIN Stages /\ pc' \in Points
  BY StagesFacts DEF Advance, Points, TypeOK

LEMMA VerdictType ==
  ASSUME TypeOK, NEW s \in StageSet, NEW result \in Results,
         NEW text \in Classes, Verdict(s, result, text)
  PROVE results' \in [StageSet -> Results] /\ errors' \in [Reporters -> Classes]
  BY NotedType DEF Verdict, TypeOK

LEMMA CommitsType ==
  ASSUME TypeOK, NEW s \in StageSet, Commits(s)
  PROVE db' \subseteq Tables /\ db \subseteq db'
  BY OutputTables DEF Commits, TypeOK

LEMMA TextsType ==
  ASSUME NEW s, NEW text \in Texts(s)
  PROVE text \in Classes \ {"none"}
  BY DEF Texts, Classes

-----------------------------------------------------------------------------
(* Type correctness. *)

LEMMA TypeInit ==
  ASSUME Init
  PROVE TypeOK
<1>1. Blank \in Results /\ "none" \in Classes
  BY BlankType DEF Classes
<1>2. results \in [StageSet -> Results] /\ errors \in [Reporters -> Classes]
  BY <1>1 DEF Init, NoResults, NoErrors
<1>3. blob \in BlobType
  <2>1. NoResults \in [StageSet -> Results]
    BY <1>1 DEF NoResults
  <2> QED
    BY <2>1, AttemptsAssumption DEF Init, QueuedBlob, BlobType, BlobStages
<1>4. row \in RowType
  BY AttemptsAssumption DEF Init, NoRow, RowType
<1>5. pc \in Points /\ attempt \in 1 .. MaxAttempts /\ next \in DOMAIN Stages
  BY StagesFacts, AttemptsAssumption DEF Init, Points
<1>6. /\ kpis \subseteq Tables /\ db \subseteq Tables /\ worked \subseteq StageSet
      /\ evidence \subseteq Refutable \cap StageSet
  BY DEF Init
<1> QED
  BY <1>2, <1>3, <1>4, <1>5, <1>6 DEF TypeOK

LEMMA TypeStart ==
  ASSUME TypeOK, Start \/ StartRaises
  PROVE TypeOK'
<1>1. Blank \in Results /\ "none" \in Classes
  BY BlankType DEF Classes
<1>2. /\ results' \in [StageSet -> Results] /\ errors' \in [Reporters -> Classes]
      /\ kpis' = {} /\ worked' = {} /\ evidence' = {} /\ next' = 1
  BY <1>1 DEF Start, StartRaises, Begun, NoResults, NoErrors
<1>3. FirstStatus \subseteq BlobType
  <2>1. NoResults \in [StageSet -> Results]
    BY <1>1 DEF NoResults
  <2> QED
    BY <2>1 DEF FirstStatus, BlobType, BlobStages, TypeOK
<1>4. blob' \in BlobType
  BY <1>3, WriteType DEF Start, StartRaises
<1>5. pc' \in Points /\ UNCHANGED <<attempt, db, row>>
  BY DEF Start, StartRaises, Begun, Points
<1> QED
  BY <1>2, <1>4, <1>5, StagesFacts DEF TypeOK

\* Steps of a stage that end in a verdict on it.
LEMMA TypeVerdict ==
  ASSUME TypeOK, SkipBlocked \/ SkipContract \/ SoftFail \/ Raise \/ Succeed
  PROVE TypeOK'
<1>1. Current \in StageSet
  BY CurrentStage DEF TypeOK
<1>2. "other" \in Classes /\ "refutable" \in Classes /\ "none" \in Classes
  BY DEF Classes
<1>3. CASE SkipBlocked
  <2>1. Verdict(Current, Failure("other"), "other") /\ Advance
        /\ UNCHANGED <<attempt, kpis, db, blob, row, history>>
    BY <1>3 DEF SkipBlocked
  <2>2. results' \in [StageSet -> Results] /\ errors' \in [Reporters -> Classes]
    BY <2>1, <1>1, <1>2, BlankType, VerdictType
  <2> QED
    BY <2>1, <2>2, AdvanceType DEF TypeOK, history
<1>4. CASE SkipContract
  <2>1. /\ Verdict(Current, [Blank EXCEPT !.contract = TRUE],
                   IF Current = "knowledge_graph" THEN "refutable" ELSE "other")
        /\ Advance
        /\ UNCHANGED <<attempt, kpis, db, blob, row, history>>
    BY <1>4 DEF SkipContract
  <2>2. [Blank EXCEPT !.contract = TRUE] \in Results
    BY BlankType DEF Results
  <2>3. results' \in [StageSet -> Results] /\ errors' \in [Reporters -> Classes]
    BY <2>1, <2>2, <1>1, <1>2, VerdictType
  <2> QED
    BY <2>1, <2>3, AdvanceType DEF TypeOK, history
<1>5. CASE SoftFail
  <2>1. PICK text \in Texts(Current), total, contract \in BOOLEAN :
          Verdict(Current, [Failure(text) EXCEPT !.total = total,
                                                 !.contract = contract], text)
    BY <1>5 DEF SoftFail
  <2>2. text \in Classes
    BY TextsType
  <2>3. [Failure(text) EXCEPT !.total = total, !.contract = contract] \in Results
    BY <2>2, BlankType DEF Results
  <2>4. results' \in [StageSet -> Results] /\ errors' \in [Reporters -> Classes]
    BY <2>1, <2>2, <2>3, <1>1, VerdictType
  <2>5. db' \subseteq Tables
    BY <1>1, <1>5, CommitsType DEF SoftFail
  <2> QED
    BY <1>5, <2>4, <2>5 DEF SoftFail, TypeOK, Points, history
<1>6. CASE Raise
  <2>1. PICK text \in Texts(Current) : Verdict(Current, Failure(text), text)
    BY <1>6 DEF Raise
  <2>2. text \in Classes
    BY TextsType
  <2>3. results' \in [StageSet -> Results] /\ errors' \in [Reporters -> Classes]
    BY <2>1, <2>2, <1>1, BlankType, VerdictType
  <2>4. db' \subseteq Tables
    BY <1>1, <1>6, CommitsType DEF Raise
  <2> QED
    BY <1>6, <2>3, <2>4 DEF Raise, TypeOK, Points, history
<1>7. CASE Succeed
  <2>1. PICK total \in BOOLEAN :
          /\ Verdict(Current, [Blank EXCEPT !.total = total], "none")
          /\ kpis' = Accumulated(Current, total)
    BY <1>7 DEF Succeed
  <2>2. [Blank EXCEPT !.total = total] \in Results
    BY BlankType DEF Results
  <2>3. results' \in [StageSet -> Results] /\ errors' \in [Reporters -> Classes]
    BY <2>1, <2>2, <1>1, <1>2, VerdictType
  <2>4. db' \subseteq Tables
    BY <1>1, <1>7, CommitsType DEF Succeed
  <2>5. kpis' \subseteq Tables
    BY <2>1, <1>1, OutputTables DEF Accumulated, TypeOK
  <2>6. /\ worked' = worked \cup {Current} /\ pc' = "report"
        /\ UNCHANGED <<attempt, next, blob, row, evidence>>
    BY <1>7 DEF Succeed
  <2> QED
    BY <1>1, <2>3, <2>4, <2>5, <2>6 DEF TypeOK, Points
<1> QED
  BY <1>3, <1>4, <1>5, <1>6, <1>7

\* Steps that write the progress of the run.
LEMMA TypeProgress ==
  ASSUME TypeOK,
         \/ BeginStage \/ BeginRaises
         \/ Report \/ ReportRaises \/ Handle \/ HandleRaises
         \/ FinalizeRaises
  PROVE TypeOK'
<1>1. /\ UNCHANGED <<attempt, kpis, db, row, evidence>>
      /\ Write(Progress(results, errors)) \/ WriteRaises(Progress(results, errors))
  BY DEF BeginStage, BeginRaises, Report, ReportRaises, Handle, HandleRaises,
         FinalizeRaises, PropagationMissing, memory, history
<1>2. blob' \in BlobType
  BY <1>1, ProgressType, WriteType DEF TypeOK
<1>3. next' \in DOMAIN Stages /\ pc' \in Points
  <2>1. CASE Report \/ Handle
    BY <2>1, AdvanceType DEF Report, Handle
  <2>2. CASE ~ (Report \/ Handle)
    BY <2>2 DEF BeginStage, BeginRaises, ReportRaises, HandleRaises,
         FinalizeRaises, PropagationMissing, memory, Points, TypeOK
  <2> QED
    BY <2>1, <2>2
<1>4. /\ results' \in [StageSet -> Results] /\ errors' \in [Reporters -> Classes]
      /\ worked' \subseteq StageSet
  <2>1. CASE ReportRaises
    <3>1. "other" \in Classes
      BY DEF Classes
    <3>2. results' \in [StageSet -> Results] /\ errors' \in [Reporters -> Classes]
      BY <2>1, <3>1, CurrentStage, BlankType, VerdictType DEF ReportRaises, TypeOK
    <3> QED
      BY <2>1, <3>2 DEF ReportRaises, TypeOK
  <2>2. CASE ~ ReportRaises
    BY <2>2 DEF BeginStage, BeginRaises, Report, Handle, HandleRaises,
         FinalizeRaises, PropagationMissing, memory, history, TypeOK
  <2> QED
    BY <2>1, <2>2
<1> QED
  BY <1>1, <1>2, <1>3, <1>4 DEF TypeOK

\* The missing propagation leaves what was read of the tables.
LEMMA TypePropagation ==
  ASSUME TypeOK, PropagationMissing
  PROVE TypeOK'
<1>1. /\ UNCHANGED <<attempt, next, results, errors, db, row, evidence, worked>>
      /\ pc' \in Points
  BY DEF PropagationMissing, history, Points
<1>2. kpis' \subseteq Tables
  BY DEF PropagationMissing, TypeOK
<1>3. blob' \in BlobType
  <2>1. Progress(results, errors) \subseteq BlobType
    BY <1>2, ProgressType DEF TypeOK
  <2> QED
    BY <2>1, WriteType DEF PropagationMissing
<1> QED
  BY <1>1, <1>2, <1>3 DEF TypeOK

LEMMA TypeReconcile ==
  ASSUME TypeOK, Reconcile \/ ReconcileRaises
  PROVE TypeOK'
<1>1. Reconciled
  BY DEF Reconcile, ReconcileRaises
<1>2. /\ UNCHANGED <<attempt, next, db, row, worked>>
      /\ pc' \in Points
  BY DEF Reconciled, Reconcile, ReconcileRaises, Points
<1>3. kpis' \subseteq Tables
  BY <1>1 DEF Reconciled, TypeOK
<1>4. PICK healthy \in BOOLEAN :
        /\ results' = Marked(results, Refuted(results, errors, kpis', healthy))
        /\ errors' = Dropped(errors, Refuted(results, errors, kpis', healthy))
        /\ evidence' = Evidence(healthy)
  BY <1>1 DEF Reconciled
<1>5. results' \in [StageSet -> Results] /\ errors' \in [Reporters -> Classes]
  BY <1>4, MarkedType DEF TypeOK
<1>6. evidence' \subseteq Refutable \cap StageSet
  BY <1>4 DEF Evidence
<1>7. blob' \in BlobType
  <2>1. Progress(results', errors') \subseteq BlobType
    BY <1>3, <1>5, ProgressType
  <2> QED
    BY <2>1, WriteType DEF Reconcile, ReconcileRaises
<1> QED
  BY <1>2, <1>3, <1>5, <1>6, <1>7 DEF TypeOK

LEMMA TypeEnd ==
  ASSUME TypeOK, Conclude \/ ConcludeRaises \/ Fail \/ FailRaises
  PROVE TypeOK'
<1>1. /\ UNCHANGED <<attempt, next, results, kpis, db, row, history>>
      /\ pc' \in Points
  BY DEF Conclude, ConcludeRaises, Fail, FailRaises, memory, history, Points
<1>2. errors' \in [Reporters -> Classes]
  <2>1. "other" \in Classes
    BY DEF Classes
  <2> QED
    BY <2>1, NotedType DEF Conclude, ConcludeRaises, Fail, FailRaises, memory,
         NotedFailure, TypeOK
<1>3. \A stage \in BlobStages, failed \in SUBSET Reporters :
        Payloads(stage, results, failed, kpis) \subseteq BlobType
  BY PayloadsType DEF TypeOK
<1>4. Terminal \subseteq BlobType
  <2>1. "completed" \in BlobStages /\ "completed_degraded" \in BlobStages
    BY DEF BlobStages
  <2> QED
    BY <1>3, <2>1, FailedType DEF Terminal
<1>5. Payloads("failed", results, {}, kpis) \subseteq BlobType
  BY <1>3 DEF BlobStages
<1>6. Progress(results, errors) \subseteq BlobType
  BY <1>1, ProgressType DEF TypeOK
<1>7. blob' \in BlobType
  <2>1. CASE Conclude \/ ConcludeRaises
    BY <2>1, <1>4, <1>6, WriteType DEF Conclude, ConcludeRaises
  <2>2. CASE Fail \/ FailRaises
    BY <2>2, <1>5, WriteType DEF Fail, FailRaises
  <2> QED
    BY <2>1, <2>2
<1> QED
  BY <1>1, <1>2, <1>7 DEF TypeOK, history

LEMMA TypeClose ==
  ASSUME TypeOK, Unlock \/ Persist \/ Return \/ Crash \/ Retry
  PROVE TypeOK'
<1>1. UNCHANGED <<next, results, errors, kpis, blob, worked, evidence>>
      /\ pc' \in Points
  BY DEF Unlock, Persist, Return, Crash, Retry, memory, history, Points
<1>2. db' \subseteq Tables
  BY CurrentStage, CommitsType DEF Unlock, Persist, Return, Crash, Retry, TypeOK
<1>3. row' \in RowType
  <2>1. attempt \in 0 .. MaxAttempts
    BY AttemptsAssumption DEF TypeOK
  <2> QED
    BY <2>1 DEF Unlock, Persist, Return, Crash, Retry, TypeOK, RowType
<1>4. attempt' \in 1 .. MaxAttempts
  BY AttemptsAssumption DEF Unlock, Persist, Return, Crash, Retry, TypeOK
<1> QED
  BY <1>1, <1>2, <1>3, <1>4 DEF TypeOK

LEMMA TypeStep ==
  ASSUME TypeOK, [Next]_vars
  PROVE TypeOK'
<1>1. CASE UNCHANGED vars
  BY <1>1 DEF TypeOK, vars, memory, history
<1>2. CASE Next
  BY <1>2, TypeStart, TypeVerdict, TypeProgress, TypePropagation,
     TypeReconcile, TypeEnd, TypeClose
  DEF Next
<1> QED
  BY <1>1, <1>2

\* execute's state, the status blob and the recorded run keep their types
\* through every stage, failure, kill and retry.
THEOREM TypeCorrect == Spec => []TypeOK
  BY TypeInit, TypeStep, PTL DEF Spec

-----------------------------------------------------------------------------
(* The gate of a stage. *)

\* What a run knows of the tables is true: a positive KPI, and the count of
\* every stage but fusion, is that of a table with rows.
KpisStored == kpis \subseteq db
CountsStored ==
  \A s \in StageSet \ {"fusion"} : results[s].total => Output[s] \subseteq db

GateInv == TypeOK /\ KpisStored /\ CountsStored /\ GatesAreSound

LEMMA NoStageEmptiesTables ==
  ASSUME Next
  PROVE db \subseteq db'
  BY DEF Next, Start, StartRaises, Begun, SkipBlocked, SkipContract, BeginStage,
    BeginRaises, Succeed, SoftFail, Raise, Commits, Report, ReportRaises, Handle,
    HandleRaises, FinalizeRaises, PropagationMissing, Reconcile, ReconcileRaises, Reconciled,
    Conclude, ConcludeRaises, Fail, FailRaises, Unlock, Persist, Return, Crash, Retry

\* Recording a result that has no count, or a stored one, keeps the counts true.
LEMMA VerdictStored ==
  ASSUME TypeOK, CountsStored, db \subseteq db', NEW s \in StageSet, NEW result,
         NEW text, Verdict(s, result, text),
         s # "fusion" /\ result.total => Output[s] \subseteq db'
  PROVE CountsStored'
<1>1. results' = [results EXCEPT ![s] = result] /\ results \in [StageSet -> Results]
  BY DEF Verdict, TypeOK
<1>2. SUFFICES ASSUME NEW t \in StageSet \ {"fusion"}, results'[t].total
               PROVE Output[t] \subseteq db'
  BY DEF CountsStored
<1>3. CASE t = s
  BY <1>1, <1>2, <1>3
<1>4. CASE t # s
  BY <1>1, <1>2, <1>4 DEF CountsStored
<1> QED
  BY <1>3, <1>4

LEMMA FailureUncounted ==
  ASSUME NEW text
  PROVE ~Failure(text).total /\ ~Blank.total
  BY DEF Failure, Blank

LEMMA KnownStored ==
  ASSUME KpisStored, CountsStored
  PROVE Known \subseteq db
  BY DEF KpisStored, CountsStored, Known

LEMMA GateInit ==
  ASSUME Init
  PROVE GateInv
<1>1. TypeOK
  BY TypeInit
<1>2. KpisStored /\ GatesAreSound
  BY DEF Init, KpisStored, GatesAreSound
<1>3. CountsStored
  BY FailureUncounted DEF Init, NoResults, CountsStored
<1> QED
  BY <1>1, <1>2, <1>3 DEF GateInv

LEMMA KpisStep ==
  ASSUME TypeOK, KpisStored, Next
  PROVE KpisStored'
<1>1. db \subseteq db'
  BY NoStageEmptiesTables
<1>2. CASE Start \/ StartRaises
  BY <1>2 DEF Start, StartRaises, Begun, KpisStored
<1>3. CASE Succeed
  BY <1>1, <1>3 DEF Succeed, Accumulated, KpisStored
<1>4. CASE Reconcile \/ ReconcileRaises \/ PropagationMissing
  BY <1>4 DEF Reconcile, ReconcileRaises, Reconciled, PropagationMissing,
    history, KpisStored
<1>5. CASE UNCHANGED kpis
  BY <1>1, <1>5 DEF KpisStored
<1> QED
  BY <1>2, <1>3, <1>4, <1>5 DEF Next, SkipBlocked, SkipContract, BeginStage,
    BeginRaises, SoftFail, Raise, Report, ReportRaises, Handle, HandleRaises,
    FinalizeRaises, PropagationMissing, Conclude, ConcludeRaises, Fail, FailRaises, Unlock,
    Persist, Return, Crash, Retry, memory

LEMMA CountsStep ==
  ASSUME TypeOK, CountsStored, Next
  PROVE CountsStored'
<1>1. db \subseteq db'
  BY NoStageEmptiesTables
<1>2. Current \in StageSet
  BY CurrentStage DEF TypeOK
<1>3. CASE Start \/ StartRaises
  BY <1>3, FailureUncounted DEF Start, StartRaises, Begun, NoResults, CountsStored
<1>4. CASE SkipBlocked
  BY <1>1, <1>2, <1>4, FailureUncounted, VerdictStored DEF SkipBlocked
<1>5. CASE SkipContract
  <2>1. ~[Blank EXCEPT !.contract = TRUE].total
    BY DEF Blank
  <2> QED
    BY <1>1, <1>2, <1>5, <2>1, VerdictStored DEF SkipContract
<1>6. CASE Succeed
  <2>1. PICK total \in BOOLEAN :
          /\ Counts(Current, total)
          /\ Verdict(Current, [Blank EXCEPT !.total = total], "none")
    BY <1>6 DEF Succeed
  <2>2. [Blank EXCEPT !.total = total].total = total
    BY DEF Blank
  <2> QED
    BY <1>1, <1>2, <2>1, <2>2, VerdictStored DEF Counts
<1>7. CASE SoftFail
  <2>1. PICK text \in Texts(Current), total, contract \in BOOLEAN :
          /\ total => Counts(Current, TRUE)
          /\ Verdict(Current, [Failure(text) EXCEPT !.total = total,
                                                    !.contract = contract], text)
    BY <1>7 DEF SoftFail
  <2>2. [Failure(text) EXCEPT !.total = total, !.contract = contract].total = total
    BY DEF Failure, Blank
  <2> QED
    BY <1>1, <1>2, <2>1, <2>2, VerdictStored DEF Counts
<1>8. CASE Raise
  BY <1>1, <1>2, <1>8, FailureUncounted, VerdictStored DEF Raise
<1>9. CASE ReportRaises
  BY <1>1, <1>2, <1>9, FailureUncounted, VerdictStored DEF ReportRaises
<1>10. CASE Reconcile \/ ReconcileRaises
  <2>1. PICK refuted : results' = Marked(results, refuted)
    BY <1>10 DEF Reconcile, ReconcileRaises, Reconciled
  <2>2. \A s \in StageSet : results'[s].total = results[s].total
    BY <2>1 DEF Marked, TypeOK, Results
  <2> QED
    BY <1>1, <2>2 DEF CountsStored
<1>11. CASE UNCHANGED results
  BY <1>1, <1>11 DEF CountsStored
<1> QED
  BY <1>3, <1>4, <1>5, <1>6, <1>7, <1>8, <1>9, <1>10, <1>11
  DEF Next, BeginStage, BeginRaises, Report, Handle, HandleRaises,
    FinalizeRaises, PropagationMissing, Conclude, ConcludeRaises, Fail, FailRaises, Unlock,
    Persist, Return, Crash, Retry, memory

LEMMA GateStep ==
  ASSUME GateInv, [Next]_vars
  PROVE GateInv'
<1>1. TypeOK'
  BY TypeStep DEF GateInv
<1>2. CASE UNCHANGED vars
  BY <1>1, <1>2 DEF GateInv, KpisStored, CountsStored, GatesAreSound, Current,
    vars, memory
<1>3. CASE Next
  <2>1. KpisStored' /\ CountsStored'
    BY <1>3, KpisStep, CountsStep DEF GateInv
  <2>2. GatesAreSound'
    <3>1. CASE BeginStage
      <4>1. UNCHANGED <<next, db>> /\ Passes(Current)
        BY <3>1 DEF BeginStage, memory
      <4>2. Current \in Gated => Upstream[Current] \subseteq db
        BY <4>1, KnownStored DEF GateInv, Passes
      <4> QED
        BY <4>1, <4>2 DEF GatesAreSound, Current
    <3>2. CASE ~ BeginStage
      <4>1. pc' # "run"
        BY <1>3, <3>2 DEF Next, Start, StartRaises, SkipBlocked, SkipContract,
          Advance, BeginRaises, Succeed, SoftFail, Raise, Report, ReportRaises,
          Handle, HandleRaises, FinalizeRaises, PropagationMissing, Reconcile, ReconcileRaises,
          Conclude, ConcludeRaises, Fail, FailRaises, Unlock, Persist, Return,
          Crash, Retry
      <4> QED
        BY <4>1 DEF GatesAreSound
    <3> QED
      BY <3>1, <3>2
  <2> QED
    BY <1>1, <2>1, <2>2 DEF GateInv
<1> QED
  BY <1>2, <1>3

\* A stage with a dependency contract executes only over tables with rows.
THEOREM GatesSound == Spec => []GatesAreSound
<1>1. GateInv => GatesAreSound
  BY DEF GateInv
<1> QED
  BY <1>1, GateInit, GateStep, PTL DEF Spec

-----------------------------------------------------------------------------
(* What is reported as completed. *)

Loop == {"gate", "run", "report", "except", "finalize"}
Working == Loop \cup {"start", "terminal"}

\* Stage number i has its verdict.
Handled(i) ==
  i < next \/ pc = "finalize" \/ (i = next /\ pc \in {"report", "except"})

\* No stage has an error before its turn, and after it none has a clean
\* record without having worked.
Clean ==
  pc \in Loop =>
    \A i \in DOMAIN Stages : ~Handled(i) => errors[Stages[i]] = "none"
WorkNoted ==
  pc \in Loop =>
    \A i \in DOMAIN Stages :
      Handled(i) /\ errors[Stages[i]] = "none" => Stages[i] \in worked

\* Generated signals are never the count of a fusion stage that failed.
FusionClean ==
  \A s \in StageSet :
    s = "fusion" /\ results[s].total =>
      results[s].err = "none" /\ ~results[s].contract /\ errors[s] = "none"

\* After reconciliation a clean record is earned.
Earned(s, res) == s \in worked \/ (res[s].reconciled /\ s \in evidence)
ReconciledEarned ==
  pc = "terminal" => \A s \in StageSet : errors[s] = "none" => Earned(s, results)

\* This attempt reports completion only at its end.
NotYetCompleted ==
  /\ blob.by <= attempt
  /\ pc = "start" => blob.by < attempt
  /\ pc \in Working => ~(blob.stage = "completed" /\ blob.by = attempt)

EarnInv ==
  /\ GateInv
  /\ Clean
  /\ WorkNoted
  /\ FusionClean
  /\ ReconciledEarned
  /\ NotYetCompleted
  /\ CompletedIsEarned

LEMMA StagesDistinct ==
  ASSUME TypeOK, NEW i \in DOMAIN Stages, Stages[i] = Current
  PROVE i = next
<1>1. \A k, j \in DOMAIN Stages : Stages[k] = Stages[j] => k = j
  BY StagesAssumption DEF StagesAssumption
<1> QED
  BY <1>1 DEF Current, TypeOK

LEMMA IndexedStage ==
  /\ \A i \in DOMAIN Stages : Stages[i] \in StageSet /\ Stages[i] \in Reporters
  /\ \A s \in StageSet : \E i \in DOMAIN Stages : s = Stages[i]
  BY DEF StageSet, Reporters

LEMMA VerdictNotes ==
  ASSUME TypeOK, NEW s \in StageSet, NEW result, NEW text, Verdict(s, result, text)
  PROVE /\ results' = [results EXCEPT ![s] = result]
        /\ results'[s] = result
        /\ \A t \in StageSet : t # s => results'[t] = results[t]
        /\ \A r \in Reporters : r # s => errors'[r] = errors[r]
        /\ text # "none" => errors'[s] # "none"
        /\ text = "none" => errors' = errors
<1>1. s \in Reporters
  BY DEF Reporters
<1> QED
  BY <1>1 DEF Verdict, Noted, TypeOK

LEMMA AdvanceHandles ==
  ASSUME TypeOK, pc \in {"gate", "report", "except"}, Advance
  PROVE /\ pc' \in Loop
        /\ \A i \in DOMAIN Stages : Handled(i)' <=> Handled(i) \/ i = next
<1>1. next \in 1 .. Len(Stages) /\ Len(Stages) \in Nat
      /\ DOMAIN Stages = 1 .. Len(Stages)
  BY StagesFacts DEF TypeOK
<1>2. CASE next = Len(Stages)
  BY <1>1, <1>2 DEF Advance, Handled, Loop
<1>3. CASE next # Len(Stages)
  <2>1. pc' = "gate" /\ next' = next + 1
    BY <1>3 DEF Advance
  <2>2. ASSUME NEW i \in DOMAIN Stages
        PROVE Handled(i)' <=> Handled(i) \/ i = next
    <3>1. i \in Nat /\ next \in Nat
      BY <1>1
    <3>2. i < next + 1 <=> i < next \/ i = next
      BY <3>1
    <3> QED
      BY <2>1, <3>2 DEF Handled
  <2> QED
    BY <2>1, <2>2 DEF Loop
<1> QED
  BY <1>2, <1>3

\* A verdict of error, or of success of a stage that worked, keeps the records.
LEMMA VerdictAccounted ==
  ASSUME TypeOK, Clean, WorkNoted, pc \in Loop, NEW result, NEW text,
         Verdict(Current, result, text),
         \/ text # "none" /\ worked \ {Current} \subseteq worked'
         \/ text = "none" /\ worked' = worked \cup {Current},
         \A i \in DOMAIN Stages : Handled(i)' <=> Handled(i) \/ i = next
  PROVE Clean' /\ WorkNoted'
<1>1. Current \in StageSet
  BY CurrentStage DEF TypeOK
<1>2. ASSUME NEW i \in DOMAIN Stages, i # next
      PROVE Stages[i] # Current /\ errors'[Stages[i]] = errors[Stages[i]]
  <2>1. Stages[i] # Current /\ Stages[i] \in Reporters
    BY <1>2, StagesDistinct, IndexedStage
  <2> QED
    BY <1>1, <2>1, VerdictNotes
<1>3. Clean'
  BY <1>2 DEF Clean
<1>4. ASSUME NEW i \in DOMAIN Stages, Handled(i)', errors'[Stages[i]] = "none"
      PROVE Stages[i] \in worked'
  <2>1. CASE i # next
    <3>1. Handled(i) /\ errors[Stages[i]] = "none"
      BY <1>2, <1>4, <2>1
    <3>2. Stages[i] \in worked /\ Stages[i] # Current
      BY <1>2, <2>1, <3>1 DEF WorkNoted
    <3> QED
      BY <3>2
  <2>2. CASE i = next
    <3>1. errors'[Current] = "none" /\ Stages[i] = Current
      BY <1>4, <2>2 DEF Current
    <3>2. text = "none"
      BY <1>1, <3>1, VerdictNotes
    <3> QED
      BY <3>1, <3>2
  <2> QED
    BY <2>1, <2>2
<1> QED
  BY <1>3, <1>4 DEF WorkNoted

LEMMA RunHandles ==
  ASSUME TypeOK, pc \in {"run", "report"}, pc' \in {"report", "except"}, next' = next
  PROVE \A i \in DOMAIN Stages : Handled(i)' <=> Handled(i) \/ i = next
  BY DEF Handled

LEMMA AccountedStep ==
  ASSUME TypeOK, Clean, WorkNoted, Next
  PROVE Clean' /\ WorkNoted'
<1>1. CASE Start
  <2>1. /\ pc' = "gate" /\ next' = 1 /\ errors' = NoErrors
    BY <1>1 DEF Start, Begun
  <2>2. \A i \in DOMAIN Stages : ~Handled(i)'
    BY <2>1, StagesFacts DEF Handled
  <2>3. \A i \in DOMAIN Stages : errors'[Stages[i]] = "none"
    BY <2>1, IndexedStage DEF NoErrors
  <2> QED
    BY <2>2, <2>3 DEF Clean, WorkNoted
<1>2. CASE SkipBlocked
  <2>1. /\ Verdict(Current, Failure("other"), "other") /\ Advance
        /\ worked' = worked /\ pc = "gate"
    BY <1>2 DEF SkipBlocked, history
  <2> QED
    BY <2>1, AdvanceHandles, VerdictAccounted DEF Loop
<1>3. CASE SkipContract
  <2>1. /\ Verdict(Current, [Blank EXCEPT !.contract = TRUE],
                   IF Current = "knowledge_graph" THEN "refutable" ELSE "other")
        /\ Advance /\ worked' = worked /\ pc = "gate"
    BY <1>3 DEF SkipContract, history
  <2>2. (IF Current = "knowledge_graph" THEN "refutable" ELSE "other") # "none"
    OBVIOUS
  <2> QED
    BY <2>1, <2>2, AdvanceHandles, VerdictAccounted DEF Loop
<1>4. CASE BeginStage
  BY <1>4 DEF BeginStage, memory, history, Clean, WorkNoted, Handled, Loop
<1>5. CASE Succeed
  <2>1. PICK total \in BOOLEAN :
          Verdict(Current, [Blank EXCEPT !.total = total], "none")
    BY <1>5 DEF Succeed
  <2>2. /\ worked' = worked \cup {Current} /\ pc = "run" /\ pc' = "report"
        /\ next' = next
    BY <1>5 DEF Succeed
  <2> QED
    BY <2>1, <2>2, RunHandles, VerdictAccounted DEF Loop
<1>6. CASE SoftFail
  <2>1. PICK text \in Texts(Current), total, contract \in BOOLEAN :
          Verdict(Current, [Failure(text) EXCEPT !.total = total,
                                                 !.contract = contract], text)
    BY <1>6 DEF SoftFail
  <2>2. worked' = worked /\ pc = "run" /\ pc' = "report" /\ next' = next
    BY <1>6 DEF SoftFail, history
  <2>3. text # "none"
    BY TextsType
  <2> QED
    BY <2>1, <2>2, <2>3, RunHandles, VerdictAccounted DEF Loop
<1>7. CASE Raise
  <2>1. PICK text \in Texts(Current) : Verdict(Current, Failure(text), text)
    BY <1>7 DEF Raise
  <2>2. worked' = worked /\ pc = "run" /\ pc' = "except" /\ next' = next
    BY <1>7 DEF Raise, history
  <2>3. text # "none"
    BY TextsType
  <2> QED
    BY <2>1, <2>2, <2>3, RunHandles, VerdictAccounted DEF Loop
<1>8. CASE Report \/ Handle
  <2>1. /\ Advance /\ pc \in {"report", "except"} /\ UNCHANGED <<errors, worked>>
    BY <1>8 DEF Report, Handle, history
  <2>2. \A i \in DOMAIN Stages : Handled(i)' <=> Handled(i)
    BY <2>1, AdvanceHandles DEF Handled
  <2> QED
    BY <2>1, <2>2 DEF Clean, WorkNoted, Loop
<1>9. CASE ReportRaises
  <2>1. /\ Verdict(Current, Failure("other"), "other")
        /\ worked' = worked \ {Current} /\ pc = "report" /\ pc' = "except"
        /\ next' = next
    BY <1>9 DEF ReportRaises
  <2> QED
    BY <2>1, RunHandles, VerdictAccounted DEF Loop
<1>10. CASE pc' \notin Loop
  BY <1>10 DEF Clean, WorkNoted
<1> QED
  BY <1>1, <1>2, <1>3, <1>4, <1>5, <1>6, <1>7, <1>8, <1>9, <1>10
  DEF Next, StartRaises, BeginRaises, HandleRaises, FinalizeRaises, PropagationMissing, Reconcile,
    ReconcileRaises, Conclude, ConcludeRaises, Fail, FailRaises, Unlock, Persist,
    Return, Crash, Retry, Loop

LEMMA PipelineIsNoStage == "pipeline" \notin StageSet
<1>1. Stages \in Seq(DOMAIN Output)
  BY StagesFacts
<1>2. "pipeline" \notin DOMAIN Output
  BY DEF Output
<1> HIDE DEF Output
<1>3. \A i \in DOMAIN Stages : Stages[i] \in DOMAIN Output
  BY <1>1
<1> QED
  BY <1>2, <1>3 DEF StageSet

LEMMA VerdictFusion ==
  ASSUME TypeOK, FusionClean, NEW result, NEW text, Verdict(Current, result, text),
         Current = "fusion" /\ result.total =>
           result.err = "none" /\ ~result.contract /\ text = "none"
             /\ errors[Current] = "none"
  PROVE FusionClean'
<1>1. Current \in StageSet
  BY CurrentStage DEF TypeOK
<1>2. SUFFICES ASSUME NEW s \in StageSet, s = "fusion", results'[s].total
               PROVE results'[s].err = "none" /\ ~results'[s].contract
                       /\ errors'[s] = "none"
  BY DEF FusionClean
<1>3. CASE s = Current
  BY <1>1, <1>2, <1>3, VerdictNotes
<1>4. CASE s # Current
  <2>1. results'[s] = results[s] /\ errors'[s] = errors[s]
    BY <1>1, <1>4, VerdictNotes DEF Reporters
  <2> QED
    BY <1>2, <2>1 DEF FusionClean
<1> QED
  BY <1>3, <1>4

LEMMA FusionStep ==
  ASSUME TypeOK, Clean, FusionClean, Next
  PROVE FusionClean'
<1>1. CASE Start \/ StartRaises
  BY <1>1, FailureUncounted DEF Start, StartRaises, Begun, NoResults, FusionClean
<1>2. CASE SkipBlocked
  BY <1>2, FailureUncounted, VerdictFusion DEF SkipBlocked
<1>3. CASE SkipContract
  <2>1. ~[Blank EXCEPT !.contract = TRUE].total
    BY DEF Blank
  <2> QED
    BY <1>3, <2>1, VerdictFusion DEF SkipContract
<1>4. CASE Succeed
  <2>1. PICK total \in BOOLEAN :
          Verdict(Current, [Blank EXCEPT !.total = total], "none")
    BY <1>4 DEF Succeed
  <2>2. [Blank EXCEPT !.total = total].err = "none"
        /\ ~[Blank EXCEPT !.total = total].contract
    BY DEF Blank
  <2>3. errors[Current] = "none"
    <3>1. next \in DOMAIN Stages /\ pc = "run" /\ ~Handled(next)
      BY <1>4, StagesFacts DEF Succeed, TypeOK, Handled
    <3> QED
      BY <3>1 DEF Clean, Current, Loop
  <2> QED
    BY <2>1, <2>2, <2>3, VerdictFusion
<1>5. CASE SoftFail
  <2>1. PICK text \in Texts(Current), total, contract \in BOOLEAN :
          /\ total => Current = "metadata"
          /\ Verdict(Current, [Failure(text) EXCEPT !.total = total,
                                                    !.contract = contract], text)
    BY <1>5 DEF SoftFail
  <2>2. [Failure(text) EXCEPT !.total = total, !.contract = contract].total = total
    BY DEF Failure, Blank
  <2> QED
    BY <2>1, <2>2, VerdictFusion
<1>6. CASE Raise
  BY <1>6, FailureUncounted, VerdictFusion DEF Raise
<1>7. CASE ReportRaises
  BY <1>7, FailureUncounted, VerdictFusion DEF ReportRaises
<1>8. CASE Reconcile \/ ReconcileRaises
  <2>1. PICK refuted : results' = Marked(results, refuted)
                         /\ errors' = Dropped(errors, refuted)
    BY <1>8 DEF Reconcile, ReconcileRaises, Reconciled
  <2>2. \A s \in StageSet :
          /\ results'[s].total = results[s].total
          /\ results'[s].contract = results[s].contract
          /\ results'[s].err \in {"none", results[s].err}
          /\ errors'[s] \in {"none", errors[s]}
    BY <2>1 DEF Marked, Dropped, Reporters, TypeOK, Results
  <2> QED
    BY <2>2 DEF FusionClean
<1>9. CASE Fail \/ FailRaises
  <2>1. results' = results /\ errors' = NotedFailure
    BY <1>9 DEF Fail, FailRaises
  <2>2. \A s \in StageSet : errors'[s] = errors[s]
    BY <2>1, PipelineIsNoStage DEF NotedFailure, Noted, TypeOK, Reporters
  <2> QED
    BY <2>1, <2>2 DEF FusionClean
<1>10. CASE UNCHANGED <<results, errors>>
  BY <1>10 DEF FusionClean
<1> QED
  BY <1>1, <1>2, <1>3, <1>4, <1>5, <1>6, <1>7, <1>8, <1>9, <1>10
  DEF Next, BeginStage, BeginRaises, Report, Handle, HandleRaises,
    FinalizeRaises, PropagationMissing, Conclude, ConcludeRaises, Unlock, Persist, Return, Crash,
    Retry, memory

\* A failure is taken back only where the data are.
LEMMA RefutedHasEvidence ==
  ASSUME FusionClean, CountsStored, NEW known, known \subseteq db,
         NEW healthy \in BOOLEAN, NEW s \in Refuted(results, errors, known, healthy)
  PROVE s \in Evidence(healthy)
<1>1. s \in Refutable \cap StageSet
  BY DEF Refuted
<1>2. CASE s = "aviation_master"
  BY <1>1, <1>2 DEF Refuted, Evidence
<1>3. CASE s = "fusion"
  <2>1. /\ Positive(s, results, known)
        /\ Erring(s, results, errors) = "refutable" \/ results[s].contract
    BY <1>3 DEF Refuted
  <2>2. ~results[s].total
    BY <1>1, <1>3, <2>1 DEF FusionClean, Erring
  <2>3. Output[s] \subseteq db
    BY <2>1, <2>2 DEF Positive
  <2> QED
    BY <1>1, <1>3, <2>3 DEF Evidence
<1>4. CASE s \notin {"aviation_master", "fusion"}
  <2>1. Positive(s, results, known)
    BY <1>4 DEF Refuted
  <2>2. Output[s] \subseteq db
    BY <1>1, <1>4, <2>1 DEF Positive, CountsStored
  <2> QED
    BY <1>1, <1>4, <2>2 DEF Evidence
<1> QED
  BY <1>2, <1>3, <1>4

LEMMA ReconciledStep ==
  ASSUME EarnInv, Next
  PROVE ReconciledEarned'
<1>1. CASE Reconcile
  <2>1. Reconciled /\ pc = "finalize" /\ worked' = worked
    BY <1>1 DEF Reconcile, Reconciled
  <2>2. kpis' \subseteq db
    BY <2>1 DEF Reconciled, EarnInv, GateInv, KpisStored
  <2>3. PICK healthy \in BOOLEAN :
          /\ results' = Marked(results, Refuted(results, errors, kpis', healthy))
          /\ errors' = Dropped(errors, Refuted(results, errors, kpis', healthy))
          /\ evidence' = Evidence(healthy)
    BY <2>1 DEF Reconciled
  <2> DEFINE refuted == Refuted(results, errors, kpis', healthy)
  <2>4. SUFFICES ASSUME NEW s \in StageSet, errors'[s] = "none"
                 PROVE Earned(s, results)'
    BY DEF ReconciledEarned
  <2>5. CASE s \in refuted
    <3>1. results'[s].reconciled
      BY <2>3, <2>5 DEF Marked, EarnInv, GateInv, TypeOK, Results
    <3>2. s \in evidence'
      BY <2>2, <2>3, <2>5, RefutedHasEvidence DEF EarnInv, GateInv
    <3> QED
      BY <3>1, <3>2 DEF Earned
  <2>6. CASE s \notin refuted
    <3>1. errors[s] = "none"
      BY <2>3, <2>4, <2>6 DEF Dropped, Reporters
    <3>2. s \in worked
      <4>1. PICK i \in DOMAIN Stages : s = Stages[i]
        BY IndexedStage
      <4> QED
        BY <2>1, <3>1, <4>1 DEF EarnInv, WorkNoted, Handled, Loop
    <3> QED
      BY <2>1, <3>2 DEF Earned
  <2> QED
    BY <2>5, <2>6
<1>2. CASE ~ Reconcile
  <2>1. pc' # "terminal"
    BY <1>2 DEF Next, Start, StartRaises, SkipBlocked, SkipContract, Advance,
      BeginStage, BeginRaises, Succeed, SoftFail, Raise, Report, ReportRaises,
      Handle, HandleRaises, FinalizeRaises, PropagationMissing, ReconcileRaises, Conclude,
      ConcludeRaises, Fail, FailRaises, Unlock, Persist, Return, Crash, Retry
  <2> QED
    BY <2>1 DEF ReconciledEarned
<1> QED
  BY <1>1, <1>2

LEMMA PayloadFields ==
  ASSUME NEW stage, NEW res, NEW failed, NEW known,
         NEW b \in Payloads(stage, res, failed, known)
  PROVE b.stage = stage /\ b.by = attempt /\ b.results = res
  BY DEF Payloads

LEMMA ProgressFields ==
  ASSUME NEW res, NEW errs, NEW b \in Progress(res, errs)
  PROVE b.stage = "working" /\ b.by = attempt
  BY PayloadFields DEF Progress

LEMMA TerminalFields ==
  ASSUME NEW b \in Terminal
  PROVE /\ b.by = attempt /\ b.results = results
        /\ b.stage = "completed" => Blocking(results, errors) = {}
  BY PayloadFields DEF Terminal

\* The steps before the terminal status, each of which leaves the blob alone or
\* writes progress.
Running ==
  \/ SkipBlocked \/ SkipContract \/ BeginStage \/ BeginRaises
  \/ Succeed \/ SoftFail \/ Raise \/ Report \/ ReportRaises \/ Handle
  \/ HandleRaises \/ FinalizeRaises \/ PropagationMissing \/ Reconcile \/ ReconcileRaises

LEMMA RunningWrites ==
  ASSUME Running
  PROVE /\ attempt' = attempt /\ pc \in Working /\ pc' # "start"
        /\ blob' = blob \/ (blob'.stage = "working" /\ blob'.by = attempt)
<1>1. attempt' = attempt /\ pc \in Working /\ pc' # "start"
  BY DEF Running, SkipBlocked, SkipContract, Advance, BeginStage, BeginRaises,
    Succeed, SoftFail, Raise, Report, ReportRaises, Handle, HandleRaises,
    FinalizeRaises, PropagationMissing, Reconcile, ReconcileRaises, Reconciled, Working, Loop
<1>2. CASE SkipBlocked \/ SkipContract \/ Succeed \/ SoftFail \/ Raise
  BY <1>1, <1>2 DEF SkipBlocked, SkipContract, Succeed, SoftFail, Raise
<1>3. CASE ~ (SkipBlocked \/ SkipContract \/ Succeed \/ SoftFail \/ Raise)
  <2>1. PICK res, errs : Write(Progress(res, errs)) \/ WriteRaises(Progress(res, errs))
    BY <1>3 DEF Running, BeginStage, BeginRaises, Report, ReportRaises, Handle,
      HandleRaises, FinalizeRaises, PropagationMissing, Reconcile, ReconcileRaises
  <2> QED
    BY <1>1, <2>1, ProgressFields DEF Write, WriteRaises
<1> QED
  BY <1>2, <1>3

LEMMA StartWrites ==
  ASSUME Start \/ StartRaises
  PROVE /\ pc = "start" /\ pc' # "start" /\ attempt' = attempt
        /\ Start => blob'.stage = "working" /\ blob'.by = attempt
        /\ StartRaises => pc' \notin Working
        /\ blob' = blob \/ (blob'.stage = "working" /\ blob'.by = attempt)
  BY DEF Start, StartRaises, Begun, Write, WriteRaises, FirstStatus, Working, Loop

LEMMA EndWrites ==
  ASSUME Conclude \/ ConcludeRaises \/ Fail \/ FailRaises
  PROVE /\ attempt' = attempt
        /\ pc' \notin Working
        /\ blob' = blob \/ blob'.by = attempt
<1>1. attempt' = attempt /\ pc' \notin Working
  BY DEF Conclude, ConcludeRaises, Fail, FailRaises, Working, Loop
<1> QED
  BY <1>1, TerminalFields, ProgressFields, PayloadFields
  DEF Conclude, ConcludeRaises, Fail, FailRaises, Write, WriteRaises

LEMMA NotYetStep ==
  ASSUME TypeOK, NotYetCompleted, Next
  PROVE NotYetCompleted'
<1>1. attempt \in Nat /\ blob.by \in Nat
  BY AttemptsAssumption DEF TypeOK, BlobType
<1>2. CASE Start \/ StartRaises
  BY <1>1, <1>2, StartWrites DEF NotYetCompleted
<1>3. CASE Running
  BY <1>1, <1>3, RunningWrites DEF NotYetCompleted
<1>4. CASE Conclude \/ ConcludeRaises \/ Fail \/ FailRaises
  <2>1. pc' # "start"
    BY <1>4, EndWrites DEF Working
  <2> QED
    BY <1>1, <1>4, <2>1, EndWrites DEF NotYetCompleted
<1>5. CASE Unlock \/ Persist \/ Return \/ Crash
  <2>1. UNCHANGED <<blob, attempt>> /\ pc' \notin Working /\ pc' # "start"
    BY <1>5 DEF Unlock, Persist, Return, Crash, Working, Loop
  <2> QED
    BY <2>1 DEF NotYetCompleted
<1>6. CASE Retry
  BY <1>1, <1>6 DEF Retry, NotYetCompleted
<1> QED
  BY <1>2, <1>3, <1>4, <1>5, <1>6 DEF Next, Running

\* fusion's exemption from the blocking errors never applies.
LEMMA NothingBlocks ==
  ASSUME FusionClean, Blocking(results, errors) = {}, NEW s \in StageSet
  PROVE errors[s] = "none"
  BY DEF Blocking, Reporters, FusionClean

LEMMA CompletedStep ==
  ASSUME EarnInv, Next
  PROVE CompletedIsEarned'
<1> USE DEF EarnInv
<1>1. attempt \in Nat /\ blob.by \in Nat
  BY AttemptsAssumption DEF GateInv, TypeOK, BlobType
<1>2. SUFFICES ASSUME blob'.stage = "completed", blob'.by = attempt'
               PROVE \A s \in StageSet : Earned(s, blob.results)'
  BY DEF CompletedIsEarned, Earned
<1>3. CASE Start \/ StartRaises
  BY <1>1, <1>2, <1>3, StartWrites DEF NotYetCompleted
<1>4. CASE Running
  BY <1>2, <1>4, RunningWrites DEF NotYetCompleted
<1>5. CASE Conclude \/ ConcludeRaises
  <2>1. pc = "terminal" /\ UNCHANGED <<attempt, worked, evidence>>
    BY <1>5 DEF Conclude, ConcludeRaises, history
  <2>2. blob' # blob
    BY <1>2, <2>1 DEF NotYetCompleted, Working
  <2>3. blob' \in Terminal
    BY <1>2, <1>5, <2>2, ProgressFields DEF Conclude, ConcludeRaises, Write, WriteRaises
  <2>4. blob'.results = results /\ Blocking(results, errors) = {}
    BY <1>2, <2>3, TerminalFields
  <2>5. \A s \in StageSet : Earned(s, results)
    BY <2>1, <2>4, NothingBlocks DEF ReconciledEarned
  <2> QED
    BY <2>1, <2>4, <2>5 DEF Earned
<1>6. CASE \/ Fail \/ FailRaises \/ Unlock \/ Persist \/ Return \/ Crash
  <2>1. UNCHANGED <<attempt, worked, evidence>>
    BY <1>6 DEF Fail, FailRaises, Unlock, Persist, Return, Crash, history
  <2>2. blob' = blob
    BY <1>2, <1>6, PayloadFields
    DEF Fail, FailRaises, Write, WriteRaises, Unlock, Persist, Return, Crash
  <2> QED
    BY <1>2, <2>1, <2>2 DEF CompletedIsEarned, Earned
<1>7. CASE Retry
  BY <1>1, <1>2, <1>7 DEF Retry, NotYetCompleted
<1> QED
  BY <1>3, <1>4, <1>5, <1>6, <1>7 DEF Next, Running

LEMMA EarnInit ==
  ASSUME Init
  PROVE EarnInv
<1>1. GateInv
  BY GateInit
<1>2. Clean /\ WorkNoted /\ ReconciledEarned
  BY DEF Init, Clean, WorkNoted, ReconciledEarned, Loop
<1>3. FusionClean
  BY FailureUncounted DEF Init, NoResults, FusionClean
<1>4. NotYetCompleted /\ CompletedIsEarned
  BY DEF Init, QueuedBlob, NotYetCompleted, CompletedIsEarned
<1> QED
  BY <1>1, <1>2, <1>3, <1>4 DEF EarnInv

LEMMA EarnStep ==
  ASSUME EarnInv, [Next]_vars
  PROVE EarnInv'
<1>1. GateInv'
  BY GateStep DEF EarnInv
<1>2. CASE UNCHANGED vars
  BY <1>1, <1>2 DEF EarnInv, Clean, WorkNoted, Handled, FusionClean,
    ReconciledEarned, Earned, NotYetCompleted, CompletedIsEarned, vars, memory,
    history
<1>3. CASE Next
  <2>1. Clean' /\ WorkNoted' /\ FusionClean'
    BY <1>3, AccountedStep, FusionStep DEF EarnInv, GateInv
  <2>2. ReconciledEarned' /\ CompletedIsEarned'
    BY <1>3, ReconciledStep, CompletedStep
  <2>3. NotYetCompleted'
    BY <1>3, NotYetStep DEF EarnInv, GateInv
  <2> QED
    BY <1>1, <2>1, <2>2, <2>3 DEF EarnInv
<1> QED
  BY <1>2, <1>3

\* A run reported as completed has for each stage either work that succeeded or
\* a failure taken back over data that exist, whatever failed on the way.
THEOREM CompletionEarned == Spec => []CompletedIsEarned
<1>1. EarnInv => CompletedIsEarned
  BY DEF EarnInv
<1> QED
  BY <1>1, EarnInit, EarnStep, PTL DEF Spec

-----------------------------------------------------------------------------
(* The recorded run. *)

\* Past the terminal status, blob and errors agree on whether anything blocks;
\* a row of this attempt is written after that, and says the same.
EndTold ==
  pc \in {"unlock", "persist", "return", "ended"} =>
    /\ blob.by = attempt
    /\ blob.stage \in {"completed", "completed_degraded", "failed"}
    /\ blob.stage = "completed" <=> Blocking(results, errors) = {}
RowLast ==
  /\ row.by <= attempt
  /\ pc \notin {"return", "ended", "escaped", "dead"} => row.by < attempt
RowTold ==
  pc \in {"return", "ended"} /\ row.by = attempt =>
    (row.status = "completed" <=> Blocking(results, errors) = {})

RowInv == TypeOK /\ EndTold /\ RowLast /\ RowTold

LEMMA FailureBlocks ==
  ASSUME TypeOK, errors' = NotedFailure
  PROVE Blocking(results, errors)' # {}
<1>1. "pipeline" \in Reporters
  BY DEF Reporters
<1>2. errors'["pipeline"] # "none"
  BY <1>1 DEF NotedFailure, Noted, TypeOK
<1> QED
  BY <1>1, <1>2 DEF Blocking, Reporters, StageSet

LEMMA EndStep ==
  ASSUME RowInv, Next
  PROVE EndTold'
<1> USE DEF RowInv
<1>1. CASE Conclude
  <2>1. blob' \in Terminal /\ UNCHANGED <<attempt, results, errors>>
    BY <1>1 DEF Conclude, Write, memory
  <2>2. /\ blob'.by = attempt
        /\ blob'.stage = IF Blocking(results, errors) = {} THEN "completed"
                         ELSE "completed_degraded"
    BY <2>1, PayloadFields DEF Terminal
  <2> QED
    BY <2>1, <2>2 DEF EndTold, Blocking
<1>2. CASE Fail
  <2>1. /\ blob' \in Payloads("failed", results, {}, kpis)
        /\ UNCHANGED attempt /\ errors' = NotedFailure
    BY <1>2 DEF Fail, Write
  <2>2. blob'.by = attempt /\ blob'.stage = "failed"
    BY <2>1, PayloadFields
  <2> QED
    BY <2>1, <2>2, FailureBlocks DEF EndTold
<1>3. CASE Unlock \/ Persist \/ Return
  <2>1. UNCHANGED <<attempt, results, errors, blob>>
        /\ pc \in {"unlock", "persist", "return"}
    BY <1>3 DEF Unlock, Persist, Return, memory
  <2> QED
    BY <2>1 DEF EndTold, Blocking
<1>4. CASE ~ (Conclude \/ Fail \/ Unlock \/ Persist \/ Return)
  <2>1. pc' \notin {"unlock", "persist", "return", "ended"}
    BY <1>4 DEF Next, Start, StartRaises, SkipBlocked, SkipContract, Advance,
      BeginStage, BeginRaises, Succeed, SoftFail, Raise, Report, ReportRaises,
      Handle, HandleRaises, FinalizeRaises, PropagationMissing, Reconcile,
      ReconcileRaises, ConcludeRaises, FailRaises, Crash, Retry
  <2> QED
    BY <2>1 DEF EndTold
<1> QED
  BY <1>1, <1>2, <1>3, <1>4

LEMMA RowStep ==
  ASSUME RowInv, Next
  PROVE RowLast' /\ RowTold'
<1> USE DEF RowInv
<1>1. attempt \in Nat /\ attempt > 0 /\ row.by \in Nat
  BY AttemptsAssumption DEF TypeOK, RowType
<1>2. CASE Persist
  <2>1. /\ pc = "persist" /\ pc' = "return"
        /\ UNCHANGED <<attempt, results, errors>>
    BY <1>2 DEF Persist, memory
  <2>2. CASE row' = [status |-> IF Blocking(results, errors) = {}
                                THEN "completed" ELSE "partial",
                     by |-> attempt]
    BY <1>1, <2>1, <2>2 DEF RowLast, RowTold, Blocking
  <2>3. CASE UNCHANGED row
    BY <1>1, <2>1, <2>3 DEF RowLast, RowTold
  <2> QED
    BY <1>2, <2>2, <2>3 DEF Persist
<1>3. CASE Return
  BY <1>3 DEF Return, memory, RowLast, RowTold, Blocking
<1>4. CASE Retry
  BY <1>1, <1>4 DEF Retry, RowLast, RowTold
<1>5. CASE ~ (Persist \/ Return \/ Retry)
  <2>1. /\ UNCHANGED <<attempt, row>> /\ pc' \notin {"return", "ended"}
        /\ pc' \notin {"escaped", "dead"} =>
             pc \notin {"return", "ended", "escaped", "dead"}
    BY <1>5 DEF Next, Start, StartRaises, Begun, SkipBlocked, SkipContract,
      Advance, BeginStage, BeginRaises, Succeed, SoftFail, Raise, Report,
      ReportRaises, Handle, HandleRaises, FinalizeRaises, PropagationMissing,
      Reconcile, ReconcileRaises, Reconciled, Conclude, ConcludeRaises, Fail,
      FailRaises, Unlock, Crash
  <2> QED
    BY <2>1 DEF RowLast, RowTold
<1> QED
  BY <1>2, <1>3, <1>4, <1>5

\* The row an attempt records says what its blob says, whatever writes failed
\* and whatever attempts were killed before it.
THEOREM RowIsTheBlob == Spec => []RowMatchesBlob
<1>1. ASSUME Init PROVE RowInv
  <2>1. 0 < attempt
    BY <1>1 DEF Init
  <2> QED
    BY <1>1, <2>1, TypeInit DEF RowInv, EndTold, RowLast, RowTold, Init, NoRow
<1>2. ASSUME RowInv, [Next]_vars PROVE RowInv'
  <2>1. TypeOK'
    BY <1>2, TypeStep DEF RowInv
  <2>2. CASE UNCHANGED vars
    BY <1>2, <2>1, <2>2 DEF RowInv, EndTold, RowLast, RowTold, Blocking, vars,
      memory
  <2>3. CASE Next
    BY <1>2, <2>1, <2>3, EndStep, RowStep DEF RowInv
  <2> QED
    BY <1>2, <2>2, <2>3
<1>3. RowInv => RowMatchesBlob
  BY DEF RowInv, EndTold, RowTold, RowMatchesBlob
<1> QED
  BY <1>1, <1>2, <1>3, PTL DEF Spec

-----------------------------------------------------------------------------
(* What a reader makes of a degraded run. *)

\* An error of a stage has left something in its result.
ErrorsTold ==
  \A s \in StageSet :
    errors[s] # "none" => results[s].contract \/ results[s].err # "none"

\* What the blob says of the tables is true.
BlobStored == blob.kpis \subseteq db

\* A degraded blob of this attempt is its terminal status.  It lists each stage
\* that has not worked as failed, with its error, unless a contract or the
\* reconciliation explains it; its counts are true, and none is of a fusion
\* that failed.
Accounted(b, s) ==
  \/ s \in worked
  \/ b.results[s].contract
  \/ b.results[s].reconciled
  \/ s \in b.failed /\ b.results[s].err # "none"
CountTrue(res, s) ==
  res[s].total => IF s = "fusion" THEN res[s].err = "none" ELSE Output[s] \subseteq db
DegradedTold ==
  blob.stage = "completed_degraded" /\ blob.by = attempt =>
    /\ pc \notin Working
    /\ \A s \in StageSet : Accounted(blob, s) /\ CountTrue(blob.results, s)

ShownInv == EarnInv /\ ErrorsTold /\ BlobStored /\ DegradedTold

LEMMA VerdictTold ==
  ASSUME TypeOK, ErrorsTold, NEW s \in StageSet, NEW result, NEW text,
         Verdict(s, result, text),
         \/ result.contract \/ result.err # "none"
         \/ text = "none" /\ errors[s] = "none"
  PROVE ErrorsTold'
<1>1. SUFFICES ASSUME NEW t \in StageSet, errors'[t] # "none"
               PROVE results'[t].contract \/ results'[t].err # "none"
  BY DEF ErrorsTold
<1>2. CASE t = s
  BY <1>1, <1>2, VerdictNotes
<1>3. CASE t # s
  BY <1>1, <1>3, VerdictNotes DEF ErrorsTold, Reporters
<1> QED
  BY <1>2, <1>3

LEMMA ErrorsToldStep ==
  ASSUME EarnInv, ErrorsTold, Next
  PROVE ErrorsTold'
<1> USE DEF EarnInv, GateInv
<1>1. Current \in StageSet
  BY CurrentStage DEF TypeOK
<1>2. \A text : Failure(text).err = text
  BY DEF Failure, Blank
<1>3. CASE Start \/ StartRaises
  BY <1>3 DEF Start, StartRaises, Begun, NoErrors, ErrorsTold, Reporters
<1>4. CASE SkipBlocked \/ ReportRaises
  BY <1>1, <1>2, <1>4, VerdictTold DEF SkipBlocked, ReportRaises
<1>5. CASE SkipContract
  <2>1. [Blank EXCEPT !.contract = TRUE].contract
    BY DEF Blank
  <2> QED
    BY <1>1, <1>5, <2>1, VerdictTold DEF SkipContract
<1>6. CASE Succeed
  <2>1. PICK total \in BOOLEAN :
          Verdict(Current, [Blank EXCEPT !.total = total], "none")
    BY <1>6 DEF Succeed
  <2>2. errors[Current] = "none"
    <3>1. next \in DOMAIN Stages /\ pc = "run" /\ ~Handled(next)
      BY <1>6, StagesFacts DEF Succeed, TypeOK, Handled
    <3> QED
      BY <3>1 DEF Clean, Loop, Current
  <2> QED
    BY <1>1, <2>1, <2>2, VerdictTold
<1>7. CASE SoftFail
  <2>1. PICK text \in Texts(Current), total, contract \in BOOLEAN :
          Verdict(Current, [Failure(text) EXCEPT !.total = total,
                                                 !.contract = contract], text)
    BY <1>7 DEF SoftFail
  <2>2. [Failure(text) EXCEPT !.total = total, !.contract = contract].err # "none"
    BY TextsType DEF Failure, Blank
  <2> QED
    BY <1>1, <2>1, <2>2, VerdictTold
<1>8. CASE Raise
  <2>1. PICK text \in Texts(Current) : Verdict(Current, Failure(text), text)
    BY <1>8 DEF Raise
  <2>2. Failure(text).err # "none"
    BY <1>2, TextsType
  <2> QED
    BY <1>1, <2>1, <2>2, VerdictTold
<1>9. CASE Reconcile \/ ReconcileRaises
  <2>1. PICK refuted : results' = Marked(results, refuted)
                         /\ errors' = Dropped(errors, refuted)
    BY <1>9 DEF Reconcile, ReconcileRaises, Reconciled
  <2>2. SUFFICES ASSUME NEW s \in StageSet, errors'[s] # "none"
                 PROVE results'[s].contract \/ results'[s].err # "none"
    BY DEF ErrorsTold
  <2>3. s \notin refuted /\ errors[s] # "none" /\ results'[s] = results[s]
    BY <2>1, <2>2 DEF Dropped, Marked, Reporters
  <2> QED
    BY <2>3 DEF ErrorsTold
<1>10. CASE Fail \/ FailRaises
  <2>1. results' = results /\ \A s \in StageSet : errors'[s] = errors[s]
    BY <1>10, PipelineIsNoStage
    DEF Fail, FailRaises, NotedFailure, Noted, TypeOK, Reporters
  <2> QED
    BY <2>1 DEF ErrorsTold
<1>11. CASE UNCHANGED <<results, errors>>
  BY <1>11 DEF ErrorsTold
<1> QED
  BY <1>3, <1>4, <1>5, <1>6, <1>7, <1>8, <1>9, <1>10, <1>11
  DEF Next, BeginStage, BeginRaises, Report, Handle, HandleRaises,
    FinalizeRaises, PropagationMissing, Conclude, ConcludeRaises, Unlock,
    Persist, Return, Crash, Retry, memory

LEMMA PayloadKpis ==
  ASSUME NEW stage, NEW res, NEW failed, NEW known,
         NEW b \in Payloads(stage, res, failed, known)
  PROVE b.kpis \subseteq known \cup blob.kpis
  BY DEF Payloads

LEMMA BlobStoredStep ==
  ASSUME GateInv, GateInv', BlobStored, Next
  PROVE BlobStored'
<1>1. db \subseteq db' /\ blob.kpis \subseteq db'
  BY NoStageEmptiesTables DEF BlobStored
<1>2. kpis \subseteq db' /\ kpis' \subseteq db'
  BY <1>1 DEF GateInv, KpisStored
<1>3. CASE Start \/ StartRaises
  BY <1>1, <1>3 DEF Start, StartRaises, Write, WriteRaises, FirstStatus, BlobStored
<1>4. CASE Running
  <2>1. \A res, errs : \A b \in Progress(res, errs) : b.kpis \subseteq db'
    BY <1>1, <1>2, PayloadKpis DEF Progress
  <2> QED
    BY <1>1, <1>4, <2>1
    DEF Running, SkipBlocked, SkipContract, BeginStage, BeginRaises, Succeed,
      SoftFail, Raise, Report, ReportRaises, Handle, HandleRaises,
      FinalizeRaises, PropagationMissing, Reconcile, ReconcileRaises, Write,
      WriteRaises, BlobStored
<1>5. CASE Conclude \/ ConcludeRaises \/ Fail \/ FailRaises
  <2>1. \A b \in Progress(results, errors) \cup Terminal
                   \cup Payloads("failed", results, {}, kpis) : b.kpis \subseteq db'
    BY <1>1, <1>2, PayloadKpis DEF Progress, Terminal
  <2> QED
    BY <1>1, <1>5, <2>1 DEF Conclude, ConcludeRaises, Fail, FailRaises, Write,
      WriteRaises, BlobStored
<1>6. CASE UNCHANGED blob
  BY <1>1, <1>6 DEF BlobStored
<1> QED
  BY <1>3, <1>4, <1>5, <1>6
  DEF Next, Running, Unlock, Persist, Return, Crash, Retry

\* The terminal status of this attempt accounts for every stage.
LEMMA TerminalTold ==
  ASSUME EarnInv, ErrorsTold, pc = "terminal", NEW b \in Terminal,
         NEW s \in StageSet
  PROVE Accounted(b, s) /\ CountTrue(b.results, s)
<1> USE DEF EarnInv, GateInv
<1>1. b.results = results /\ b.failed = FailedStages(results, errors)
  BY DEF Terminal, Payloads
<1>2. CountTrue(results, s)
  BY DEF CountTrue, CountsStored, FusionClean
<1>3. Accounted(b, s)
  <2>1. CASE errors[s] = "none"
    BY <1>1, <2>1 DEF ReconciledEarned, Earned, Accounted
  <2>2. CASE errors[s] # "none"
    <3>1. s \in b.failed
      BY <1>1, <2>2 DEF FailedStages, Reporters
    <3> QED
      BY <1>1, <2>2, <3>1 DEF ErrorsTold, Accounted
  <2> QED
    BY <2>1, <2>2
<1> QED
  BY <1>1, <1>2, <1>3

LEMMA DegradedStep ==
  ASSUME ShownInv, Next
  PROVE DegradedTold'
<1> USE DEF ShownInv, EarnInv, GateInv
<1>1. attempt \in Nat /\ blob.by \in Nat /\ db \subseteq db'
  BY AttemptsAssumption, NoStageEmptiesTables DEF TypeOK, BlobType
<1>2. SUFFICES ASSUME blob'.stage = "completed_degraded", blob'.by = attempt'
               PROVE /\ pc' \notin Working
                     /\ \A s \in StageSet : (Accounted(blob, s)
                                               /\ CountTrue(blob.results, s))'
  BY DEF DegradedTold
<1>3. CASE Start \/ StartRaises
  BY <1>1, <1>2, <1>3, StartWrites DEF NotYetCompleted
<1>4. CASE Running
  BY <1>2, <1>4, RunningWrites DEF DegradedTold
<1>5. CASE Conclude \/ ConcludeRaises
  <2>1. pc = "terminal" /\ UNCHANGED <<attempt, worked, db>>
    BY <1>5 DEF Conclude, ConcludeRaises, history
  <2>2. blob' # blob
    BY <1>2, <2>1 DEF DegradedTold, Working
  <2>3. blob' \in Terminal
    BY <1>2, <1>5, <2>2, ProgressFields DEF Conclude, ConcludeRaises, Write, WriteRaises
  <2>4. \A s \in StageSet : Accounted(blob', s) /\ CountTrue(blob'.results, s)
    BY <2>1, <2>3, TerminalTold
  <2> QED
    BY <1>5, <2>1, <2>4, EndWrites DEF Accounted, CountTrue
<1>6. CASE Fail \/ FailRaises \/ Unlock \/ Persist \/ Return \/ Crash
  <2>1. UNCHANGED <<attempt, worked>> /\ pc' \notin Working
    BY <1>6 DEF Fail, FailRaises, Unlock, Persist, Return, Crash, history,
      Working, Loop
  <2>2. blob' = blob
    BY <1>2, <1>6, PayloadFields
    DEF Fail, FailRaises, Write, WriteRaises, Unlock, Persist, Return, Crash
  <2>3. \A s \in StageSet : Accounted(blob, s) /\ CountTrue(blob.results, s)
    BY <1>2, <2>1, <2>2 DEF DegradedTold
  <2> QED
    BY <1>1, <2>1, <2>2, <2>3 DEF Accounted, CountTrue
<1>7. CASE Retry
  BY <1>1, <1>2, <1>7 DEF Retry, NotYetCompleted
<1> QED
  BY <1>3, <1>4, <1>5, <1>6, <1>7 DEF Next, Running

LEMMA ShownStep ==
  ASSUME ShownInv, [Next]_vars
  PROVE ShownInv'
<1>1. EarnInv'
  BY EarnStep DEF ShownInv
<1>2. CASE UNCHANGED vars
  BY <1>1, <1>2 DEF ShownInv, ErrorsTold, BlobStored, DegradedTold, Accounted,
    CountTrue, vars, memory, history
<1>3. CASE Next
  <2>1. GateInv /\ GateInv'
    BY <1>1 DEF ShownInv, EarnInv
  <2> QED
    BY <1>1, <1>3, <2>1, ErrorsToldStep, BlobStoredStep, DegradedStep DEF ShownInv
<1> QED
  BY <1>2, <1>3

LEMMA ReadingIsExplained ==
  ASSUME ShownInv
  PROVE ReadingExplained
<1> USE DEF ShownInv
<1>1. SUFFICES ASSUME blob.stage = "completed_degraded", blob.by = attempt,
                      NEW healthy \in BOOLEAN,
                      Reading(blob, healthy).stage = "completed",
                      NEW s \in StageSet, s \notin worked,
                      ~blob.results[s].contract, ~blob.results[s].reconciled
               PROVE s \in Evidence(healthy)
  BY DEF ReadingExplained
<1> DEFINE errs == [r \in Reporters |->
                      IF r \in blob.failed \cap StageSet THEN blob.results[r].err
                      ELSE "none"]
           refuted == Refuted(blob.results, errs, blob.kpis, healthy)
           failed == FailedStages(Marked(blob.results, refuted), Dropped(errs, refuted))
<1>2. failed = {}
  BY <1>1 DEF Reading
<1>3. /\ s \in blob.failed /\ blob.results[s].err # "none"
      /\ CountTrue(blob.results, s)
  BY <1>1 DEF DegradedTold, Accounted
<1>4. s \in Reporters /\ errs[s] = blob.results[s].err
  BY <1>3 DEF Reporters
<1>5. s \in refuted
  <2>1. ASSUME s \notin refuted PROVE FALSE
    <3>1. Dropped(errs, refuted)[s] # "none"
      BY <1>3, <1>4, <2>1 DEF Dropped
    <3> QED
      BY <1>2, <1>4, <3>1 DEF FailedStages
  <2> QED
    BY <2>1
<1>6. s \in Refutable /\ (s = "aviation_master" => healthy)
  BY <1>5 DEF Refuted
<1>7. s # "aviation_master" => Positive(s, blob.results, blob.kpis)
  BY <1>1, <1>5 DEF Refuted
<1>8. s # "aviation_master" => Output[s] \subseteq db
  BY <1>3, <1>7 DEF Positive, CountTrue, BlobStored
<1> QED
  BY <1>6, <1>8 DEF Evidence

\* When a reader shows a degraded run as completed, every stage worked, was
\* skipped by its contract, or has its data: no failure gets lost on the way
\* from the worker's errors through the blob into the reader.
THEOREM ReadersAreTold == Spec => []ReadingExplained
<1>1. ASSUME Init PROVE ShownInv
  <2>1. EarnInv
    BY <1>1, EarnInit
  <2>2. ErrorsTold /\ BlobStored /\ DegradedTold
    BY <1>1 DEF Init, NoErrors, ErrorsTold, Reporters, QueuedBlob, BlobStored,
      DegradedTold
  <2> QED
    BY <2>1, <2>2 DEF ShownInv
<1> QED
  BY <1>1, ShownStep, ReadingIsExplained, PTL DEF Spec
=============================================================================
