-------------------------- MODULE LifecycleRegister --------------------------
(***************************************************************************)
(* What callers of OperationLifecycleManager (operation_lifecycle.py) rely *)
(* on: one record of the current refresh operation, changed by calls that  *)
(* take effect at once and touch the record of their own operation only.   *)
(* RefreshOrchestration is written against it.                             *)
(*                                                                         *)
(* The promise ends with the first disturbance; OperationLifecycle says    *)
(* what disturbs it.                                                       *)
(***************************************************************************)
CONSTANTS
  Ops,  \* operation ids
  NoOp  \* the id of no operation

VARIABLES
  record,  \* skytrax:ops:refresh:operation
  calls,   \* transition and clear_terminal calls under way
  intact   \* nothing has disturbed the record yet

\* The terminal states differ in name only.
States == {"queued", "running", "terminal"}
RecordType == [op : Ops \cup {NoOp}, state : States \cup {"none"}]
Calls == [op : Ops, state : States \cup {"clear"}]

NoRecord == [op |-> NoOp, state |-> "none"]
Queued(o) == [op |-> o, state |-> "queued"]

\* get_active_operation.
Active(r) == r.state \in {"queued", "running"}

Init == record = NoRecord /\ calls = {} /\ intact = TRUE

\* accept_refresh answers "accepted".
Accept(o) == ~Active(record) /\ record' = Queued(o)

\* transition, for its own operation or when there is no record.
Transition(c) ==
  /\ c.state \in States
  /\ record.op \in {c.op, NoOp}
  /\ record' = c

\* clear_terminal.
Clear(c) ==
  /\ c.state = "clear"
  /\ record.op = c.op
  /\ record' = NoRecord

\* An operation in a terminal state is forgotten.
Expire == ~Active(record) /\ record' = NoRecord

\* Calls begin and end, or end without effect.
Idle == UNCHANGED record

Promised ==
  \/ \E o \in Ops : Accept(o)
  \/ \E c \in calls : Transition(c) \/ Clear(c)
  \/ Expire
  \/ Idle

Next ==
  /\ calls' \in SUBSET Calls
  /\ \/ intact /\ Promised /\ intact' = TRUE
     \/ intact' = FALSE

Spec == Init /\ [][Next]_<<record, calls, intact>>

=============================================================================
