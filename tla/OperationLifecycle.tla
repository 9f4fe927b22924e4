------------------------- MODULE OperationLifecycle -------------------------
(***************************************************************************)
(* OperationLifecycleManager (worker/orchestration/operation_lifecycle.py) *)
(* one Redis command at a time: accept_refresh under its dispatch lock,    *)
(* transition as GET then SET, clear_terminal as GET then DEL, the keys'   *)
(* TTLs, commands that fail, and requests that die.                        *)
(*                                                                         *)
(* Only accept_refresh takes the lock, transition and clear_terminal do    *)
(* not.  intact records whether the calls can still be told from the       *)
(* atomic ones of LifecycleRegister.                                       *)
(***************************************************************************)
CONSTANTS
  Ops,     \* operation ids, one accept_refresh for each
  NoOp,    \* the id of no operation
  Writers  \* callers of transition and clear_terminal

ASSUME NoOpAssumption == NoOp \notin Ops

VARIABLES
  record,    \* skytrax:ops:refresh:operation
  dispatch,  \* skytrax:ops:refresh:dispatch:lock is set
  pc,        \* control point of every accept_refresh
  writer,    \* what every writer is about to write
  intact     \* history: no disturbance yet

vars == <<record, dispatch, pc, writer, intact>>

\* A writer that is not between its GET and its SET or DEL.
Resting == [op |-> NoOp, state |-> "rest"]

CallsUnderWay == {writer[w] : w \in Writers} \ {Resting}

Register == INSTANCE LifecycleRegister WITH calls <- CallsUnderWay

States == Register!States
NoRecord == Register!NoRecord

Writing(w) == writer[w].state \in States
Clearing(w) == writer[w].state = "clear"

\* No other writer is in the middle of a call for the same operation.
Alone(w, o) == \A x \in Writers \ {w} : writer[x].op # o

InSection(o) == pc[o] \in {"check", "create", "release"}

\* Nobody else is in the middle of any call.
Quiet(w) ==
  /\ \A x \in Writers \ {w} : writer[x] = Resting
  /\ \A o \in Ops : ~InSection(o)

\* A call for the active operation can do with being the only one for it; any
\* other call must be alone.
Collides(w, o) == IF Register!Active(record) THEN ~Alone(w, o) ELSE ~Quiet(w)

Disturbed == intact' = FALSE
Disturbs(cause) == intact' = (intact /\ ~cause)

Init ==
  /\ record = NoRecord
  /\ dispatch = FALSE
  /\ pc = [o \in Ops |-> "new"]
  /\ writer = [w \in Writers |-> Resting]
  /\ intact = TRUE

Goto(o, place) == pc' = [pc EXCEPT ![o] = place]

-----------------------------------------------------------------------------
(* accept_refresh. *)

\* Mutation: SET without NX.
TryLockAlways(o) ==
  /\ pc[o] = "new"
  /\ dispatch' = TRUE
  /\ Goto(o, "check")
  /\ UNCHANGED <<record, writer, intact>>

\* try_acquire_dispatch_lock: SET NX EX.
TryLock(o) ==
  /\ pc[o] = "new"
  /\ dispatch' = TRUE
  /\ Goto(o, IF dispatch THEN "refused" ELSE "check")
  /\ UNCHANGED <<record, writer, intact>>

\* The SET raises: the request goes on without the lock.
TryLockFails(o) ==
  /\ pc[o] = "new"
  /\ Goto(o, "check")
  /\ Disturbed
  /\ UNCHANGED <<record, dispatch, writer>>

\* get_active_operation.  A writer that has read a record which is not active
\* may still replace it between here and create_queued.
Check(o) ==
  /\ pc[o] = "check"
  /\ \/ /\ Register!Active(record)
        /\ Goto(o, "release")
        /\ UNCHANGED intact
     \/ /\ ~Register!Active(record)
        /\ Goto(o, "create")
        /\ Disturbs(\E w \in Writers : writer[w] # Resting)
  /\ UNCHANGED <<record, dispatch, writer>>

\* The GET raises: get_active_operation answers that nothing is active.
CheckFails(o) ==
  /\ pc[o] = "check"
  /\ Goto(o, "create")
  /\ Disturbed
  /\ UNCHANGED <<record, dispatch, writer>>

\* create_queued.
Create(o) ==
  /\ pc[o] = "create"
  /\ record' = Register!Queued(o)
  /\ Goto(o, "release")
  /\ UNCHANGED <<dispatch, writer, intact>>

\* The SET of create_queued raises; the finally clause still runs.
CreateFails(o) ==
  /\ pc[o] = "create"
  /\ Goto(o, "release")
  /\ UNCHANGED <<record, dispatch, writer, intact>>

\* release_dispatch_lock deletes the lock, whoever has set it, or fails.
Release(o) ==
  /\ pc[o] = "release"
  /\ dispatch' \in {FALSE, dispatch}
  /\ Goto(o, "done")
  /\ UNCHANGED <<record, writer, intact>>

\* The API process dies.
Die(o) ==
  /\ InSection(o)
  /\ Goto(o, "done")
  /\ UNCHANGED <<record, dispatch, writer, intact>>

\* DISPATCH_LOCK_TTL_S has passed, perhaps while its owner still works.
LockExpires ==
  /\ dispatch
  /\ dispatch' = FALSE
  /\ Disturbs(\E o \in Ops : InSection(o))
  /\ UNCHANGED <<record, pc, writer>>

-----------------------------------------------------------------------------
(* transition and clear_terminal. *)

\* GET: the record of another operation ends the call.
TransitionRead(w, o, s) ==
  /\ writer[w] = Resting
  /\ record.op \in {o, NoOp}
  /\ writer' = [writer EXCEPT ![w] = [op |-> o, state |-> s]]
  /\ Disturbs(Collides(w, o))
  /\ UNCHANGED <<record, dispatch, pc>>

\* SET: the payload read earlier with its new state.
TransitionWrite(w) ==
  /\ Writing(w)
  /\ record' = writer[w]
  /\ writer' = [writer EXCEPT ![w] = Resting]
  /\ UNCHANGED <<dispatch, pc, intact>>

\* GET: only the operation's own record is to be deleted.
ClearRead(w, o) ==
  /\ writer[w] = Resting
  /\ record.op = o
  /\ writer' = [writer EXCEPT ![w] = [op |-> o, state |-> "clear"]]
  /\ Disturbs(Collides(w, o))
  /\ UNCHANGED <<record, dispatch, pc>>

\* DEL: whatever the key holds by now.
ClearDelete(w) ==
  /\ Clearing(w)
  /\ record' = NoRecord
  /\ writer' = [writer EXCEPT ![w] = Resting]
  /\ UNCHANGED <<dispatch, pc, intact>>

\* A failed SET or DEL is logged, or its process dies.
WriteFails(w) ==
  /\ writer[w] # Resting
  /\ writer' = [writer EXCEPT ![w] = Resting]
  /\ UNCHANGED <<record, dispatch, pc, intact>>

\* OPERATION_TTL_S after the last SET: four hours, too short for a disturbance
\* only if the operation has ended.
RecordExpires ==
  /\ record # NoRecord
  /\ record' = NoRecord
  /\ Disturbs(Register!Active(record))
  /\ UNCHANGED <<dispatch, pc, writer>>

Request(o) ==
  \/ TryLock(o) \/ TryLockFails(o)
  \/ Check(o) \/ CheckFails(o)
  \/ Create(o) \/ CreateFails(o)
  \/ Release(o) \/ Die(o)

Write(w) ==
  \/ \E o \in Ops :
       \/ \E s \in States : TransitionRead(w, o, s)
       \/ ClearRead(w, o)
  \/ TransitionWrite(w) \/ ClearDelete(w) \/ WriteFails(w)

Next ==
  \/ \E o \in Ops : Request(o)
  \/ \E w \in Writers : Write(w)
  \/ LockExpires
  \/ RecordExpires

Spec == Init /\ [][Next]_vars

-----------------------------------------------------------------------------
(* Correctness. *)

TypeOK ==
  /\ record \in Register!RecordType
  /\ dispatch \in BOOLEAN
  /\ pc \in [Ops -> {"new", "check", "create", "release", "done", "refused"}]
  /\ writer \in [Writers -> Register!Calls \cup {Resting}]
  /\ intact \in BOOLEAN

\* Until a Redis command of accept_refresh fails, the dispatch lock outlives
\* its section, an active record expires, or a transition or clear_terminal
\* meets one for the same operation or, its operation not being active, any
\* other call, every call of the manager takes effect at once: no accept replaces an
\* active operation, no call touches another one's record.
CallsAreAtomic == Register!Spec

=============================================================================
