-------------------------- MODULE SagaCoordinator --------------------------
(***************************************************************************)
(* DistributedSagaCoordinator (src/core/distributed/saga_coordinator) on   *)
(* PgBackend: one saga of N steps.  A client calls start_saga; workers     *)
(* execute the tasks it dispatches and call report_step_result, each from  *)
(* its own process.  Every call of the backend is atomic and another       *)
(* process may move between any two of them.                               *)
(*                                                                         *)
(* The task queue delivers at least once (see WorkerPool): a lease that    *)
(* runs out, a worker that dies and a handler that raises put the task     *)
(* back.  The backend reports an exception as "no result", which the       *)
(* coordinator ignores except where an action says otherwise.              *)
(***************************************************************************)
EXTENDS Integers

CONSTANTS
  N,              \* number of steps
  Reporters,      \* workers that execute steps and report them
  DefaultHandlers,\* those of them that handle the task types saga_step_<name>
  Starter,        \* the client that calls start_saga
  MaxRedelivered, \* bound: deliveries of a task after its first
  MaxFaults,      \* bound: backend calls that fail
  ClientMayCrash  \* TRUE: the client may die before start_saga returns

ASSUME NAssumption == N \in Nat \ {0}
ASSUME ReportersAssumption == Starter \notin Reporters /\ DefaultHandlers \subseteq Reporters
ASSUME BoundsAssumption == MaxRedelivered \in Nat /\ MaxFaults \in Nat
ASSUME CrashAssumption == ClientMayCrash \in BOOLEAN

Steps == 1..N
Procs == Reporters \cup {Starter}

VARIABLES
  saga,           \* coord_sagas.status, "none" before create_saga
  step,           \* coord_saga_steps.status
  queued,         \* tasks of each step that wait in the queue
  pc,             \* where each process is
  mine,           \* the step a process is working on, 0 for none
  result,         \* what a reporter reports: "ok" or "error"
  outcomes,       \* history: the outcomes that executions of a step had
  unhandled,      \* history: the steps a worker had no handler for
  redelivered, faults

rows == <<saga, step, queued>>
vars == <<saga, step, queued, pc, mine, result, outcomes, unhandled, redelivered, faults>>

SagaStatuses == {"none", "PENDING", "RUNNING", "COMPLETED", "COMPENSATING", "COMPENSATED"}
StepStatuses == {"PENDING", "RUNNING", "COMPLETED", "FAILED"}
Results == {"ok", "error"}
Final == {"COMPLETED", "COMPENSATED"}
PCs == {"new", "created", "idle", "exec", "report", "update", "mark", "enqueue",
        "finish", "compensating", "compensate", "done"}

TypeOK ==
  /\ saga \in SagaStatuses
  /\ step \in [Steps -> StepStatuses]
  /\ queued \in [Steps -> Nat]
  /\ pc \in [Procs -> PCs]
  /\ mine \in [Procs -> 0..N]
  /\ result \in [Procs -> Results]
  /\ outcomes \in [Steps -> SUBSET Results]
  /\ unhandled \subseteq Steps
  /\ redelivered \in 0..MaxRedelivered
  /\ faults \in 0..MaxFaults

Init ==
  /\ saga = "none"
  /\ step = [i \in Steps |-> "PENDING"]
  /\ queued = [i \in Steps |-> 0]
  /\ pc = [p \in Procs |-> IF p = Starter THEN "new" ELSE "idle"]
  /\ mine = [p \in Procs |-> 0]
  /\ result = [p \in Procs |-> "error"]
  /\ outcomes = [i \in Steps |-> {}]
  /\ unhandled = {}
  /\ redelivered = 0
  /\ faults = 0

-----------------------------------------------------------------------------
Goto(p, l) == pc' = [pc EXCEPT ![p] = l] /\ UNCHANGED <<mine, result>>

(* The process leaves the coordinator. *)
Return(p) ==
  /\ pc' = [pc EXCEPT ![p] = IF p = Starter THEN "done" ELSE "idle"]
  /\ mine' = [mine EXCEPT ![p] = 0]
  /\ result' = [result EXCEPT ![p] = "error"]

Fault == faults < MaxFaults /\ faults' = faults + 1

(* update_saga_step and update_saga_status test neither the old status nor  *)
(* whose the saga is; their answer is not looked at. *)
UpdateSagaStep(i, s) ==
  /\ \/ step' = [step EXCEPT ![i] = s] /\ UNCHANGED faults
     \/ Fault /\ UNCHANGED step
  /\ UNCHANGED <<saga, queued, outcomes, unhandled, redelivered>>

UpdateSagaStatus(s) ==
  /\ \/ saga' = s /\ UNCHANGED faults
     \/ Fault /\ UNCHANGED saga
  /\ UNCHANGED <<step, queued, outcomes, unhandled, redelivered>>

-----------------------------------------------------------------------------
(* start_saga *)

CreateSaga ==
  /\ pc[Starter] = "new"
  /\ \/ saga' = "PENDING" /\ Goto(Starter, "created") /\ UNCHANGED faults
     \/ saga' \in {"none", "PENDING"} /\ Fault /\ Return(Starter)
  /\ UNCHANGED <<step, queued, outcomes, unhandled, redelivered>>

SetRunning ==
  /\ pc[Starter] = "created"
  /\ UpdateSagaStatus("RUNNING")
  /\ Goto(Starter, "mark")

-----------------------------------------------------------------------------
(* _dispatch_step of the step after the one p works on: the first one for   *)
(* start_saga. *)

Mark(p) ==
  /\ pc[p] = "mark"
  /\ UpdateSagaStep(mine[p] + 1, "RUNNING")
  /\ Goto(p, "enqueue")

(* enqueue raises when the backend says no: the client gets the exception,  *)
(* a worker's task fails and is tried again. *)
Enqueue(p) ==
  LET added == [queued EXCEPT ![mine[p] + 1] = @ + 1] IN
  /\ pc[p] = "enqueue"
  /\ \/ queued' = added /\ UNCHANGED faults
     \/ /\ Fault
        /\ \E q \in {queued, added} :
             queued' = IF p = Starter THEN q ELSE [q EXCEPT ![mine[p]] = @ + 1]
  /\ Return(p)
  /\ UNCHANGED <<saga, step, outcomes, unhandled, redelivered>>

-----------------------------------------------------------------------------
(* A worker: the queue delivers a task, the step runs, it is reported. *)

(* coord_saga_steps has no column for the action's task type either: every  *)
(* step but the first is dispatched with the default type of its name,      *)
(* whatever type start_saga was given.                                      *)
Handles(r, i) == i = 1 \/ r \in DefaultHandlers

(* Fault: the task is taken without a look at the queue. *)
DeliverUnchecked(r, i) ==
  /\ pc[r] = "idle"
  /\ Handles(r, i)
  /\ queued' = [queued EXCEPT ![i] = @ - 1]
  /\ pc' = [pc EXCEPT ![r] = "exec"]
  /\ mine' = [mine EXCEPT ![r] = i]
  /\ UNCHANGED <<saga, step, result, outcomes, unhandled, redelivered, faults>>

Deliver(r, i) ==
  /\ pc[r] = "idle"
  /\ Handles(r, i)
  /\ queued[i] > 0
  /\ queued' = [queued EXCEPT ![i] = @ - 1]
  /\ pc' = [pc EXCEPT ![r] = "exec"]
  /\ mine' = [mine EXCEPT ![r] = i]
  /\ UNCHANGED <<saga, step, result, outcomes, unhandled, redelivered, faults>>

(* A worker without a handler fails the task, as often as it is retried.    *)
NoHandler(r, i) ==
  /\ pc[r] = "idle"
  /\ ~Handles(r, i)
  /\ queued[i] > 0
  /\ queued' = [queued EXCEPT ![i] = @ - 1]
  /\ unhandled' = unhandled \cup {i}
  /\ UNCHANGED <<saga, step, pc, mine, result, outcomes, redelivered, faults>>

Execute(r) ==
  /\ pc[r] = "exec"
  /\ \E x \in Results :
       /\ result' = [result EXCEPT ![r] = x]
       /\ outcomes' = [outcomes EXCEPT ![mine[r]] = @ \cup {x}]
  /\ pc' = [pc EXCEPT ![r] = "report"]
  /\ UNCHANGED <<rows, mine, unhandled, redelivered, faults>>

(* report_step_result reads the saga; without an answer it gives up. *)
GetSaga(r) ==
  /\ pc[r] = "report"
  /\ \/ Goto(r, "update") /\ UNCHANGED faults
     \/ Fault /\ Return(r)
  /\ UNCHANGED <<rows, outcomes, unhandled, redelivered>>

(* Fault: the step itself is counted among those that follow. *)
NextLabelOffByOne(r) ==
  IF result[r] = "error" THEN "compensating" ELSE IF mine[r] + 1 < N THEN "mark" ELSE "finish"

(* Fault: the failure of a step is not looked at. *)
NextLabelNoFailure(r) == IF mine[r] < N THEN "mark" ELSE "finish"

(* Where report_step_result goes after the step has been marked. *)
NextLabel(r) ==
  IF result[r] = "error" THEN "compensating" ELSE IF mine[r] < N THEN "mark" ELSE "finish"

UpdateStep(r) ==
  /\ pc[r] = "update"
  /\ UpdateSagaStep(mine[r], IF result[r] = "ok" THEN "COMPLETED" ELSE "FAILED")
  /\ Goto(r, NextLabel(r))

Finish(r) ==
  /\ pc[r] = "finish"
  /\ UpdateSagaStatus("COMPLETED")
  /\ Return(r)

SetCompensating(r) ==
  /\ pc[r] = "compensating"
  /\ UpdateSagaStatus("COMPENSATING")
  /\ Goto(r, "compensate")

(* Fault: the final status is not written. *)
CompensateUnfinished(r) ==
  /\ pc[r] = "compensate"
  /\ Return(r)
  /\ UNCHANGED <<rows, outcomes, unhandled, redelivered, faults>>

(* _compensate: coord_saga_steps has no column for the compensation task    *)
(* type, so each completed step "has no compensation" and is skipped. *)
Compensate(r) ==
  /\ pc[r] = "compensate"
  /\ UpdateSagaStatus("COMPENSATED")
  /\ Return(r)

-----------------------------------------------------------------------------
(* The environment *)

Redeliver(r) ==
  /\ mine[r] # 0
  /\ redelivered < MaxRedelivered
  /\ redelivered' = redelivered + 1
  /\ queued' = [queued EXCEPT ![mine[r]] = @ + 1]
  /\ UNCHANGED <<saga, step, outcomes, unhandled, faults>>

(* The lease runs out although the worker is still at work. *)
LeaseExpires(r) == Redeliver(r) /\ UNCHANGED <<pc, mine, result>>

Crash(r) == Redeliver(r) /\ Return(r)

(* The client dies.  recover_sagas of its successor only looks at its own   *)
(* empty _active_sagas, and dispatches nothing whatever it finds. *)
ClientCrash ==
  /\ ClientMayCrash
  /\ pc[Starter] # "done"
  /\ Return(Starter)
  /\ UNCHANGED <<rows, outcomes, unhandled, redelivered, faults>>

ReporterStep(r) ==
  \/ \E i \in Steps : Deliver(r, i) \/ NoHandler(r, i)
  \/ Execute(r) \/ GetSaga(r) \/ UpdateStep(r) \/ Mark(r) \/ Enqueue(r)
  \/ Finish(r) \/ SetCompensating(r) \/ Compensate(r)

StarterStep == CreateSaga \/ SetRunning \/ Mark(Starter) \/ Enqueue(Starter)

Next ==
  \/ StarterStep \/ ClientCrash
  \/ \E r \in Reporters : ReporterStep(r) \/ LeaseExpires(r) \/ Crash(r)

Spec == Init /\ [][Next]_vars

(* Every process goes on with what it does, and the queue delivers. *)
Fairness == WF_vars(StarterStep) /\ \A r \in Reporters : WF_vars(ReporterStep(r))

FairSpec == Spec /\ Fairness

-----------------------------------------------------------------------------
(* Properties *)

Succeeded(i) == "ok" \in outcomes[i]

(* A step is dispatched or executed only after every step before it has     *)
(* succeeded, whatever is delivered twice, reported late or lost.           *)
StepsInOrder ==
  \A i \in Steps :
    queued[i] > 0 \/ outcomes[i] # {} \/ (\E r \in Reporters : mine[r] = i)
      => \A j \in 1..(i - 1) : Succeeded(j)

(* A saga that is called COMPLETED has had every step succeed.              *)
CompletedMeansDone == saga = "COMPLETED" => \A i \in Steps : Succeeded(i)

(* A saga is rolled back only because an execution of a step failed, with   *)
(* every step before it done.                                               *)
RollbackHasCause ==
  saga \in {"COMPENSATING", "COMPENSATED"}
    => \E i \in Steps : "error" \in outcomes[i] /\ \A j \in 1..(i - 1) : Succeeded(j)

(* The status a saga has was earned by what its steps did.                  *)
StatusIsEarned == CompletedMeansDone /\ RollbackHasCause

Dispatched(i) == queued[i] > 0 \/ outcomes[i] # {} \/ \E r \in Reporters : mine[r] = i

(* As long as the backend answers and every worker has a handler for what   *)
(* it is given, a running saga whose first step was dispatched comes to an  *)
(* end, however often workers die and tasks are delivered again.            *)
SagaEnds ==
  [](faults = 0 /\ unhandled = {})
    => (saga = "RUNNING" /\ Dispatched(1) ~> saga \in Final)

(* __init__.py:55: "On failure, completed steps are compensated".           *)
CompletedAreCompensated ==
  saga = "COMPENSATED" => \A i \in Steps : step[i] # "COMPLETED"
=============================================================================
