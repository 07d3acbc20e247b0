----------------------------- MODULE WorkerPool -----------------------------
(***************************************************************************)
(* The DistributedWorkers of src/core/distributed/worker in front of the   *)
(* task table of TaskQueue, with the coordinator that calls expire_leases. *)
(*                                                                         *)
(* A worker has a main thread (_main_loop, _execute_task, _report_...), a  *)
(* lease thread (_lease_renewal_loop) and whoever calls start, stop, pause *)
(* and resume on it.  They share _state, _stop_event and _current_task     *)
(* without a lock.  Every backend call is atomic; between two of them any  *)
(* other thread or worker may move, time may pass and a process may die.   *)
(***************************************************************************)
EXTENDS TaskQueue, Sequences

CONSTANTS
  NoTask,         \* _current_task is None
  Accepts,        \* per worker and queue, in polling order: the tasks that
                  \* its queue_names, task_types and tenant_id let through
  Autocommit,     \* TRUE: PgBackend without a pool, on one autocommit connection
  Control,        \* which of "pause" and "stop" the callers may use
  MaxFaults       \* bound on crashes and lost answers

ASSUME NoTaskAssumption == NoTask \notin Tasks
ASSUME WorkersFinite == IsFiniteSet(Workers)
ASSUME AcceptsAssumption ==
  \A w \in Workers : Accepts[w] \in Seq(SUBSET Tasks) /\ Accepts[w] # << >>
ASSUME AutocommitAssumption == Autocommit \in BOOLEAN
ASSUME ControlAssumption == Control \subseteq {"pause", "stop"}
ASSUME FaultsAssumption == MaxFaults \in Nat

VARIABLES
  state,          \* _state
  stop,           \* _stop_event
  pc,             \* the main thread
  queue,          \* the index of the queue the main thread polls
  task,           \* the task the main thread claimed
  current,        \* _current_task
  renew,          \* the lease thread: "off", "idle" or the task it renews
  stopping,       \* a caller is inside stop(), joining the main thread
  faults          \* crashes and lost answers so far

workerVars == <<state, stop, pc, queue, task, current, renew, stopping>>
vars == <<queueVars, workerVars, faults>>

States == {"idle", "running", "paused", "stopping", "stopped"}
PCs == {"off", "loop", "poll", "selected", "claimed", "exec", "succeeded", "raised"}

(* The main thread is between its claim and its report. *)
Busy(w) == pc[w] \in {"claimed", "exec", "succeeded", "raised"}

TypeOK ==
  /\ QueueTypeOK
  /\ state \in [Workers -> States]
  /\ stop \in [Workers -> BOOLEAN]
  /\ pc \in [Workers -> PCs]
  /\ queue \in [Workers -> Nat]
  /\ \A w \in Workers : queue[w] \in 1..Len(Accepts[w])
  /\ task \in [Workers -> Tasks \cup {NoTask}]
  /\ current \in [Workers -> Tasks \cup {NoTask}]
  /\ renew \in [Workers -> Tasks \cup {"off", "idle"}]
  /\ stopping \in [Workers -> BOOLEAN]
  /\ faults \in 0..MaxFaults

Init ==
  /\ QueueInit
  /\ state = [w \in Workers |-> "stopped"]
  /\ stop = [w \in Workers |-> FALSE]
  /\ pc = [w \in Workers |-> "off"]
  /\ queue = [w \in Workers |-> 1]
  /\ task = [w \in Workers |-> NoTask]
  /\ current = [w \in Workers |-> NoTask]
  /\ renew = [w \in Workers |-> "off"]
  /\ stopping = [w \in Workers |-> FALSE]
  /\ faults = 0

(* An answer is lost: PgBackend reports an exception as "no result". *)
Fault == ~MemoryBackend /\ faults < MaxFaults /\ faults' = faults + 1

Enqueue(t) ==
  /\ \E d \in Delays : EnqueueTask(t, d)
  /\ UNCHANGED <<workerVars, faults>>

-----------------------------------------------------------------------------
(* _main_loop *)

(* Fault: the loop ends on the state STOPPING instead of on the stop event. *)
LoopTopByState(w) ==
  /\ pc[w] = "loop"
  /\ \/ /\ state[w] = "stopping"
        /\ pc' = [pc EXCEPT ![w] = "off"]
        /\ state' = [state EXCEPT ![w] = "stopped"]
        /\ UNCHANGED queue
     \/ /\ state[w] \notin {"paused", "stopping"}
        /\ pc' = [pc EXCEPT ![w] = "poll"]
        /\ queue' = [queue EXCEPT ![w] = 1]
        /\ UNCHANGED state
  /\ UNCHANGED <<queueVars, stop, task, current, renew, stopping, faults>>

(* Paused and stopping workers wait a second and look again. *)
LoopTop(w) ==
  /\ pc[w] = "loop"
  /\ \/ /\ stop[w]
        /\ pc' = [pc EXCEPT ![w] = "off"]
        /\ state' = [state EXCEPT ![w] = "stopped"]
        /\ UNCHANGED queue
     \/ /\ ~stop[w]
        /\ state[w] \notin {"paused", "stopping"}
        /\ pc' = [pc EXCEPT ![w] = "poll"]
        /\ queue' = [queue EXCEPT ![w] = 1]
        /\ UNCHANGED state
  /\ UNCHANGED <<queueVars, stop, task, current, renew, stopping, faults>>

(* Nothing came from this queue: poll the next one, or wait poll_interval. *)
NothingFound(w) ==
  /\ IF queue[w] < Len(Accepts[w])
       THEN /\ queue' = [queue EXCEPT ![w] = @ + 1]
            /\ UNCHANGED <<pc, state>>
       ELSE /\ pc' = [pc EXCEPT ![w] = "loop"]
            /\ state' = [state EXCEPT ![w] = "idle"]
            /\ UNCHANGED queue
  /\ UNCHANGED task

Candidates(w) == Accepts[w][queue[w]]

(* Fault: the SELECT and the UPDATE are two transactions in any case. *)
SelectInTwo(w, S, t) ==
  /\ IsFirst(t, Available(S))
  /\ pc' = [pc EXCEPT ![w] = "selected"]
  /\ UNCHANGED queueVars

(* dequeue(): one transaction when the backend has a pool.  On the single   *)
(* autocommit connection the SELECT ends its own transaction, and with it   *)
(* the row lock of FOR UPDATE SKIP LOCKED. *)
Select(w, S, t) ==
  /\ IsFirst(t, Available(S))
  /\ IF Autocommit
       THEN pc' = [pc EXCEPT ![w] = "selected"] /\ UNCHANGED queueVars
       ELSE pc' = [pc EXCEPT ![w] = "claimed"] /\ DequeueTask(w, S, t)

(* One dequeue() of the queue the main thread has come to. *)
Poll(w) ==
  LET S == Candidates(w) IN
  /\ pc[w] = "poll"
  /\ \/ /\ Available(S) = {}
        /\ NothingFound(w)
        /\ UNCHANGED <<queueVars, faults>>
     \/ \E t \in S :
          /\ Select(w, S, t)
          /\ task' = [task EXCEPT ![w] = t]
          /\ UNCHANGED <<state, queue, faults>>
     \/ /\ Fault
        /\ UNCHANGED queueVars \/ \E t \in S : DequeueTask(w, S, t)
        /\ NothingFound(w)
  /\ UNCHANGED <<stop, current, renew, stopping>>

(* The UPDATE of an autocommit dequeue. *)
Claim(w) ==
  /\ pc[w] = "selected"
  /\ ClaimTask(w, task[w])
  /\ pc' = [pc EXCEPT ![w] = "claimed"]
  /\ UNCHANGED <<state, stop, queue, task, current, renew, stopping, faults>>

(* _state becomes RUNNING whatever it was, then _execute_task begins. *)
Begin(w) ==
  /\ pc[w] = "claimed"
  /\ state' = [state EXCEPT ![w] = "running"]
  /\ current' = [current EXCEPT ![w] = task[w]]
  /\ pc' = [pc EXCEPT ![w] = "exec"]
  /\ UNCHANGED <<queueVars, stop, queue, task, renew, stopping, faults>>

(* Bound: a handler does not raise any more at this count, which is past    *)
(* what RetriesBounded allows. *)
RetryCap == MaxRetries + Cardinality(Workers) + 1

(* The handler returns, or raises; a missing handler counts as raising. *)
Handle(w) ==
  /\ pc[w] = "exec"
  /\ \/ pc' = [pc EXCEPT ![w] = "succeeded"]
     \/ retries[task[w]] < RetryCap /\ pc' = [pc EXCEPT ![w] = "raised"]
  /\ UNCHANGED <<queueVars, state, stop, queue, task, current, renew, stopping, faults>>

(* _report_success or _report_failure: a report that fails is logged and    *)
(* not repeated.  Either way the worker forgets the task. *)
Report(w) ==
  /\ \/ pc[w] = "succeeded" /\ CompleteTask(task[w]) /\ UNCHANGED faults
     \/ pc[w] = "raised" /\ FailTask(task[w], TRUE) /\ UNCHANGED faults
     \/ pc[w] \in {"succeeded", "raised"} /\ Fault /\ UNCHANGED queueVars
  /\ pc' = [pc EXCEPT ![w] = "loop"]
  /\ task' = [task EXCEPT ![w] = NoTask]
  /\ current' = [current EXCEPT ![w] = NoTask]
  /\ UNCHANGED <<state, stop, queue, renew, stopping>>

-----------------------------------------------------------------------------
(* _lease_renewal_loop *)

LeaseLoop(w) ==
  /\ renew[w] = "idle"
  /\ \/ stop[w] /\ renew' = [renew EXCEPT ![w] = "off"]
     \/ /\ ~stop[w] /\ current[w] # NoTask
        /\ renew' = [renew EXCEPT ![w] = current[w]]
  /\ UNCHANGED <<queueVars, state, stop, pc, queue, task, current, stopping, faults>>

(* The lease is renewed by half of lease_seconds. *)
Renew(w) ==
  /\ renew[w] \in Tasks
  /\ \/ RenewLease(renew[w], LeaseTicks \div 2) /\ UNCHANGED faults
     \/ status[renew[w]] # "running" /\ UNCHANGED <<queueVars, faults>>
     \/ Fault /\ UNCHANGED queueVars
  /\ renew' = [renew EXCEPT ![w] = "idle"]
  /\ UNCHANGED <<state, stop, pc, queue, task, current, stopping>>

-----------------------------------------------------------------------------
(* The callers of start, stop, pause and resume *)

(* start() of a worker whose threads have ended.  The code only refuses a   *)
(* worker whose state is RUNNING; starting a second set of threads is left  *)
(* out. *)
Start(w) ==
  /\ pc[w] = "off" /\ renew[w] = "off" /\ ~stopping[w]
  /\ state' = [state EXCEPT ![w] = "idle"]
  /\ stop' = [stop EXCEPT ![w] = FALSE]
  /\ pc' = [pc EXCEPT ![w] = "loop"]
  /\ renew' = [renew EXCEPT ![w] = "idle"]
  /\ UNCHANGED <<queueVars, queue, task, current, stopping, faults>>

Stop(w) ==
  /\ "stop" \in Control
  /\ ~stopping[w]
  /\ state[w] \notin {"stopped", "stopping"}
  /\ state' = [state EXCEPT ![w] = "stopping"]
  /\ stop' = [stop EXCEPT ![w] = TRUE]
  /\ stopping' = [stopping EXCEPT ![w] = TRUE]
  /\ UNCHANGED <<queueVars, pc, queue, task, current, renew, faults>>

(* join() returned: the main thread ended, or graceful_shutdown_timeout     *)
(* passed with the task still running. *)
StopReturn(w) ==
  /\ stopping[w]
  /\ state' = [state EXCEPT ![w] = "stopped"]
  /\ stopping' = [stopping EXCEPT ![w] = FALSE]
  /\ UNCHANGED <<queueVars, stop, pc, queue, task, current, renew, faults>>

Pause(w) ==
  /\ "pause" \in Control
  /\ state' = [state EXCEPT ![w] = "paused"]
  /\ UNCHANGED <<queueVars, stop, pc, queue, task, current, renew, stopping, faults>>

Resume(w) ==
  /\ "pause" \in Control
  /\ state' = [state EXCEPT ![w] = "idle"]
  /\ UNCHANGED <<queueVars, stop, pc, queue, task, current, renew, stopping, faults>>

-----------------------------------------------------------------------------
(* The environment *)

(* The worker's process dies, and its threads with it.  MemoryBackend lives *)
(* in the same process. *)
Crash(w) ==
  /\ Fault
  /\ pc[w] # "off" \/ renew[w] # "off"
  /\ state' = [state EXCEPT ![w] = "stopped"]
  /\ stop' = [stop EXCEPT ![w] = FALSE]
  /\ pc' = [pc EXCEPT ![w] = "off"]
  /\ queue' = [queue EXCEPT ![w] = 1]
  /\ task' = [task EXCEPT ![w] = NoTask]
  /\ current' = [current EXCEPT ![w] = NoTask]
  /\ renew' = [renew EXCEPT ![w] = "off"]
  /\ stopping' = [stopping EXCEPT ![w] = FALSE]
  /\ UNCHANGED queueVars

Expire == ExpireLeases /\ UNCHANGED <<workerVars, faults>>

Tick == QueueTick /\ UNCHANGED <<workerVars, faults>>

MainStep(w) ==
  LoopTop(w) \/ Poll(w) \/ Claim(w) \/ Begin(w) \/ Handle(w) \/ Report(w)

LeaseStep(w) == LeaseLoop(w) \/ Renew(w)

Next ==
  \/ \E t \in Tasks : Enqueue(t)
  \/ \E w \in Workers :
       \/ MainStep(w) \/ LeaseStep(w)
       \/ Start(w) \/ Stop(w) \/ StopReturn(w) \/ Pause(w) \/ Resume(w)
       \/ Crash(w)
  \/ Expire
  \/ Tick

Spec == Init /\ [][Next]_vars

(* Threads are scheduled and handlers return; time passes; the coordinator  *)
(* calls expire_leases "periodically"; docker-compose restarts a worker.    *)
FairSpec ==
  /\ Spec
  /\ \A w \in Workers : WF_vars(MainStep(w)) /\ WF_vars(LeaseStep(w)) /\ WF_vars(Start(w))
  /\ WF_vars(Expire)
  /\ WF_vars(Tick)

-----------------------------------------------------------------------------
(* Properties *)

(* However late workers report, a task is retried a bounded number of       *)
(* times: max_retries, and at most one refused retry per worker that still  *)
(* held the task when the retries were used up.                             *)
RetriesBounded ==
  \A t \in Tasks : retries[t] <= MaxRetries + Cardinality(Workers)

(* The pool implements TaskQueue: workers, faults and callers together do   *)
(* nothing to the table that the operations of the queue would not do.      *)
ImplementsQueue == QueueSpec

(* Every enqueued task comes to an end: crashes, lost answers, expired      *)
(* leases and late reports of a bounded number cannot leave it pending or   *)
(* running for ever, as long as expire_leases is called.                    *)
EveryTaskEnds ==
  \A t \in Tasks : status[t] = "pending" ~> status[t] \in {"completed", "failed"}

(* stop() is honoured although the main thread overwrites the state that    *)
(* stop() and pause() set: the thread ends after the task it is running.    *)
StopEndsMainThread ==
  \A w \in Workers : (stop[w] /\ pc[w] # "off") ~> pc[w] = "off"
=============================================================================
