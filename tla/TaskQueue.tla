----------------------------- MODULE TaskQueue -----------------------------
(***************************************************************************)
(* The coord_tasks table and the operations of the coordination backend on *)
(* it (pg_backend/_task_mixin.py, memory_backend/_task_lock_mixin.py),     *)
(* which DistributedTaskQueue (task_queue/) calls one for one.             *)
(*                                                                         *)
(* The specification at the end lets any caller make any call at any time: *)
(* what it keeps, the queue guarantees by itself.  WorkerPool puts the     *)
(* workers of src/core/distributed/worker in front of it.                  *)
(*                                                                         *)
(* Times are ticks left: `lease' is lease_expires_at - now, -1 once it has *)
(* run out and NoLease for NULL; `delay' is delay_until - now, at least 0. *)
(***************************************************************************)
EXTENDS Integers, FiniteSets

CONSTANTS
  Tasks,          \* task ids
  Workers,        \* worker ids
  NoWorker,       \* worker_id is NULL
  Priority,       \* the priority each task is enqueued with
  Delays,         \* the delays a task may be enqueued with, in ticks
  LeaseTicks,     \* lease_seconds of dequeue_task, in ticks
  MaxRetries,     \* max_retries; 3 in the code
  MemoryBackend   \* TRUE: MemoryBackend, FALSE: PgBackend

ASSUME TasksAssumption == IsFiniteSet(Tasks)
ASSUME WorkersAssumption == NoWorker \notin Workers
ASSUME PriorityAssumption == Priority \in [Tasks -> Int]
ASSUME DelaysAssumption == Delays \subseteq Nat
ASSUME LeaseAssumption == LeaseTicks \in Nat
ASSUME RetriesAssumption == MaxRetries \in Nat
ASSUME BackendAssumption == MemoryBackend \in BOOLEAN

VARIABLES
  status,         \* "none" until the task is enqueued
  worker,         \* worker_id
  lease,          \* lease_expires_at
  retries,        \* retry_count
  delay,          \* delay_until
  created         \* created_at: the position in the order of creation

queueVars == <<status, worker, lease, retries, delay, created>>

NoLease == -2

Statuses == {"none", "pending", "running", "completed", "failed"}

QueueTypeOK ==
  /\ status \in [Tasks -> Statuses]
  /\ worker \in [Tasks -> Workers \cup {NoWorker}]
  /\ lease \in [Tasks -> NoLease..LeaseTicks]
  /\ retries \in [Tasks -> Nat]
  /\ delay \in [Tasks -> Nat]
  /\ created \in [Tasks -> Nat]

QueueInit ==
  /\ status = [t \in Tasks |-> "none"]
  /\ worker = [t \in Tasks |-> NoWorker]
  /\ lease = [t \in Tasks |-> NoLease]
  /\ retries = [t \in Tasks |-> 0]
  /\ delay = [t \in Tasks |-> 0]
  /\ created = [t \in Tasks |-> 0]

-----------------------------------------------------------------------------
(* enqueue_task: a task id that is already there is left alone. *)
EnqueueTask(t, d) ==
  /\ status[t] = "none"
  /\ status' = [status EXCEPT ![t] = "pending"]
  /\ delay' = [delay EXCEPT ![t] = d]
  /\ created' = [created EXCEPT
                   ![t] = Cardinality({u \in Tasks : status[u] # "none"}) + 1]
  /\ UNCHANGED <<worker, lease, retries>>

(* Fault: the status test is missing from the WHERE clause. *)
AvailableAnyStatus(S) == {t \in S : status[t] # "none" /\ delay[t] = 0}

(* The rows of S that dequeue_task may claim. *)
Available(S) == {t \in S : status[t] = "pending" /\ delay[t] = 0}

(* ORDER BY priority DESC, created_at ASC *)
Before(t, u) ==
  \/ Priority[t] > Priority[u]
  \/ Priority[t] = Priority[u] /\ created[t] < created[u]

(* A row of S that no other precedes; there may be ties. *)
IsFirst(t, S) == t \in S /\ \A u \in S : ~Before(u, t)

(* Fault: the claim sets no lease_expires_at. *)
ClaimTaskWithoutLease(w, t) ==
  /\ status' = [status EXCEPT ![t] = "running"]
  /\ worker' = [worker EXCEPT ![t] = w]
  /\ UNCHANGED <<lease, retries, delay, created>>

(* The second statement of dequeue_task; it does not look at the status. *)
ClaimTask(w, t) ==
  /\ status' = [status EXCEPT ![t] = "running"]
  /\ worker' = [worker EXCEPT ![t] = w]
  /\ lease' = [lease EXCEPT ![t] = LeaseTicks]
  /\ UNCHANGED <<retries, delay, created>>

(* dequeue_task over the rows S that pass the caller's filters, atomically. *)
DequeueTask(w, S, t) == IsFirst(t, Available(S)) /\ ClaimTask(w, t)

(* complete_task tests neither the status nor the worker. *)
CompleteTask(t) ==
  /\ status[t] # "none"
  /\ status' = [status EXCEPT ![t] = "completed"]
  /\ lease' = [lease EXCEPT ![t] = NoLease]
  /\ UNCHANGED <<worker, retries, delay, created>>

RetryTask(t) ==
  /\ status' = [status EXCEPT ![t] = "pending"]
  /\ retries' = [retries EXCEPT ![t] = @ + 1]
  /\ worker' = [worker EXCEPT ![t] = NoWorker]
  /\ lease' = [lease EXCEPT ![t] = NoLease]

(* Retries used up, or an error that must not be retried.  PostgreSQL       *)
(* counts the retry that was refused and keeps the old lease. *)
FailForGood(t, retryable) ==
  LET counts == retryable /\ ~MemoryBackend IN
  /\ status' = [status EXCEPT ![t] = "failed"]
  /\ retries' = IF counts THEN [retries EXCEPT ![t] = @ + 1] ELSE retries
  /\ lease' = IF counts THEN lease ELSE [lease EXCEPT ![t] = NoLease]
  /\ UNCHANGED worker

(* Fault: the comparison with max_retries is missing. *)
FailTaskForEver(t, retryable) ==
  /\ status[t] # "none"
  /\ IF retryable THEN RetryTask(t) ELSE FailForGood(t, retryable)
  /\ UNCHANGED <<delay, created>>

(* fail_task tests neither the status nor the worker. *)
FailTask(t, retryable) ==
  /\ status[t] # "none"
  /\ IF retryable /\ retries[t] < MaxRetries
       THEN RetryTask(t)
       ELSE FailForGood(t, retryable)
  /\ UNCHANGED <<delay, created>>

(* Fault: the renewal is added to what is left of the lease. *)
RenewLeaseAdds(t, d) ==
  /\ status[t] = "running"
  /\ lease' = [lease EXCEPT ![t] = @ + d]
  /\ UNCHANGED <<status, worker, retries, delay, created>>

(* renew_lease: the status is tested, the worker is not; the lease becomes  *)
(* now + additional_seconds, whatever was left of it. *)
RenewLease(t, d) ==
  /\ status[t] = "running"
  /\ lease' = [lease EXCEPT ![t] = d]
  /\ UNCHANGED <<status, worker, retries, delay, created>>

(* Fault: lease_expires_at <= now, a lease is ended in its last tick. *)
ExpiredTooEarly(t) == status[t] = "running" /\ lease[t] # NoLease /\ lease[t] <= 0

(* lease_expires_at < now; a NULL lease never compares. *)
Expired(t) == status[t] = "running" /\ lease[t] # NoLease /\ lease[t] < 0

(* expire_leases, for every queue there is: every row whose lease has run   *)
(* out goes back. *)
ExpireLeases ==
  /\ \E t \in Tasks : Expired(t)
  /\ status' = [t \in Tasks |-> IF Expired(t) THEN "pending" ELSE status[t]]
  /\ worker' = [t \in Tasks |-> IF Expired(t) THEN NoWorker ELSE worker[t]]
  /\ lease' = [t \in Tasks |-> IF Expired(t) THEN NoLease ELSE lease[t]]
  /\ UNCHANGED <<retries, delay, created>>

QueueTick ==
  /\ lease' = [t \in Tasks |-> IF lease[t] < 0 THEN lease[t] ELSE lease[t] - 1]
  /\ delay' = [t \in Tasks |-> IF delay[t] = 0 THEN 0 ELSE delay[t] - 1]
  /\ UNCHANGED <<status, worker, retries, created>>

-----------------------------------------------------------------------------
(* The queue under arbitrary callers. *)

Call(t) ==
  \/ \E d \in Delays : EnqueueTask(t, d)
  \/ CompleteTask(t)
  \/ \E retryable \in BOOLEAN : FailTask(t, retryable)
  \/ \E d \in 0..LeaseTicks : RenewLease(t, d)

QueueNext ==
  \/ \E t \in Tasks : Call(t)
  \/ \E w \in Workers, t \in Tasks, S \in SUBSET Tasks : DequeueTask(w, S, t)
  \/ ExpireLeases
  \/ QueueTick

QueueSpec == QueueInit /\ [][QueueNext]_queueVars

-----------------------------------------------------------------------------
(* Properties *)

(* Whatever its callers do, the queue never loses sight of a task: a        *)
(* running row has a worker and a lease that expire_leases can compare with *)
(* the clock, and a pending row belongs to nobody.                          *)
Recoverable ==
  \A t \in Tasks :
    /\ status[t] = "running" => worker[t] \in Workers /\ lease[t] # NoLease
    /\ status[t] \in {"none", "pending"} => worker[t] = NoWorker /\ lease[t] = NoLease

(* A row that is running is not handed to a second worker: it has to come   *)
(* back to pending first.                                                   *)
ClaimNeverSteals ==
  [][\A t \in Tasks :
       status[t] = "running" /\ status'[t] = "running"
         => worker'[t] = worker[t]]_queueVars

(* A task whose lease has not run out stays with its worker until somebody  *)
(* reports a result for that very task: expire_leases, claims of other      *)
(* tasks and time do not take it away.                                      *)
LiveLeaseKept ==
  [][\A t \in Tasks :
       status[t] = "running" /\ lease[t] >= 0 /\ status'[t] # "running"
         => CompleteTask(t) \/ \E r \in BOOLEAN : FailTask(t, r)]_queueVars
=============================================================================
