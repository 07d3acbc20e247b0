-------------------------- MODULE WorkerPoolProofs --------------------------
(***************************************************************************)
(* Proofs about TaskQueue and WorkerPool, for every set of tasks, every    *)
(* finite set of workers, every lease and every number of retries.         *)
(*                                                                         *)
(* The queue's guarantees are proved of QueueSpec, that is of any callers. *)
(* The pool is then shown to implement QueueSpec, provided that dequeue is *)
(* one transaction, and inherits them.                                     *)
(***************************************************************************)
EXTENDS WorkerPool, FiniteSetTheorems, TLAPS

(* A running row has a worker and a lease, and a pending row has neither;   *)
(* with the types this is inductive. *)
QueueInv == QueueTypeOK /\ Recoverable

(* The empty table. *)
LEMMA QueueInitInv == QueueInit => QueueInv
  BY LeaseAssumption
  DEF QueueInit, QueueInv, QueueTypeOK, Recoverable, Statuses, NoLease

(* One lemma per operation: it keeps the types and the rows recoverable. *)
LEMMA EnqueueInv ==
  ASSUME QueueInv, NEW t \in Tasks, NEW d \in Nat, EnqueueTask(t, d)
  PROVE  QueueInv'
<1>1. Cardinality({u \in Tasks : status[u] # "none"}) \in Nat
  <2>1. IsFiniteSet({u \in Tasks : status[u] # "none"})
    BY TasksAssumption, FS_Subset
  <2> QED
    BY <2>1, FS_CardinalityType
<1>2. QueueTypeOK'
  BY <1>1 DEF QueueInv, QueueTypeOK, EnqueueTask, Statuses
<1>3. Recoverable'
  BY DEF QueueInv, QueueTypeOK, Recoverable, EnqueueTask, Statuses
<1> QED
  BY <1>2, <1>3 DEF QueueInv

LEMMA ClaimInv ==
  ASSUME QueueInv, NEW t \in Tasks, NEW w \in Workers, ClaimTask(w, t)
  PROVE  QueueInv'
  BY LeaseAssumption
  DEF QueueInv, QueueTypeOK, Recoverable, ClaimTask, Statuses, NoLease

LEMMA CompleteInv ==
  ASSUME QueueInv, NEW t \in Tasks, CompleteTask(t)
  PROVE  QueueInv'
  BY LeaseAssumption
  DEF QueueInv, QueueTypeOK, Recoverable, CompleteTask, Statuses, NoLease

LEMMA FailInv ==
  ASSUME QueueInv, NEW t \in Tasks, NEW r \in BOOLEAN, FailTask(t, r)
  PROVE  QueueInv'
<1> USE LeaseAssumption, RetriesAssumption
    DEF QueueInv, QueueTypeOK, Recoverable, Statuses, NoLease
<1>1. CASE RetryTask(t) /\ UNCHANGED <<delay, created>>
  BY <1>1 DEF RetryTask
<1>2. CASE FailForGood(t, r) /\ UNCHANGED <<delay, created>>
  <2>1. QueueTypeOK'
    BY <1>2 DEF FailForGood
  <2>2. Recoverable'
    BY <1>2 DEF FailForGood
  <2> QED
    BY <2>1, <2>2
<1> QED
  BY <1>1, <1>2 DEF FailTask

LEMMA RenewInv ==
  ASSUME QueueInv, NEW t \in Tasks, NEW d \in 0..LeaseTicks, RenewLease(t, d)
  PROVE  QueueInv'
  BY LeaseAssumption
  DEF QueueInv, QueueTypeOK, Recoverable, RenewLease, Statuses, NoLease

LEMMA ExpireInv ==
  ASSUME QueueInv, ExpireLeases
  PROVE  QueueInv'
  BY LeaseAssumption
  DEF QueueInv, QueueTypeOK, Recoverable, ExpireLeases, Expired, Statuses, NoLease

LEMMA QueueTickInv ==
  ASSUME QueueInv, QueueTick
  PROVE  QueueInv'
  BY LeaseAssumption
  DEF QueueInv, QueueTypeOK, Recoverable, QueueTick, Statuses, NoLease

(* Every step of the queue keeps the invariant. *)
LEMMA QueueStepInv == QueueInv /\ [QueueNext]_queueVars => QueueInv'
<1> SUFFICES ASSUME QueueInv, [QueueNext]_queueVars PROVE QueueInv'
  OBVIOUS
<1>1. ASSUME NEW t \in Tasks, Call(t) PROVE QueueInv'
  BY <1>1, DelaysAssumption, EnqueueInv, CompleteInv, FailInv, RenewInv DEF Call
<1>2. ASSUME NEW w \in Workers, NEW t \in Tasks, NEW S \in SUBSET Tasks,
             DequeueTask(w, S, t)
      PROVE  QueueInv'
  BY <1>2, ClaimInv DEF DequeueTask
<1>3. CASE UNCHANGED queueVars
  BY <1>3 DEF QueueInv, QueueTypeOK, Recoverable, queueVars
<1> QED
  BY <1>1, <1>2, <1>3, ExpireInv, QueueTickInv DEF QueueNext

(* Whatever the callers of the backend do, every running row can be found  *)
(* by expire_leases and every pending row belongs to nobody.               *)
THEOREM QueueRecoverable == QueueSpec => []Recoverable
<1>1. QueueInv => Recoverable
  BY DEF QueueInv
<1> QED
  BY <1>1, QueueInitInv, QueueStepInv, PTL DEF QueueSpec

-----------------------------------------------------------------------------
(* The action properties of the queue. *)

NoSteal(t) ==
  status[t] = "running" /\ status'[t] = "running" => worker'[t] = worker[t]

KeepsLiveLease(t) ==
  status[t] = "running" /\ lease[t] >= 0 /\ status'[t] # "running"
    => CompleteTask(t) \/ \E r \in BOOLEAN : FailTask(t, r)

(* A step that concerns row u leaves the status and worker of others alone. *)
LEMMA OtherRows ==
  ASSUME QueueInv, NEW t \in Tasks, NEW u \in Tasks, t # u,
         Call(u) \/ \E w \in Workers : ClaimTask(w, u)
  PROVE  status'[t] = status[t] /\ worker'[t] = worker[t]
  BY DEF QueueInv, QueueTypeOK, Call, ClaimTask, EnqueueTask, CompleteTask,
     FailTask, RetryTask, FailForGood, RenewLease

(* No step of the queue hands a running row to another worker. *)
LEMMA StepNoSteal ==
  ASSUME QueueInv, [QueueNext]_queueVars, NEW t \in Tasks
  PROVE  NoSteal(t)
<1> USE DEF NoSteal
<1>1. ASSUME NEW u \in Tasks, Call(u) PROVE NoSteal(t)
  <2>1. CASE u = t
    BY <1>1, <2>1
    DEF Call, QueueInv, QueueTypeOK, EnqueueTask, CompleteTask,
        FailTask, RetryTask, FailForGood, RenewLease
  <2> QED
    BY <1>1, <2>1, OtherRows
<1>2. ASSUME NEW w \in Workers, NEW u \in Tasks, NEW S \in SUBSET Tasks,
             DequeueTask(w, S, u)
      PROVE  NoSteal(t)
  <2>1. CASE u = t
    BY <1>2, <2>1 DEF DequeueTask, IsFirst, Available
  <2> QED
    BY <1>2, <2>1, OtherRows DEF DequeueTask
<1>3. CASE ExpireLeases
  BY <1>3 DEF ExpireLeases
<1>4. CASE QueueTick
  BY <1>4 DEF QueueTick
<1>5. CASE UNCHANGED queueVars
  BY <1>5 DEF queueVars
<1> QED
  BY <1>1, <1>2, <1>3, <1>4, <1>5 DEF QueueNext

(* Only a report for the row itself ends a lease that is running. *)
LEMMA StepKeepsLiveLease ==
  ASSUME QueueInv, [QueueNext]_queueVars, NEW t \in Tasks
  PROVE  KeepsLiveLease(t)
<1> USE DEF KeepsLiveLease
<1>1. ASSUME NEW u \in Tasks, Call(u) PROVE KeepsLiveLease(t)
  <2>1. CASE u = t
    <3>1. CASE \E d \in Delays : EnqueueTask(t, d)
      BY <3>1 DEF EnqueueTask
    <3>2. CASE \E d \in 0..LeaseTicks : RenewLease(t, d)
      BY <3>2 DEF RenewLease
    <3> QED
      BY <1>1, <2>1, <3>1, <3>2 DEF Call
  <2> QED
    BY <1>1, <2>1, OtherRows
<1>2. ASSUME NEW w \in Workers, NEW u \in Tasks, NEW S \in SUBSET Tasks,
             DequeueTask(w, S, u)
      PROVE  KeepsLiveLease(t)
  <2>1. CASE u = t
    BY <1>2, <2>1 DEF DequeueTask, ClaimTask, QueueInv, QueueTypeOK
  <2> QED
    BY <1>2, <2>1, OtherRows DEF DequeueTask
<1>3. CASE ExpireLeases
  BY <1>3 DEF ExpireLeases, Expired, QueueInv, QueueTypeOK
<1>4. CASE QueueTick
  BY <1>4 DEF QueueTick
<1>5. CASE UNCHANGED queueVars
  BY <1>5 DEF queueVars
<1> QED
  BY <1>1, <1>2, <1>3, <1>4, <1>5 DEF QueueNext

(* Under any callers, a row that is running is never handed to a second    *)
(* worker by dequeue_task.                                                 *)
THEOREM QueueNeverSteals == QueueSpec => ClaimNeverSteals
<1>1. QueueInv /\ [QueueNext]_queueVars
        => [\A t \in Tasks :
              status[t] = "running" /\ status'[t] = "running"
                => worker'[t] = worker[t]]_queueVars
  BY StepNoSteal DEF NoSteal
<1> QED
  BY <1>1, QueueInitInv, QueueStepInv, PTL DEF QueueSpec, ClaimNeverSteals

(* Under any callers, a task whose lease has not run out leaves its worker *)
(* only by complete_task or fail_task of that task.                        *)
THEOREM QueueKeepsLiveLease == QueueSpec => LiveLeaseKept
<1>1. QueueInv /\ [QueueNext]_queueVars
        => [\A t \in Tasks :
              status[t] = "running" /\ lease[t] >= 0 /\ status'[t] # "running"
                => CompleteTask(t) \/ \E r \in BOOLEAN : FailTask(t, r)]_queueVars
  BY StepKeepsLiveLease DEF KeepsLiveLease
<1> QED
  BY <1>1, QueueInitInv, QueueStepInv, PTL DEF QueueSpec, LiveLeaseKept

-----------------------------------------------------------------------------
(* The pool. *)

(* Every queue index a worker can come to is one of its queues. *)
LEMMA CandidatesAreTasks ==
  ASSUME NEW w \in Workers, queue[w] \in 1..Len(Accepts[w])
  PROVE  Candidates(w) \in SUBSET Tasks
  BY AcceptsAssumption DEF Candidates

LEMMA HalfLease == LeaseTicks \div 2 \in 0..LeaseTicks
  BY LeaseAssumption

(* What the workers must keep for their calls to be calls of the queue: a   *)
(* worker past its claim has a task, and no worker is between the two       *)
(* statements of a dequeue that is one transaction.                         *)
WorkerInv ==
  /\ pc \in [Workers -> PCs]
  /\ task \in [Workers -> Tasks \cup {NoTask}]
  /\ \A w \in Workers : Busy(w) \/ pc[w] = "selected" => task[w] \in Tasks
  /\ ~Autocommit => \A w \in Workers : pc[w] # "selected"

IndexInv ==
  /\ queue \in [Workers -> Nat]
  /\ \A w \in Workers : queue[w] \in 1..Len(Accepts[w])

LEMMA InitWorkerInv == Init => WorkerInv /\ IndexInv
<1> SUFFICES ASSUME Init PROVE WorkerInv /\ IndexInv
  OBVIOUS
<1>1. \A w \in Workers : 1 \in 1..Len(Accepts[w])
  BY AcceptsAssumption
<1>2. WorkerInv
  BY DEF Init, WorkerInv, PCs, Busy
<1>3. IndexInv
  BY <1>1 DEF Init, IndexInv
<1> QED
  BY <1>2, <1>3

(* The steps of worker w, main thread first. *)
Step(w) ==
  \/ MainStep(w) \/ LeaseStep(w)
  \/ Start(w) \/ Stop(w) \/ StopReturn(w) \/ Pause(w) \/ Resume(w)
  \/ Crash(w)

LEMMA IndexStep == IndexInv /\ [Next]_vars => IndexInv'
<1> SUFFICES ASSUME IndexInv, [Next]_vars PROVE IndexInv'
  OBVIOUS
<1> USE DEF IndexInv
<1>0. \A w \in Workers : Len(Accepts[w]) \in Nat /\ 1 \in 1..Len(Accepts[w])
  BY AcceptsAssumption
<1>1. ASSUME NEW w \in Workers, Step(w) PROVE IndexInv'
  <2>1. CASE LoopTop(w)
    BY <1>0, <2>1 DEF LoopTop
  <2>2. CASE Poll(w)
    BY <1>0, <2>2 DEF Poll, NothingFound
  <2>3. CASE Crash(w)
    BY <1>0, <2>3 DEF Crash
  <2>4. CASE UNCHANGED queue
    BY <2>4
  <2> QED
    BY <1>1, <2>1, <2>2, <2>3, <2>4
    DEF Step, MainStep, LeaseStep, Claim, Begin, Handle, Report, LeaseLoop,
        Renew, Start, Stop, StopReturn, Pause, Resume
<1> QED
  BY <1>1 DEF Next, Step, Enqueue, Expire, Tick, workerVars, vars

LEMMA WorkerStep == WorkerInv /\ IndexInv /\ [Next]_vars => WorkerInv'
<1> SUFFICES ASSUME WorkerInv, IndexInv, [Next]_vars PROVE WorkerInv'
  OBVIOUS
<1> USE DEF WorkerInv, Busy, PCs
<1>1. ASSUME NEW w \in Workers, Step(w) PROVE WorkerInv'
  <2>1. CASE LoopTop(w)
    BY <2>1 DEF LoopTop
  <2>2. CASE Poll(w)
    <3>1. Candidates(w) \in SUBSET Tasks
      BY CandidatesAreTasks DEF IndexInv
    <3>2. CASE NothingFound(w)
      BY <2>2, <3>2 DEF NothingFound
    <3>3. ASSUME NEW t \in Candidates(w), Select(w, Candidates(w), t),
                 task' = [task EXCEPT ![w] = t]
          PROVE  WorkerInv'
      BY <3>1, <3>3 DEF Select
    <3> QED
      BY <2>2, <3>2, <3>3 DEF Poll
  <2>3. CASE Claim(w)
    BY <2>3 DEF Claim
  <2>4. CASE Begin(w)
    BY <2>4 DEF Begin
  <2>5. CASE Handle(w)
    BY <2>5 DEF Handle
  <2>6. CASE Report(w)
    BY <2>6 DEF Report
  <2>7. CASE Start(w)
    BY <2>7 DEF Start
  <2>8. CASE Crash(w)
    BY <2>8 DEF Crash
  <2>9. CASE UNCHANGED <<pc, task>>
    BY <2>9
  <2> QED
    BY <1>1, <2>1, <2>2, <2>3, <2>4, <2>5, <2>6, <2>7, <2>8, <2>9
    DEF Step, MainStep, LeaseStep, LeaseLoop, Renew, Stop, StopReturn, Pause, Resume
<1>2. CASE UNCHANGED <<pc, task>>
  BY <1>2
<1> QED
  BY <1>1, <1>2 DEF Next, Step, Enqueue, Expire, Tick, workerVars, vars

(* Every step of the pool is a step of the queue or leaves the table alone. *)
LEMMA StepSimulation ==
  ~Autocommit /\ WorkerInv /\ IndexInv /\ [Next]_vars => [QueueNext]_queueVars
<1> SUFFICES ASSUME ~Autocommit, WorkerInv, IndexInv, [Next]_vars
             PROVE  [QueueNext]_queueVars
  OBVIOUS
<1>1. ASSUME NEW w \in Workers, Step(w) PROVE [QueueNext]_queueVars
  <2>1. CASE Poll(w)
    <3>1. Candidates(w) \in SUBSET Tasks
      BY CandidatesAreTasks DEF IndexInv
    <3>2. ASSUME NEW t \in Candidates(w), DequeueTask(w, Candidates(w), t)
          PROVE  QueueNext
      BY <3>1, <3>2 DEF QueueNext
    <3> QED
      BY <2>1, <3>2 DEF Poll, Select
  <2>2. CASE Claim(w)
    BY <2>2 DEF Claim, WorkerInv
  <2>3. CASE Report(w)
    <3>1. ASSUME pc[w] \in {"succeeded", "raised"} PROVE task[w] \in Tasks
      BY <3>1 DEF WorkerInv, Busy
    <3> QED
      BY <2>3, <3>1 DEF Report, QueueNext, Call
  <2>4. CASE Renew(w)
    BY <2>4, HalfLease DEF Renew, QueueNext, Call
  <2>5. CASE UNCHANGED queueVars
    BY <2>5
  <2> QED
    BY <1>1, <2>1, <2>2, <2>3, <2>4, <2>5
    DEF Step, MainStep, LeaseStep, LoopTop, Begin, Handle, LeaseLoop,
        Start, Stop, StopReturn, Pause, Resume, Crash
<1>2. ASSUME NEW t \in Tasks, Enqueue(t) PROVE [QueueNext]_queueVars
  BY <1>2 DEF Enqueue, QueueNext, Call
<1> QED
  BY <1>1, <1>2 DEF Next, Step, Expire, Tick, QueueNext, vars

(* The workers, their callers, crashes and lost answers do nothing to the  *)
(* task table that calls of the queue would not do, if dequeue is one      *)
(* transaction.                                                            *)
THEOREM PoolImplementsQueue == ~Autocommit => (Spec => ImplementsQueue)
<1> SUFFICES ASSUME ~Autocommit PROVE Spec => ImplementsQueue
  OBVIOUS
<1>1. Init => QueueInit
  BY DEF Init
<1>2. WorkerInv /\ IndexInv /\ [Next]_vars => [QueueNext]_queueVars
  BY StepSimulation
<1> QED
  BY <1>1, <1>2, InitWorkerInv, IndexStep, WorkerStep, PTL
  DEF Spec, ImplementsQueue, QueueSpec

(* So the pool never loses sight of a task, never has a running task taken  *)
(* by a second worker, and ends a live lease only by a report.              *)
THEOREM PoolKeepsTasks ==
  ~Autocommit => (Spec => []Recoverable /\ ClaimNeverSteals /\ LiveLeaseKept)
<1> SUFFICES ASSUME ~Autocommit
             PROVE  Spec => []Recoverable /\ ClaimNeverSteals /\ LiveLeaseKept
  OBVIOUS
<1>1. Spec => QueueSpec
  BY PoolImplementsQueue DEF ImplementsQueue
<1> QED
  BY <1>1, QueueRecoverable, QueueNeverSteals, QueueKeepsLiveLease, PTL

-----------------------------------------------------------------------------
(* The types of what the processes keep. *)
LocalOK ==
  /\ state \in [Workers -> States]
  /\ current \in [Workers -> Tasks \cup {NoTask}]
  /\ renew \in [Workers -> Tasks \cup {"off", "idle"}]
  /\ faults \in 0..MaxFaults

FlagsOK ==
  /\ stop \in [Workers -> BOOLEAN]
  /\ stopping \in [Workers -> BOOLEAN]

LEMMA LocalStep == WorkerInv /\ LocalOK /\ [Next]_vars => LocalOK'
<1> SUFFICES ASSUME WorkerInv, LocalOK, [Next]_vars PROVE LocalOK'
  OBVIOUS
<1> USE FaultsAssumption DEF LocalOK, States, Fault
<1>1. ASSUME NEW w \in Workers, MainStep(w) PROVE LocalOK'
  <2>1. CASE LoopTop(w)
    BY <2>1 DEF LoopTop
  <2>2. CASE Poll(w)
    BY <2>2 DEF Poll, NothingFound
  <2>3. CASE Claim(w) \/ Handle(w)
    BY <2>3 DEF Claim, Handle
  <2>4. CASE Begin(w)
    BY <2>4 DEF Begin, WorkerInv
  <2>5. CASE Report(w)
    <3>1. faults' \in 0..MaxFaults
      <4>1. faults' = faults \/ Fault
        BY <2>5, Zenon DEF Report
      <4> QED
        BY <4>1
    <3>2. /\ current' = [current EXCEPT ![w] = NoTask]
          /\ UNCHANGED <<state, renew>>
      BY <2>5, Zenon DEF Report
    <3> QED
      BY <3>1, <3>2
  <2> QED
    BY <1>1, <2>1, <2>2, <2>3, <2>4, <2>5 DEF MainStep
<1>2. ASSUME NEW w \in Workers, LeaseStep(w) PROVE LocalOK'
  BY <1>2 DEF LeaseStep, LeaseLoop, Renew
<1>3. ASSUME NEW w \in Workers,
             Start(w) \/ Stop(w) \/ StopReturn(w) \/ Pause(w) \/ Resume(w)
      PROVE  LocalOK'
  BY <1>3 DEF Start, Stop, StopReturn, Pause, Resume
<1>4. ASSUME NEW w \in Workers, Crash(w) PROVE LocalOK'
  BY <1>4 DEF Crash
<1> QED
  BY <1>1, <1>2, <1>3, <1>4 DEF Next, Enqueue, Expire, Tick, workerVars, vars

LEMMA FlagsStep == FlagsOK /\ [Next]_vars => FlagsOK'
<1> SUFFICES ASSUME FlagsOK, [Next]_vars PROVE FlagsOK'
  OBVIOUS
<1> USE DEF FlagsOK
<1>1. ASSUME NEW w \in Workers, Step(w) PROVE FlagsOK'
  <2>1. CASE Start(w)
    BY <2>1 DEF Start
  <2>2. CASE Stop(w)
    BY <2>2 DEF Stop
  <2>3. CASE StopReturn(w)
    BY <2>3 DEF StopReturn
  <2>4. CASE Pause(w)
    BY <2>4 DEF Pause
  <2>5. CASE Resume(w)
    BY <2>5 DEF Resume
  <2>6. CASE Crash(w)
    BY <2>6 DEF Crash
  <2>7. CASE UNCHANGED <<stop, stopping>>
    BY <2>7
  <2> QED
    BY <1>1, <2>1, <2>2, <2>3, <2>4, <2>5, <2>6, <2>7
    DEF Step, MainStep, LeaseStep, LoopTop, Poll, Claim, Begin, Handle, Report,
        LeaseLoop, Renew
<1> QED
  BY <1>1 DEF Next, Step, Enqueue, Expire, Tick, workerVars, vars

LEMMA InitTypes == Init => QueueInv /\ LocalOK /\ FlagsOK
<1> SUFFICES ASSUME Init PROVE QueueInv /\ LocalOK /\ FlagsOK
  OBVIOUS
<1>1. QueueInv
  BY QueueInitInv DEF Init
<1>2. LocalOK
  BY FaultsAssumption DEF Init, LocalOK, States
<1>3. FlagsOK
  BY DEF Init, FlagsOK
<1> QED
  BY <1>1, <1>2, <1>3

PoolInv == QueueInv /\ WorkerInv /\ IndexInv /\ LocalOK /\ FlagsOK

LEMMA InitPoolInv == Init => PoolInv
  BY InitTypes, InitWorkerInv DEF PoolInv

LEMMA PoolStepInv == ~Autocommit /\ PoolInv /\ [Next]_vars => PoolInv'
  BY StepSimulation, QueueStepInv, WorkerStep, IndexStep, LocalStep, FlagsStep
  DEF PoolInv

(* Every variable of the pool keeps its type.  *)
THEOREM PoolTypeCorrect == ~Autocommit => (Spec => []TypeOK)
<1> SUFFICES ASSUME ~Autocommit PROVE Spec => []TypeOK
  OBVIOUS
<1>1. PoolInv /\ [Next]_vars => PoolInv'
  BY PoolStepInv
<1>2. PoolInv => TypeOK
  BY DEF PoolInv, QueueInv, WorkerInv, IndexInv, LocalOK, FlagsOK, TypeOK
<1> QED
  BY <1>1, <1>2, InitPoolInv, PTL DEF Spec

-----------------------------------------------------------------------------
(* Retries are bounded. *)

Holders(t) == {w \in Workers : Busy(w) /\ task[w] = t}

(* A row whose retries are used up is never claimed again, so that each     *)
(* worker that still holds it can count one more refused retry, and no      *)
(* other can. *)
UsedUp(t) ==
  retries[t] > MaxRetries
    => /\ status[t] \in {"completed", "failed"}
       /\ retries[t] + Cardinality(Holders(t)) <= MaxRetries + Cardinality(Workers)

LEMMA HoldersFinite ==
  ASSUME NEW t
  PROVE  /\ IsFiniteSet(Holders(t))
         /\ Cardinality(Holders(t)) \in Nat
         /\ Cardinality(Workers) \in Nat
         /\ Cardinality(Holders(t)) <= Cardinality(Workers)
<1>1. Holders(t) \subseteq Workers
  BY DEF Holders
<1> QED
  BY <1>1, WorkersFinite, FS_Subset, FS_CardinalityType

(* Fewer holders, the same retries and a row that stays finished. *)
LEMMA UsedUpKept ==
  ASSUME NEW t \in Tasks, QueueInv, UsedUp(t),
         retries'[t] = retries[t],
         retries[t] > MaxRetries =>
           /\ status'[t] \in {"completed", "failed"}
           /\ Holders(t)' \subseteq Holders(t)
  PROVE  UsedUp(t)'
<1> SUFFICES ASSUME retries[t] > MaxRetries
             PROVE  UsedUp(t)'
  BY DEF UsedUp
<1>1. Cardinality(Holders(t)') <= Cardinality(Holders(t)) /\ Cardinality(Holders(t)') \in Nat
  BY HoldersFinite, FS_Subset, FS_CardinalityType
<1> QED
  BY <1>1, HoldersFinite, RetriesAssumption DEF UsedUp, QueueInv, QueueTypeOK

(* The steps that leave every row's retries and finished status alone and   *)
(* give no finished row a new holder. *)
Quiet(t) ==
  /\ retries'[t] = retries[t]
  /\ status[t] \in {"completed", "failed"} =>
       /\ status'[t] \in {"completed", "failed"}
       /\ Holders(t)' \subseteq Holders(t)

LEMMA QuietKeepsUsedUp ==
  ASSUME NEW t \in Tasks, QueueInv, UsedUp(t), Quiet(t)
  PROVE  UsedUp(t)'
  BY UsedUpKept DEF Quiet, UsedUp

(* A dequeue concerns a pending row only. *)
LEMMA DequeueQuiet ==
  ASSUME NEW t \in Tasks, NEW u \in Tasks, NEW w \in Workers, NEW S \in SUBSET Tasks,
         QueueInv, DequeueTask(w, S, u)
  PROVE  /\ retries'[t] = retries[t]
         /\ status[t] \in {"completed", "failed"} => status'[t] = status[t] /\ t # u
  BY DEF DequeueTask, ClaimTask, IsFirst, Available, QueueInv, QueueTypeOK

(* A report takes its worker out of the holders of its task. *)
LEMMA ReportHolders ==
  ASSUME NEW t \in Tasks, NEW w \in Workers, WorkerInv, Report(w)
  PROVE  /\ Holders(t)' = Holders(t) \ {w}
         /\ task[w] \in Tasks
         /\ w \in Holders(task[w])
<1>1. /\ pc[w] \in {"succeeded", "raised"}
      /\ pc' = [pc EXCEPT ![w] = "loop"]
      /\ task' = [task EXCEPT ![w] = NoTask]
  BY Zenon DEF Report
<1>2. w \in Holders(task[w]) /\ task[w] \in Tasks
  BY <1>1 DEF Holders, Busy, WorkerInv
<1>3. \A v \in Workers : v \in Holders(t)' <=> v # w /\ v \in Holders(t)
  BY <1>1 DEF Holders, Busy, WorkerInv
<1>4. Holders(t)' \subseteq Workers /\ Holders(t) \subseteq Workers
  BY DEF Holders
<1> QED
  BY <1>2, <1>3, <1>4

(* fail_task of the task that worker w reports. *)
LEMMA FailKeepsUsedUp ==
  ASSUME NEW t \in Tasks, NEW w \in Workers, QueueInv, WorkerInv, UsedUp(t),
         Report(w), FailTask(task[w], TRUE)
  PROVE  UsedUp(t)'
<1>0. task[w] \in Tasks /\ Holders(t)' = Holders(t) \ {w}
  BY ReportHolders
<1>1. CASE t # task[w]
  <2>1. retries'[t] = retries[t] /\ status'[t] = status[t]
    BY <1>0, <1>1 DEF FailTask, RetryTask, FailForGood, QueueInv, QueueTypeOK
  <2> QED
    BY <1>0, <2>1, QuietKeepsUsedUp DEF Quiet
<1>2. CASE t = task[w] /\ retries[t] < MaxRetries
  <2>1. retries'[t] = retries[t] + 1
    BY <1>0, <1>2 DEF FailTask, RetryTask, QueueInv, QueueTypeOK
  <2> QED
    BY <1>2, <2>1, RetriesAssumption DEF UsedUp, QueueInv, QueueTypeOK
<1>3. CASE t = task[w] /\ ~(retries[t] < MaxRetries)
  <2>1. /\ status'[t] = "failed"
        /\ retries'[t] \in {retries[t], retries[t] + 1}
    BY <1>0, <1>3 DEF FailTask, FailForGood, QueueInv, QueueTypeOK
  <2>2. /\ Cardinality(Holders(t)') = Cardinality(Holders(t)) - 1
        /\ Cardinality(Holders(t)') \in Nat
    <3>1. w \in Holders(t) /\ IsFiniteSet(Holders(t))
      BY <1>3, ReportHolders, HoldersFinite
    <3>2. Cardinality(Holders(t) \ {w}) = Cardinality(Holders(t)) - 1
      BY <3>1, FS_RemoveElement
    <3>3. IsFiniteSet(Holders(t) \ {w})
      BY <3>1, FS_RemoveElement
    <3> QED
      BY <1>0, <3>2, <3>3, FS_CardinalityType
  <2>3. retries[t] + Cardinality(Holders(t)) <= MaxRetries + Cardinality(Workers)
    BY <1>3, HoldersFinite, RetriesAssumption DEF UsedUp, QueueInv, QueueTypeOK
  <2> QED
    BY <2>1, <2>2, <2>3, HoldersFinite, RetriesAssumption
    DEF UsedUp, QueueInv, QueueTypeOK
<1> QED
  BY <1>1, <1>2, <1>3

(* A step of worker w that touches neither the queue nor makes w a holder. *)
LEMMA LocalQuiet ==
  ASSUME NEW t \in Tasks, NEW w \in Workers, WorkerInv, UNCHANGED queueVars,
         \/ pc' = pc /\ task' = task
         \/ \E l \in {"off", "loop", "poll", "exec", "succeeded", "raised"} :
              /\ pc' = [pc EXCEPT ![w] = l]
              /\ \/ task' = task /\ (Busy(w) \/ l \in {"off", "loop", "poll"})
                 \/ task' = [task EXCEPT ![w] = NoTask] /\ l \in {"off", "loop"}
  PROVE  Quiet(t)
<1>1. \A v \in Workers : v \in Holders(t)' => v \in Holders(t)
  BY DEF Holders, Busy, WorkerInv
<1>2. Holders(t)' \subseteq Workers
  BY DEF Holders
<1> QED
  BY <1>1, <1>2 DEF Quiet, queueVars

(* Every step keeps the bound. *)
LEMMA UsedUpStep ==
  ASSUME ~Autocommit, PoolInv, [Next]_vars, NEW t \in Tasks, UsedUp(t)
  PROVE  UsedUp(t)'
<1> USE DEF PoolInv
<1>1. ASSUME NEW w \in Workers, Step(w) PROVE UsedUp(t)'
  <2>1. CASE Poll(w)
    <3>1. Candidates(w) \in SUBSET Tasks
      BY CandidatesAreTasks DEF IndexInv
    <3>2. ASSUME NothingFound(w), UNCHANGED queueVars PROVE UsedUp(t)'
      <4>1. task' = task /\ (pc' = pc \/ pc' = [pc EXCEPT ![w] = "loop"])
        BY <2>1, <3>2 DEF Poll, NothingFound
      <4> QED
        BY <3>2, <4>1, LocalQuiet, QuietKeepsUsedUp
    <3>3. ASSUME NEW u \in Candidates(w), DequeueTask(w, Candidates(w), u),
                 \/ NothingFound(w)
                 \/ /\ pc' = [pc EXCEPT ![w] = "claimed"]
                    /\ task' = [task EXCEPT ![w] = u]
          PROVE  UsedUp(t)'
      <4>1. /\ retries'[t] = retries[t]
            /\ status[t] \in {"completed", "failed"} => status'[t] = status[t] /\ t # u
        BY <3>1, <3>3, DequeueQuiet
      <4>2. ASSUME t # u, NEW v \in Workers, v \in Holders(t)' PROVE v \in Holders(t)
        BY <3>3, <4>2 DEF NothingFound, Holders, Busy, WorkerInv
      <4>3. Holders(t)' \subseteq Workers
        BY DEF Holders
      <4> QED
        BY <4>1, <4>2, <4>3, QuietKeepsUsedUp DEF Quiet
    <3> QED
      BY <2>1, <3>2, <3>3 DEF Poll, Select
  <2>2. CASE Claim(w)
    BY <2>2 DEF Claim, WorkerInv
  <2>3. CASE Report(w)
    <3>1. CASE FailTask(task[w], TRUE)
      BY <2>3, <3>1, FailKeepsUsedUp
    <3>2. CASE CompleteTask(task[w]) \/ UNCHANGED queueVars
      <4>1. Holders(t)' \subseteq Holders(t) /\ task[w] \in Tasks
        BY <2>3, ReportHolders
      <4> QED
        BY <3>2, <4>1, QuietKeepsUsedUp
        DEF Quiet, CompleteTask, queueVars, QueueInv, QueueTypeOK
    <3> QED
      BY <2>3, <3>1, <3>2, Zenon DEF Report
  <2>4. CASE Renew(w)
    <3>1. pc' = pc /\ task' = task /\ status' = status /\ retries' = retries
      BY <2>4 DEF Renew, RenewLease, queueVars
    <3>2. Holders(t)' = Holders(t)
      BY <3>1 DEF Holders, Busy
    <3> QED
      BY <3>1, <3>2, QuietKeepsUsedUp DEF Quiet
  <2>5. CASE LoopTop(w) \/ Begin(w) \/ Handle(w) \/ Start(w) \/ Crash(w)
    <3>1. UNCHANGED queueVars
      BY <2>5 DEF LoopTop, Begin, Handle, Start, Crash
    <3>2. \E l \in {"off", "loop", "poll", "exec", "succeeded", "raised"} :
            /\ pc' = [pc EXCEPT ![w] = l]
            /\ \/ task' = task /\ (Busy(w) \/ l \in {"off", "loop", "poll"})
               \/ task' = [task EXCEPT ![w] = NoTask] /\ l \in {"off", "loop"}
      BY <2>5 DEF LoopTop, Begin, Handle, Start, Crash, Busy
    <3> QED
      BY <3>1, <3>2, LocalQuiet, QuietKeepsUsedUp
  <2>6. CASE UNCHANGED <<queueVars, pc, task>>
    BY <2>6, LocalQuiet, QuietKeepsUsedUp
  <2> QED
    BY <1>1, <2>1, <2>2, <2>3, <2>4, <2>5, <2>6
    DEF Step, MainStep, LeaseStep, LeaseLoop, Stop, StopReturn, Pause, Resume
<1>2. ASSUME UNCHANGED workerVars,
             \/ UNCHANGED queueVars \/ ExpireLeases \/ QueueTick
             \/ \E u \in Tasks : \E d \in Delays : EnqueueTask(u, d)
      PROVE  UsedUp(t)'
  <2>1. Holders(t)' = Holders(t)
    BY <1>2 DEF workerVars, Holders, Busy
  <2>2. /\ retries'[t] = retries[t]
        /\ status[t] \in {"completed", "failed"} => status'[t] = status[t]
    BY <1>2 DEF queueVars, ExpireLeases, Expired, QueueTick, EnqueueTask, QueueInv, QueueTypeOK
  <2> QED
    BY <2>1, <2>2, QuietKeepsUsedUp DEF Quiet
<1> QED
  BY <1>1, <1>2 DEF Next, Step, Enqueue, Expire, Tick, vars

(* However many workers report late, crash or lose answers, fail_task       *)
(* counts at most max_retries retries and one refused retry per worker, if  *)
(* dequeue is one transaction.                                              *)
THEOREM PoolRetriesBounded == ~Autocommit => (Spec => []RetriesBounded)
<1> SUFFICES ASSUME ~Autocommit PROVE Spec => []RetriesBounded
  OBVIOUS
<1> DEFINE Inv == PoolInv /\ \A t \in Tasks : UsedUp(t)
<1>1. Init => Inv
  <2>1. Init => \A t \in Tasks : UsedUp(t)
    BY RetriesAssumption DEF Init, QueueInit, UsedUp
  <2> QED
    BY <2>1, InitPoolInv
<1>2. Inv /\ [Next]_vars => Inv'
  BY PoolStepInv, UsedUpStep
<1>3. Inv => RetriesBounded
  <2> SUFFICES ASSUME PoolInv, NEW t \in Tasks, UsedUp(t)
               PROVE  retries[t] <= MaxRetries + Cardinality(Workers)
    BY DEF RetriesBounded
  <2>1. Cardinality(Holders(t)) \in Nat /\ Cardinality(Workers) \in Nat
    BY HoldersFinite
  <2>2. retries[t] \in Nat
    BY DEF PoolInv, QueueInv, QueueTypeOK
  <2> QED
    BY <2>1, <2>2, RetriesAssumption DEF UsedUp
<1> QED
  BY <1>1, <1>2, <1>3, PTL DEF Spec
=============================================================================
