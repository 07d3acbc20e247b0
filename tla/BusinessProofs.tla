---------------------------- MODULE BusinessProofs ----------------------------
(***************************************************************************)
(* Theorems about the business processes: the saga coordinator, the        *)
(* workflow engine, the subscription of a tenant and the approval of a     *)
(* request, each for every value of its constants.                         *)
(***************************************************************************)
EXTENDS SagaCoordinator, WorkflowEngine, SubscriptionBilling, ApprovalChain,
        FiniteSetTheorems, TLAPS

-----------------------------------------------------------------------------
(***************************************************************************)
(* SagaCoordinator, for every number of steps and workers and any number   *)
(* of repeated deliveries and lost answers.                                *)
(*                                                                         *)
(* StepsInOrder is not inductive: a report in flight also has to stand for *)
(* an execution that had the outcome it reports, and to be on the branch   *)
(* that this outcome selects.                                              *)
(***************************************************************************)
Prefix(i) == \A j \in 1..(i - 1) : Succeeded(j)

Reporting == {"report", "update", "mark", "enqueue", "finish", "compensating", "compensate"}

(* The step a process works on has been reached, and its report is true. *)
ProcInv(p) ==
  /\ mine[p] # 0 => Prefix(mine[p])
  /\ pc[p] = "exec" => mine[p] # 0
  /\ p # Starter /\ pc[p] \in Reporting => mine[p] # 0 /\ result[p] \in outcomes[mine[p]]
  /\ p # Starter /\ pc[p] \in {"mark", "enqueue"} => result[p] = "ok" /\ mine[p] < N
  /\ pc[p] = "finish" => result[p] = "ok" /\ mine[p] = N
  /\ pc[p] \in {"compensating", "compensate"} => result[p] = "error"

StepInv(i) == queued[i] > 0 \/ outcomes[i] # {} => Prefix(i)

StarterInv ==
  /\ mine[Starter] = 0
  /\ pc[Starter] \in {"new", "created", "mark", "enqueue", "done"}

SagaInv ==
  /\ TypeOK
  /\ StarterInv
  /\ \A p \in Procs : ProcInv(p)
  /\ \A i \in Steps : StepInv(i)
  /\ CompletedMeansDone
  /\ RollbackHasCause

(* Nothing has been dispatched yet. *)
LEMMA InitSagaInv == Init => SagaInv
  BY NAssumption, ReportersAssumption, BoundsAssumption
  DEF Init, SagaInv, TypeOK, StarterInv, ProcInv, StepInv, CompletedMeansDone,
      RollbackHasCause, Steps, Procs, SagaStatuses, StepStatuses, Results, PCs, Reporting

(* Outcomes are only ever added, so a prefix that is done stays done. *)
Grows == \A i \in Steps : outcomes[i] \subseteq outcomes'[i]

LEMMA PrefixKept ==
  ASSUME Grows, NEW i \in 0..(N + 1), Prefix(i)
  PROVE  Prefix(i)'
  BY NAssumption DEF Grows, Prefix, Succeeded, Steps

(* The history, the row and the queue. *)
LEMMA CompletedKept ==
  ASSUME CompletedMeansDone, Grows, saga' # "COMPLETED" \/ saga' = saga
  PROVE  CompletedMeansDone'
  BY DEF CompletedMeansDone, Grows, Succeeded, Steps

LEMMA RollbackKept ==
  ASSUME RollbackHasCause, Grows,
         saga' \notin {"COMPENSATING", "COMPENSATED"} \/ saga' = saga
  PROVE  RollbackHasCause'
  BY NAssumption DEF RollbackHasCause, Grows, Succeeded, Steps

(* A process that does not move keeps its part of the invariant. *)
LEMMA OtherProc ==
  ASSUME TypeOK, Grows, NEW p \in Procs, ProcInv(p),
         pc'[p] = pc[p], mine'[p] = mine[p], result'[p] = result[p]
  PROVE  ProcInv(p)'
<1>1. mine[p] \in 0..N
  BY DEF TypeOK
<1>2. mine[p] # 0 => Prefix(mine[p])'
  BY <1>1, PrefixKept, NAssumption DEF ProcInv
<1>3. mine[p] # 0 => outcomes[mine[p]] \subseteq outcomes'[mine[p]]
  BY <1>1, NAssumption DEF Grows, Steps
<1> QED
  BY <1>1, <1>2, <1>3 DEF ProcInv, Prefix

-----------------------------------------------------------------------------
(* Types *)

Moves(p) ==
  /\ pc' \in [Procs -> PCs]
  /\ mine' \in [Procs -> 0..N]
  /\ result' \in [Procs -> Results]
  /\ \A q \in Procs \ {p} : pc'[q] = pc[q] /\ mine'[q] = mine[q] /\ result'[q] = result[q]

LEMMA GotoMoves ==
  ASSUME TypeOK, NEW p \in Procs, NEW l \in PCs, Goto(p, l)
  PROVE  Moves(p) /\ pc'[p] = l /\ mine' = mine /\ result' = result
  BY DEF TypeOK, Goto, Moves

LEMMA ReturnMoves ==
  ASSUME TypeOK, NEW p \in Procs, Return(p)
  PROVE  /\ Moves(p)
         /\ mine'[p] = 0
         /\ pc'[p] = IF p = Starter THEN "done" ELSE "idle"
  BY NAssumption DEF TypeOK, Return, Moves, PCs, Results

(* One step of a process, and what it may do to the shared state. *)
LEMMA Assemble ==
  ASSUME SagaInv, NEW p \in Procs, Moves(p), Grows, TypeOK', ProcInv(p)',
         p = Starter => StarterInv',
         \A i \in Steps : StepInv(i)',
         CompletedMeansDone', RollbackHasCause'
  PROVE  SagaInv'
<1>1. ASSUME NEW q \in Procs PROVE ProcInv(q)'
  <2>1. CASE q = p
    BY <2>1
  <2>2. CASE q # p
    BY <2>2, OtherProc DEF SagaInv, Moves
  <2> QED
    BY <2>1, <2>2
<1>2. StarterInv'
  BY DEF SagaInv, StarterInv, Moves, Procs
<1> QED
  BY <1>1, <1>2 DEF SagaInv

(* The queue and the history stay as they are. *)
LEMMA SameSteps ==
  ASSUME SagaInv, UNCHANGED <<queued, outcomes>>
  PROVE  Grows /\ \A i \in Steps : StepInv(i)'
  BY DEF SagaInv, Grows, StepInv, Prefix, Succeeded

LEMMA ReturnInv ==
  ASSUME TypeOK, NEW p \in Procs, Return(p)
  PROVE  ProcInv(p)' /\ (p = Starter => StarterInv')
  BY ReturnMoves DEF ProcInv, StarterInv, Reporting

-----------------------------------------------------------------------------
(* One lemma per action. *)

LEMMA CreateSagaInv == ASSUME SagaInv, CreateSaga PROVE SagaInv'
<1>1. Starter \in Procs /\ TypeOK
  BY DEF Procs, SagaInv
<1>2. Moves(Starter) /\ ProcInv(Starter)' /\ StarterInv'
  <2>1. CASE Return(Starter)
    BY <1>1, <2>1, ReturnMoves, ReturnInv
  <2>2. CASE Goto(Starter, "created")
    <3>1. "created" \in PCs
      BY DEF PCs
    <3>2. Moves(Starter) /\ pc'[Starter] = "created" /\ mine' = mine
      BY <1>1, <2>2, <3>1, GotoMoves
    <3> QED
      BY <3>2 DEF SagaInv, StarterInv, ProcInv
  <2> QED
    BY <2>1, <2>2 DEF CreateSaga
<1>3. /\ saga' \in {"none", "PENDING"}
      /\ UNCHANGED <<step, queued, outcomes, unhandled, redelivered>>
      /\ faults' \in 0..MaxFaults
  BY <1>1, BoundsAssumption DEF CreateSaga, Fault, TypeOK
<1>4. TypeOK'
  BY <1>1, <1>2, <1>3 DEF TypeOK, Moves, SagaStatuses
<1>5. CompletedMeansDone' /\ RollbackHasCause'
  BY <1>3 DEF CompletedMeansDone, RollbackHasCause
<1> QED
  BY <1>1, <1>2, <1>3, <1>4, <1>5, SameSteps, Assemble

(* A status that is written by a process that may write it. *)
LEMMA StatusInv ==
  ASSUME SagaInv, NEW p \in Procs, NEW s \in SagaStatuses, UpdateSagaStatus(s),
         Moves(p), ProcInv(p)', p = Starter => StarterInv',
         s = "COMPLETED" => \A i \in Steps : Succeeded(i),
         s \in {"COMPENSATING", "COMPENSATED"} =>
           \E i \in Steps : "error" \in outcomes[i] /\ Prefix(i)
  PROVE  SagaInv'
<1>1. /\ saga' \in {saga, s}
      /\ UNCHANGED <<step, queued, outcomes, unhandled, redelivered>>
      /\ faults' \in 0..MaxFaults
  BY BoundsAssumption DEF SagaInv, TypeOK, UpdateSagaStatus, Fault
<1>2. TypeOK'
  BY <1>1 DEF SagaInv, TypeOK, Moves
<1>3. CompletedMeansDone'
  BY <1>1 DEF SagaInv, CompletedMeansDone, Succeeded
<1>4. RollbackHasCause'
  BY <1>1 DEF SagaInv, RollbackHasCause, Prefix, Succeeded
<1> QED
  BY <1>1, <1>2, <1>3, <1>4, SameSteps, Assemble

LEMMA SetRunningInv == ASSUME SagaInv, SetRunning PROVE SagaInv'
<1>1. Starter \in Procs /\ TypeOK /\ "mark" \in PCs /\ "RUNNING" \in SagaStatuses
  BY DEF Procs, SagaInv, PCs, SagaStatuses
<1>2. Moves(Starter) /\ pc'[Starter] = "mark" /\ mine' = mine
  BY <1>1, GotoMoves DEF SetRunning
<1>3. ProcInv(Starter)' /\ StarterInv'
  BY <1>2 DEF SagaInv, StarterInv, ProcInv
<1> QED
  BY <1>1, <1>2, <1>3, StatusInv DEF SetRunning

(* Where a reporter is tells what it reports. *)
LEMMA AtReport ==
  ASSUME SagaInv, NEW r \in Reporters
  PROVE  /\ r \in Procs /\ r # Starter /\ TypeOK
         /\ mine[r] \in 0..N
         /\ pc[r] \in Reporting \cup {"exec"} => mine[r] \in Steps
         /\ mine[r] \in Steps => Prefix(mine[r])
         /\ pc[r] \in Reporting => result[r] \in outcomes[mine[r]]
  BY ReportersAssumption, NAssumption DEF SagaInv, TypeOK, ProcInv, Procs, Steps, Reporting

LEMMA FinishInv == ASSUME SagaInv, NEW r \in Reporters, Finish(r) PROVE SagaInv'
<1>1. "COMPLETED" \in SagaStatuses
  BY DEF SagaStatuses
<1>2. Moves(r) /\ ProcInv(r)' /\ r # Starter /\ r \in Procs
  BY AtReport, ReturnMoves, ReturnInv DEF Finish
<1>3. \A i \in Steps : Succeeded(i)
  <2>1. mine[r] = N /\ result[r] = "ok" /\ "ok" \in outcomes[N] /\ Prefix(N)
    BY <1>2, AtReport, NAssumption DEF Finish, SagaInv, ProcInv, Reporting
  <2> QED
    BY <2>1, NAssumption DEF Prefix, Succeeded, Steps
<1> QED
  BY <1>1, <1>2, <1>3, StatusInv DEF Finish

LEMMA CompensationInv ==
  ASSUME SagaInv, NEW r \in Reporters, SetCompensating(r) \/ Compensate(r)
  PROVE  SagaInv'
<1>1. "COMPENSATING" \in SagaStatuses /\ "COMPENSATED" \in SagaStatuses /\ "compensate" \in PCs
  BY DEF SagaStatuses, PCs
<1>2. \E i \in Steps : "error" \in outcomes[i] /\ Prefix(i)
  <2>1. pc[r] \in {"compensating", "compensate"}
    BY DEF SetCompensating, Compensate
  <2>2. mine[r] \in Steps /\ "error" \in outcomes[mine[r]] /\ Prefix(mine[r])
    BY <2>1, AtReport DEF SagaInv, ProcInv, Reporting
  <2> QED
    BY <2>2
<1>3. CASE SetCompensating(r)
  <2>1. Moves(r) /\ pc'[r] = "compensate" /\ mine' = mine /\ result' = result
        /\ r # Starter /\ r \in Procs
    BY <1>1, <1>3, AtReport, GotoMoves DEF SetCompensating
  <2>2. outcomes' = outcomes
    BY <1>3 DEF SetCompensating, UpdateSagaStatus
  <2>3. ProcInv(r)'
    BY <1>3, <2>1, <2>2 DEF SetCompensating, SagaInv, ProcInv, Reporting, Prefix, Succeeded
  <2> QED
    BY <1>1, <1>2, <1>3, <2>1, <2>3, StatusInv DEF SetCompensating
<1>4. CASE Compensate(r)
  <2>1. Moves(r) /\ ProcInv(r)' /\ r # Starter /\ r \in Procs
    BY <1>4, AtReport, ReturnMoves, ReturnInv DEF Compensate
  <2> QED
    BY <1>1, <1>2, <1>4, <2>1, StatusInv DEF Compensate
<1> QED
  BY <1>3, <1>4

(* A row of a step is written, and the process moves on. *)
LEMMA StepRowInv ==
  ASSUME SagaInv, NEW p \in Procs, NEW i, NEW s \in StepStatuses, UpdateSagaStep(i, s),
         Moves(p), ProcInv(p)', p = Starter => StarterInv'
  PROVE  SagaInv'
<1>1. /\ UNCHANGED <<saga, queued, outcomes, unhandled, redelivered>>
      /\ faults' \in 0..MaxFaults
      /\ step' \in [Steps -> StepStatuses]
  BY BoundsAssumption DEF SagaInv, TypeOK, UpdateSagaStep, Fault
<1>2. TypeOK'
  BY <1>1 DEF SagaInv, TypeOK, Moves
<1>3. CompletedMeansDone' /\ RollbackHasCause'
  BY <1>1 DEF SagaInv, CompletedMeansDone, RollbackHasCause, Succeeded
<1> QED
  BY <1>1, <1>2, <1>3, SameSteps, Assemble

LEMMA MarkInv == ASSUME SagaInv, NEW p \in Procs, Mark(p) PROVE SagaInv'
<1>1. "enqueue" \in PCs /\ "RUNNING" \in StepStatuses /\ TypeOK
  BY DEF PCs, StepStatuses, SagaInv
<1>2. Moves(p) /\ pc'[p] = "enqueue" /\ mine' = mine /\ result' = result
  BY <1>1, GotoMoves DEF Mark
<1>3. outcomes' = outcomes
  BY DEF Mark, UpdateSagaStep
<1>4. ProcInv(p)' /\ (p = Starter => StarterInv')
  BY <1>2, <1>3 DEF Mark, SagaInv, StarterInv, ProcInv, Reporting, Prefix, Succeeded
<1> QED
  BY <1>1, <1>2, <1>4, StepRowInv DEF Mark

LEMMA UpdateStepInv == ASSUME SagaInv, NEW r \in Reporters, UpdateStep(r) PROVE SagaInv'
<1>1. NextLabel(r) \in PCs /\ {"COMPLETED", "FAILED"} \subseteq StepStatuses
  BY DEF PCs, StepStatuses, NextLabel
<1>2. /\ Moves(r) /\ pc'[r] = NextLabel(r) /\ mine' = mine /\ result' = result
      /\ r # Starter /\ r \in Procs
  BY <1>1, AtReport, GotoMoves DEF UpdateStep
<1>3. outcomes' = outcomes
  BY DEF UpdateStep, UpdateSagaStep
<1>4. /\ mine[r] \in Steps
      /\ Prefix(mine[r])
      /\ result[r] \in outcomes[mine[r]]
      /\ result[r] \in Results
  BY <1>2, AtReport DEF UpdateStep, Reporting, TypeOK
<1>5. ProcInv(r)'
  BY <1>2, <1>3, <1>4, NAssumption
  DEF NextLabel, ProcInv, Reporting, Prefix, Succeeded, Steps, Results
<1> QED
  BY <1>1, <1>2, <1>5, StepRowInv DEF UpdateStep

(* Tasks are put into the queue for steps that have been reached only. *)
LEMMA QueueInv ==
  ASSUME SagaInv, NEW p \in Procs, Moves(p), ProcInv(p)', p = Starter => StarterInv',
         queued' \in [Steps -> Nat],
         \A i \in Steps : queued'[i] > queued[i] => Prefix(i),
         unhandled' \subseteq Steps,
         redelivered' \in 0..MaxRedelivered, faults' \in 0..MaxFaults,
         UNCHANGED <<saga, step, outcomes>>
  PROVE  SagaInv'
<1>1. TypeOK'
  BY DEF SagaInv, TypeOK, Moves
<1>2. CompletedMeansDone' /\ RollbackHasCause'
  BY DEF SagaInv, CompletedMeansDone, RollbackHasCause, Succeeded
<1>3. ASSUME NEW i \in Steps PROVE StepInv(i)'
  BY DEF SagaInv, TypeOK, StepInv, Prefix, Succeeded
<1>4. Grows
  BY DEF Grows
<1> QED
  BY <1>1, <1>2, <1>3, <1>4, Assemble

LEMMA EnqueueInv == ASSUME SagaInv, NEW p \in Procs, Enqueue(p) PROVE SagaInv'
<1> DEFINE n == mine[p] + 1
<1>1. Moves(p) /\ ProcInv(p)' /\ (p = Starter => StarterInv')
  BY ReturnMoves, ReturnInv DEF Enqueue, SagaInv
<1>2. n \in Steps /\ Prefix(n)
  <2>1. CASE p = Starter
    BY <2>1, NAssumption DEF SagaInv, StarterInv, Steps, Prefix
  <2>2. CASE p # Starter
    <3>1. p \in Reporters
      BY <2>2 DEF Procs
    <3>2. mine[p] \in Steps /\ mine[p] < N /\ "ok" \in outcomes[mine[p]] /\ Prefix(mine[p])
      BY <2>2, <3>1, AtReport DEF Enqueue, SagaInv, ProcInv, Reporting
    <3> QED
      BY <3>2, NAssumption DEF Steps, Prefix, Succeeded
  <2> QED
    BY <2>1, <2>2
<1>3. p # Starter => mine[p] \in Steps /\ Prefix(mine[p])
  BY AtReport DEF Enqueue, Reporting, Procs
<1>4. /\ queued' \in [Steps -> Nat]
      /\ \A i \in Steps : queued'[i] > queued[i] => i = n \/ (p # Starter /\ i = mine[p])
  BY <1>2, <1>3 DEF Enqueue, SagaInv, TypeOK
<1>5. /\ UNCHANGED <<saga, step, outcomes, unhandled, redelivered>>
      /\ redelivered \in 0..MaxRedelivered /\ unhandled \subseteq Steps
      /\ faults' \in 0..MaxFaults
  BY BoundsAssumption DEF Enqueue, Fault, SagaInv, TypeOK
<1> QED
  BY <1>1, <1>2, <1>3, <1>4, <1>5, QueueInv

LEMMA DeliverInv ==
  ASSUME SagaInv, NEW r \in Reporters, NEW i \in Steps, Deliver(r, i)
  PROVE  SagaInv'
<1>1. r \in Procs /\ r # Starter /\ TypeOK /\ Prefix(i)
  BY AtReport DEF SagaInv, StepInv, Deliver
<1>2. Moves(r) /\ pc'[r] = "exec" /\ mine'[r] = i /\ outcomes' = outcomes
  BY <1>1, NAssumption DEF Deliver, TypeOK, Moves, PCs, Steps
<1>3. ProcInv(r)'
  BY <1>1, <1>2, NAssumption DEF ProcInv, Reporting, Prefix, Succeeded, Steps
<1>4. /\ queued' \in [Steps -> Nat]
      /\ \A j \in Steps : ~(queued'[j] > queued[j])
  BY <1>1 DEF Deliver, TypeOK
<1>5. /\ redelivered' \in 0..MaxRedelivered /\ faults' \in 0..MaxFaults
      /\ unhandled' \subseteq Steps
      /\ UNCHANGED <<saga, step, outcomes>>
  BY <1>1 DEF Deliver, TypeOK
<1> QED
  BY <1>1, <1>2, <1>3, <1>4, <1>5, QueueInv

LEMMA NoHandlerInv ==
  ASSUME SagaInv, NEW r \in Reporters, NEW i \in Steps, NoHandler(r, i)
  PROVE  SagaInv'
<1>1. r \in Procs /\ r # Starter /\ TypeOK
  BY AtReport
<1>2. UNCHANGED <<saga, step, pc, mine, result, outcomes, redelivered, faults>>
  BY DEF NoHandler
<1>3. Moves(r) /\ ProcInv(r)'
  BY <1>1, <1>2 DEF SagaInv, TypeOK, Moves, ProcInv, Prefix, Succeeded
<1>4. /\ queued' \in [Steps -> Nat] /\ \A j \in Steps : ~(queued'[j] > queued[j])
      /\ unhandled' \subseteq Steps
  BY <1>1 DEF NoHandler, TypeOK
<1> QED
  BY <1>1, <1>2, <1>3, <1>4, QueueInv DEF TypeOK

LEMMA ExecuteInv == ASSUME SagaInv, NEW r \in Reporters, Execute(r) PROVE SagaInv'
<1>1. /\ r \in Procs /\ r # Starter /\ TypeOK
      /\ mine[r] \in Steps /\ Prefix(mine[r])
  BY AtReport DEF Execute
<1>2. PICK x \in Results : /\ result' = [result EXCEPT ![r] = x]
                           /\ outcomes' = [outcomes EXCEPT ![mine[r]] = @ \cup {x}]
  BY DEF Execute
<1>3. Moves(r) /\ pc'[r] = "report" /\ mine' = mine /\ result'[r] = x
  BY <1>1, <1>2 DEF Execute, TypeOK, Moves, PCs
<1>4. Grows /\ outcomes' \in [Steps -> SUBSET Results] /\ x \in outcomes'[mine[r]]
  BY <1>1, <1>2 DEF TypeOK, Grows
<1>5. UNCHANGED <<saga, step, queued, unhandled, redelivered, faults>>
  BY DEF Execute, rows
<1>6. TypeOK'
  BY <1>1, <1>3, <1>4, <1>5 DEF TypeOK, Moves
<1>7. ASSUME NEW i \in Steps, Prefix(i) PROVE Prefix(i)'
  BY <1>4, <1>7, PrefixKept, NAssumption DEF Steps
<1>8. ProcInv(r)'
  <2>1. Prefix(mine[r])'
    BY <1>1, <1>3, <1>7 DEF Prefix
  <2> QED
    BY <1>1, <1>3, <1>4, <2>1, NAssumption DEF ProcInv, Reporting, Steps
<1>9. ASSUME NEW i \in Steps PROVE StepInv(i)'
  <2>1. queued'[i] > 0 \/ outcomes'[i] # {} => Prefix(i)
    BY <1>1, <1>2, <1>5 DEF SagaInv, StepInv, TypeOK
  <2> QED
    BY <2>1, <1>7 DEF StepInv
<1>10. CompletedMeansDone' /\ RollbackHasCause'
  BY <1>4, <1>5, CompletedKept, RollbackKept DEF SagaInv
<1> QED
  BY <1>1, <1>3, <1>4, <1>6, <1>8, <1>9, <1>10, Assemble

LEMMA GetSagaInv == ASSUME SagaInv, NEW r \in Reporters, GetSaga(r) PROVE SagaInv'
<1>1. r \in Procs /\ r # Starter /\ TypeOK /\ "update" \in PCs
  BY AtReport DEF PCs
<1>2. /\ UNCHANGED <<saga, step, queued, outcomes, unhandled, redelivered>>
      /\ faults' \in 0..MaxFaults
  BY <1>1, BoundsAssumption DEF GetSaga, rows, Fault, TypeOK
<1>3. Moves(r) /\ ProcInv(r)'
  <2>1. CASE Return(r)
    BY <1>1, <2>1, ReturnMoves, ReturnInv
  <2>2. CASE Goto(r, "update")
    <3>1. Moves(r) /\ pc'[r] = "update" /\ mine' = mine /\ result' = result
      BY <1>1, <2>2, GotoMoves
    <3> QED
      BY <1>1, <1>2, <3>1 DEF GetSaga, SagaInv, ProcInv, Reporting, Prefix, Succeeded
  <2> QED
    BY <2>1, <2>2 DEF GetSaga
<1>4. queued' \in [Steps -> Nat] /\ \A i \in Steps : ~(queued'[i] > queued[i])
  BY <1>1, <1>2 DEF TypeOK
<1> QED
  BY <1>1, <1>2, <1>3, <1>4, QueueInv DEF TypeOK

LEMMA RedeliverInv ==
  ASSUME SagaInv, NEW r \in Reporters, LeaseExpires(r) \/ Crash(r)
  PROVE  SagaInv'
<1>1. /\ r \in Procs /\ r # Starter /\ TypeOK
      /\ mine[r] \in Steps /\ Prefix(mine[r])
  BY AtReport, NAssumption DEF LeaseExpires, Crash, Redeliver, Steps
<1>2. Redeliver(r)
  BY DEF LeaseExpires, Crash
<1>3. Moves(r) /\ ProcInv(r)'
  <2>1. CASE Return(r)
    BY <1>1, <2>1, ReturnMoves, ReturnInv
  <2>2. CASE UNCHANGED <<pc, mine, result>>
    <3>1. outcomes' = outcomes
      BY <1>2 DEF Redeliver
    <3> QED
      BY <1>1, <2>2, <3>1 DEF SagaInv, TypeOK, Moves, ProcInv, Prefix, Succeeded
  <2> QED
    BY <2>1, <2>2 DEF LeaseExpires, Crash
<1>4. /\ queued' \in [Steps -> Nat]
      /\ \A i \in Steps : queued'[i] > queued[i] => i = mine[r]
      /\ redelivered' \in 0..MaxRedelivered /\ faults' \in 0..MaxFaults
      /\ unhandled' \subseteq Steps
      /\ UNCHANGED <<saga, step, outcomes>>
  BY <1>1, <1>2, BoundsAssumption DEF Redeliver, TypeOK
<1> QED
  BY <1>1, <1>3, <1>4, QueueInv

LEMMA ClientCrashInv == ASSUME SagaInv, ClientCrash PROVE SagaInv'
<1>1. Starter \in Procs /\ TypeOK
  BY DEF Procs, SagaInv
<1>2. Moves(Starter) /\ ProcInv(Starter)' /\ StarterInv'
  BY <1>1, ReturnMoves, ReturnInv DEF ClientCrash
<1>3. UNCHANGED <<saga, step, queued, outcomes, unhandled, redelivered, faults>>
  BY DEF ClientCrash, rows
<1>4. queued' \in [Steps -> Nat] /\ \A i \in Steps : ~(queued'[i] > queued[i])
  BY <1>1, <1>3 DEF TypeOK
<1> QED
  BY <1>1, <1>2, <1>3, <1>4, QueueInv DEF TypeOK

(* Every step keeps the invariant. *)
LEMMA NextSagaInv == SagaInv /\ [Next]_vars => SagaInv'
<1> SUFFICES ASSUME SagaInv, [Next]_vars PROVE SagaInv'
  OBVIOUS
<1>1. Starter \in Procs /\ Reporters \subseteq Procs
  BY DEF Procs
<1>2. CASE StarterStep
  BY <1>1, <1>2, CreateSagaInv, SetRunningInv, MarkInv, EnqueueInv DEF StarterStep
<1>3. ASSUME NEW r \in Reporters, ReporterStep(r) PROVE SagaInv'
  BY <1>1, <1>3, DeliverInv, NoHandlerInv, ExecuteInv, GetSagaInv, UpdateStepInv, MarkInv, EnqueueInv,
     FinishInv, CompensationInv
  DEF ReporterStep
<1>4. CASE UNCHANGED vars
  BY <1>4 DEF vars, SagaInv, TypeOK, StarterInv, ProcInv, StepInv, Prefix, Succeeded,
     CompletedMeansDone, RollbackHasCause
<1> QED
  BY <1>2, <1>3, <1>4, RedeliverInv, ClientCrashInv DEF Next

LEMMA SagaInvHolds == Spec => []SagaInv
  BY InitSagaInv, NextSagaInv, PTL DEF Spec

(* Every variable of the saga keeps its type. *)
THEOREM SagaTypeCorrect == Spec => []TypeOK
<1>1. SagaInv => TypeOK
  BY DEF SagaInv
<1> QED
  BY <1>1, SagaInvHolds, PTL

(* However often tasks are delivered and reported, steps are dispatched and *)
(* executed in order.                                                       *)
THEOREM SagaOrder == Spec => []StepsInOrder
<1>1. SagaInv => StepsInOrder
  BY AtReport DEF SagaInv, StepInv, StepsInOrder, Prefix
<1> QED
  BY <1>1, SagaInvHolds, PTL

(* COMPLETED is written only when every step of the saga has succeeded, and *)
(* a saga is rolled back only after an execution of a step failed.          *)
THEOREM StatusEarned == Spec => []StatusIsEarned
<1>1. SagaInv => StatusIsEarned
  BY DEF SagaInv, StatusIsEarned
<1> QED
  BY <1>1, SagaInvHolds, PTL

-----------------------------------------------------------------------------
(***************************************************************************)
(* WorkflowEngine, for any number of steps and any set of them that can be *)
(* undone.                                                                 *)
(*                                                                         *)
(* ResumeIsSound compares what was executed with what an uninterrupted     *)
(* execution would have.  What it rests on is that a running checkpoint    *)
(* always stands at the step that returned last, and that every step that  *)
(* was repeated is paid for by a resumption.                               *)
(***************************************************************************)
(* The step that returned last.                                             *)
LastStep == IF wfLog = << >> THEN 0 ELSE wfLog[Len(wfLog)].step

Again == {i \in 2..Len(wfLog) : wfLog[i].step = wfLog[i - 1].step}

(* The checkpoint stands at the step that returned last, and what runs is   *)
(* what it says.                                                            *)
SavedIsLive ==
  /\ wfSaved.status = "none" => /\ wfPc = "idle" /\ wfLog = << >>
                                /\ wfResults = << >> /\ wfIndex = 0
  /\ wfSaved.status = "running" => wfSaved.index = LastStep
  /\ wfPc = "idle" => wfStatus # "running"
  /\ wfPc = "step" => wfSaved.status = "running" /\ wfResults = wfSaved.results
  /\ wfPc = "undo" => wfSaved.status = "failed" /\ wfResults = wfSaved.results
  /\ wfStatus = "completed" => wfSaved.status = "completed"
  /\ wfSaved.status = "completed" => wfLog # << >> /\ IsLast(LastStep)

(* The next step to execute follows the last one, or repeats it on account  *)
(* of a resumption that repeated nothing yet.                               *)
NextStepIsDue ==
  wfPc = "step" =>
    \/ wfLog = << >> /\ wfIndex = 0
    \/ wfLog # << >> /\ wfIndex = LastStep + 1
    \/ wfLog # << >> /\ wfIndex = LastStep /\ Cardinality(Again) < wfResumes

(* No step before the last one was left out.                                *)
NoGap == wfLog # << >> => \A s \in 0..LastStep : \E i \in 1..Len(wfLog) : wfLog[i].step = s

ResumeInv ==
  /\ WorkflowTypeOK /\ SavedIsLive /\ NextStepIsDue /\ NoGap
  /\ CheckpointIsCurrent /\ InputIsLatest /\ ResumesInOrder

(* In an execution that was never interrupted the i-th success is step i-1, *)
(* and the rollback has dealt with the steps from wfUndo on.                *)
Uninterrupted == wfResumes = 0 => \A i \in 1..Len(wfLog) : wfLog[i].step = i - 1

UndoneInOrder ==
  /\ {wfUndone[i].action : i \in 1..Len(wfUndone)} = Compensable \cap (wfUndo..(Len(wfLog) - 1))
  /\ \A i \in 1..Len(wfUndone) :
       /\ wfUndone[i].action = wfUndone[i].of
       /\ i > 1 => wfUndone[i].action < wfUndone[i - 1].action

RollbackInv ==
  /\ Uninterrupted
  /\ wfSaved.status \in {"none", "running"} => wfUndone = << >>
  /\ wfPc = "undo" => wfUndo <= Len(wfResults)
  /\ wfStatus = "compensated" => wfPc = "idle" /\ wfUndo = 0
  /\ wfResumes = 0 /\ (wfPc = "undo" \/ wfStatus = "compensated") => UndoneInOrder

LEMMA ElementType ==
  ASSUME NEW S, NEW seq \in Seq(S)
  PROVE  /\ \A i \in 1..Len(seq) : seq[i] \in S
         /\ seq # << >> => Len(seq) \in 1..Len(seq)
OBVIOUS

LEMMA FiniteAgain ==
  ASSUME WorkflowTypeOK
  PROVE  IsFiniteSet(Again)
<1>1. IsFiniteSet(2..Len(wfLog))
  BY FS_Interval DEF WorkflowTypeOK
<1> QED BY <1>1, FS_Subset DEF Again

LEMMA WorkflowInitInv == WorkflowInit => ResumeInv /\ RollbackInv
<1> SUFFICES ASSUME WorkflowInit PROVE ResumeInv /\ RollbackInv
  OBVIOUS
<1> USE StepCountAssumption, AttemptsAssumption, PanicsAssumption DEF WorkflowInit, Checkpoint
<1>1. WorkflowTypeOK
  <2>1. 0 \in WfSteps /\ << >> \in WfResults
    BY DEF WfSteps, WfResults
  <2>2. wfSaved \in [index : WfSteps, status : {"none", "running", "completed", "failed"},
                     results : WfResults]
    BY <2>1
  <2>3. /\ wfLog \in Seq([step : WfSteps, input : WfSteps \cup {NoInput}])
        /\ wfUndone \in Seq([action : WfSteps, of : WfSteps])
    OBVIOUS
  <2> QED BY <2>1, <2>2, <2>3 DEF WorkflowTypeOK
<1>2. {i \in 2..Len(wfLog) : wfLog[i].step = wfLog[i - 1].step} = {}
  OBVIOUS
<1>3. ResumesInOrder
  BY <1>2, FS_EmptySet DEF ResumesInOrder
<1>4. SavedIsLive /\ NextStepIsDue /\ NoGap /\ CheckpointIsCurrent /\ InputIsLatest
  BY DEF SavedIsLive, NextStepIsDue, NoGap, CheckpointIsCurrent, InputIsLatest
<1>5. RollbackInv
  BY DEF RollbackInv, Uninterrupted
<1> QED BY <1>1, <1>3, <1>4, <1>5 DEF ResumeInv

LEMMA WorkflowTypeStep ==
  ASSUME WorkflowTypeOK, [WorkflowNext]_wfVars, wfPc = "undo" => wfUndo <= Len(wfResults)
  PROVE  WorkflowTypeOK'
<1> USE StepCountAssumption, AttemptsAssumption, PanicsAssumption
    DEF WorkflowTypeOK, WfSteps, WfResults, Checkpoint
<1>1. CASE ExecuteWorkflow
  BY <1>1 DEF ExecuteWorkflow
<1>2. CASE StepSucceeds
  <2>1. Append(wfResults, [step |-> wfIndex, ok |-> TRUE]) \in WfResults
    OBVIOUS
  <2>2. StepInput \in WfSteps \cup {NoInput}
    <3>1. CASE wfResults = << >>
      BY <3>1 DEF StepInput
    <3>2. CASE wfResults # << >>
      <4>1. wfResults[Len(wfResults)] \in [step : WfSteps, ok : BOOLEAN]
        BY <3>2, ElementType
      <4> QED BY <3>2, <4>1 DEF StepInput
    <3> QED BY <3>1, <3>2
  <2>3. wfLog' \in Seq([step : WfSteps, input : WfSteps \cup {NoInput}])
    BY <1>2, <2>2 DEF StepSucceeds
  <2>4. wfIndex' \in WfSteps
    BY <1>2 DEF StepSucceeds, IsLast
  <2>5. wfSaved' \in [index : WfSteps, status : {"none", "running", "completed", "failed"},
                      results : WfResults]
    BY <1>2, <2>1 DEF StepSucceeds, SavedAfter
  <2>6. /\ wfPc' \in {"idle", "step", "undo"}
        /\ wfStatus' \in {"none", "running", "completed", "failed", "compensated"}
        /\ wfResults' \in WfResults
        /\ wfAttempt' \in 1..MaxAttempts
        /\ UNCHANGED <<wfUndo, wfUndone, wfPanics, wfResumes>>
    BY <1>2, <2>1 DEF StepSucceeds
  <2> QED BY <2>3, <2>4, <2>5, <2>6
<1>3. CASE RetryStep
  BY <1>3 DEF RetryStep
<1>4. CASE StepFails
  <2>1. Append(wfResults, [step |-> wfIndex, ok |-> FALSE]) \in WfResults
    OBVIOUS
  <2> QED BY <1>4, <2>1 DEF StepFails, SavedAfter
<1>5. CASE CompensateStep
  <2>1. CASE IsCompensated(wfUndo)
    <3>1. wfUndo - 1 \in WfSteps
      BY <2>1, CompensableAssumption DEF IsCompensated
    <3>2. wfResults[wfUndo].step \in WfSteps
      <4>1. wfPc = "undo" /\ wfUndo > 0
        BY <1>5 DEF CompensateStep
      <4>2. wfUndo <= Len(wfResults) /\ Len(wfResults) \in Nat
        BY <4>1
      <4>3. wfUndo \in 1..Len(wfResults)
        BY <4>1, <4>2
      <4>4. wfResults[wfUndo] \in [step : WfSteps, ok : BOOLEAN]
        BY <4>3, ElementType
      <4> QED BY <4>4
    <3>3. [action |-> wfUndo - 1, of |-> wfResults[wfUndo].step] \in [action : WfSteps, of : WfSteps]
      BY <3>1, <3>2
    <3>4. wfUndone' \in Seq([action : WfSteps, of : WfSteps])
      BY <1>5, <2>1, <3>3 DEF CompensateStep
    <3>5. /\ UNCHANGED <<wfPc, wfStatus, wfIndex, wfResults, wfAttempt, wfSaved, wfLog,
                         wfPanics, wfResumes>>
          /\ wfUndo' \in Nat
      BY <1>5 DEF CompensateStep
    <3> QED BY <3>4, <3>5
  <2>2. CASE ~IsCompensated(wfUndo)
    BY <1>5, <2>2 DEF CompensateStep
  <2> QED BY <2>1, <2>2
<1>6. CASE Compensated
  BY <1>6 DEF Compensated
<1>7. CASE Panic
  BY <1>7 DEF Panic
<1>8. CASE Resume
  BY <1>8 DEF Resume
<1>9. CASE UNCHANGED wfVars
  BY <1>9 DEF wfVars
<1> QED BY <1>1, <1>2, <1>3, <1>4, <1>5, <1>6, <1>7, <1>8, <1>9 DEF WorkflowNext, EngineStep

(* What an execution that returned adds to the log.                         *)
LEMMA LogGrows ==
  ASSUME WorkflowTypeOK, StepSucceeds
  PROVE  /\ Len(wfLog) \in Nat /\ Len(wfLog') = Len(wfLog) + 1
         /\ \A i \in 1..Len(wfLog) : wfLog'[i] = wfLog[i]
         /\ wfLog'[Len(wfLog) + 1] = [step |-> wfIndex, input |-> StepInput]
         /\ wfLog' # << >>
         /\ LastStep' = wfIndex
<1>1. wfLog' = Append(wfLog, [step |-> wfIndex, input |-> StepInput])
  BY DEF StepSucceeds
<1>2. Len(wfLog) \in Nat /\ Len(wfLog') = Len(wfLog) + 1
  BY <1>1 DEF WorkflowTypeOK
<1>3. /\ \A i \in 1..Len(wfLog) : wfLog'[i] = wfLog[i]
      /\ wfLog'[Len(wfLog) + 1] = [step |-> wfIndex, input |-> StepInput]
  BY <1>1 DEF WorkflowTypeOK
<1>4. wfLog' # << >>
  BY <1>1 DEF WorkflowTypeOK
<1>5. LastStep' = wfIndex
  BY <1>2, <1>3, <1>4 DEF LastStep
<1> QED BY <1>2, <1>3, <1>4, <1>5

LEMMA LastIsLogged ==
  ASSUME WorkflowTypeOK, wfLog # << >>
  PROVE  /\ Len(wfLog) \in 1..Len(wfLog)
         /\ LastStep = wfLog[Len(wfLog)].step
         /\ LastStep \in WfSteps
<1>1. Len(wfLog) \in 1..Len(wfLog)
  BY ElementType DEF WorkflowTypeOK
<1>2. wfLog[Len(wfLog)] \in [step : WfSteps, input : WfSteps \cup {NoInput}]
  BY <1>1, ElementType DEF WorkflowTypeOK
<1> QED BY <1>1, <1>2 DEF LastStep

LEMMA StepsAreTyped ==
  ASSUME WorkflowTypeOK
  PROVE  \A i \in 1..Len(wfLog) : wfLog[i].step \in WfSteps
<1>1. \A i \in 1..Len(wfLog) : wfLog[i] \in [step : WfSteps, input : WfSteps \cup {NoInput}]
  BY ElementType DEF WorkflowTypeOK
<1> QED BY <1>1

(* Only an execution that returned changes the log.                         *)
LEMMA QuietLog ==
  ASSUME [WorkflowNext]_wfVars, ~StepSucceeds
  PROVE  UNCHANGED wfLog /\ LastStep' = LastStep /\ Again' = Again
<1>1. UNCHANGED wfLog
  BY DEF WorkflowNext, EngineStep, wfVars, ExecuteWorkflow, RetryStep, StepFails, CompensateStep,
         Compensated, Panic, Resume
<1> QED BY <1>1 DEF LastStep, Again

LEMMA LiveStep ==
  ASSUME ResumeInv, [WorkflowNext]_wfVars
  PROVE  SavedIsLive'
<1> USE DEF ResumeInv, SavedIsLive, Checkpoint, SavedAfter
<1>1. CASE StepSucceeds
  BY <1>1, LogGrows DEF StepSucceeds
<1>2. CASE ~StepSucceeds
  <2>1. UNCHANGED wfLog /\ LastStep' = LastStep
    BY <1>2, QuietLog
  <2>2. CASE ExecuteWorkflow
    BY <2>1, <2>2 DEF ExecuteWorkflow, LastStep, WorkflowTypeOK
  <2>3. CASE RetryStep
    BY <2>1, <2>3 DEF RetryStep
  <2>4. CASE StepFails
    BY <2>1, <2>4 DEF StepFails
  <2>5. CASE CompensateStep
    BY <2>1, <2>5 DEF CompensateStep
  <2>6. CASE Compensated
    BY <2>1, <2>6 DEF Compensated
  <2>7. CASE Panic
    BY <2>1, <2>7 DEF Panic
  <2>8. CASE Resume
    BY <2>1, <2>8 DEF Resume
  <2>9. CASE UNCHANGED wfVars
    BY <2>1, <2>9 DEF wfVars
  <2> QED BY <1>2, <2>2, <2>3, <2>4, <2>5, <2>6, <2>7, <2>8, <2>9 DEF WorkflowNext, EngineStep
<1> QED BY <1>1, <1>2

(* The results of the running instance are the log.                         *)
LEMMA ResultsAreLog ==
  ASSUME WorkflowTypeOK, SavedIsLive, CheckpointIsCurrent, wfPc = "step"
  PROVE  /\ Len(wfResults) = Len(wfLog)
         /\ \A i \in 1..Len(wfLog) : wfResults[i] = [step |-> wfLog[i].step, ok |-> TRUE]
BY DEF WorkflowTypeOK, SavedIsLive, CheckpointIsCurrent

LEMMA CheckpointStep ==
  ASSUME ResumeInv, [WorkflowNext]_wfVars
  PROVE  CheckpointIsCurrent'
<1> USE DEF ResumeInv, Checkpoint, SavedAfter
<1>1. CASE StepSucceeds
  <2>1. /\ Len(wfResults) = Len(wfLog)
        /\ \A i \in 1..Len(wfLog) : wfResults[i] = [step |-> wfLog[i].step, ok |-> TRUE]
    BY <1>1, ResultsAreLog DEF StepSucceeds
  <2>2. /\ wfSaved'.results = Append(wfResults, [step |-> wfIndex, ok |-> TRUE])
        /\ wfSaved'.status # "failed"
    BY <1>1 DEF StepSucceeds
  <2>3. /\ Len(wfSaved'.results) = Len(wfLog) + 1
        /\ \A i \in 1..Len(wfLog) : wfSaved'.results[i] = wfResults[i]
        /\ wfSaved'.results[Len(wfLog) + 1] = [step |-> wfIndex, ok |-> TRUE]
    BY <2>1, <2>2 DEF WorkflowTypeOK, WfResults
  <2>4. \A i \in 1..(Len(wfLog) + 1) : i \in 1..Len(wfLog) \/ i = Len(wfLog) + 1
    BY <1>1, LogGrows
  <2>5. \A i \in 1..Len(wfLog) :
          wfSaved'.results[i] = [step |-> wfLog'[i].step, ok |-> TRUE]
    BY <1>1, <2>1, <2>3, LogGrows
  <2>6. wfSaved'.results[Len(wfLog) + 1] = [step |-> wfLog'[Len(wfLog) + 1].step, ok |-> TRUE]
    <3>1. wfLog'[Len(wfLog) + 1].step = wfIndex
      BY <1>1, LogGrows
    <3> QED BY <2>3, <3>1
  <2>7. Len(wfLog') = Len(wfLog) + 1
    BY <1>1, LogGrows
  <2>8. \A i \in 1..Len(wfLog') :
          wfSaved'.results[i] = [step |-> wfLog'[i].step, ok |-> TRUE]
    BY <2>4, <2>5, <2>6, <2>7
  <2>9. Len(wfSaved'.results) = Len(wfLog') + (IF wfSaved'.status = "failed" THEN 1 ELSE 0)
    BY <1>1, <2>2, <2>3, <2>7, LogGrows
  <2> QED BY <2>2, <2>8, <2>9 DEF CheckpointIsCurrent
<1>2. CASE StepFails
  <2>1. /\ Len(wfResults) = Len(wfLog)
        /\ \A i \in 1..Len(wfLog) : wfResults[i] = [step |-> wfLog[i].step, ok |-> TRUE]
    BY <1>2, ResultsAreLog DEF StepFails
  <2>2. /\ wfSaved'.results = Append(wfResults, [step |-> wfIndex, ok |-> FALSE])
        /\ wfSaved'.status = "failed"
        /\ wfLog' = wfLog
    BY <1>2 DEF StepFails
  <2>3. /\ Len(wfSaved'.results) = Len(wfLog) + 1
        /\ \A i \in 1..Len(wfLog) : wfSaved'.results[i] = wfResults[i]
        /\ wfSaved'.results[Len(wfLog) + 1] = [step |-> wfIndex, ok |-> FALSE]
    BY <2>1, <2>2 DEF WorkflowTypeOK, WfResults
  <2> QED BY <2>1, <2>2, <2>3 DEF CheckpointIsCurrent
<1>3. CASE ExecuteWorkflow
  <2>1. wfLog = << >> /\ wfLog' = << >> /\ wfSaved'.results = << >> /\ wfSaved'.status = "running"
    BY <1>3 DEF ExecuteWorkflow, SavedIsLive
  <2> QED BY <2>1 DEF CheckpointIsCurrent
<1>4. CASE UNCHANGED <<wfSaved, wfLog>>
  BY <1>4 DEF CheckpointIsCurrent
<1> QED BY <1>1, <1>2, <1>3, <1>4
        DEF WorkflowNext, EngineStep, wfVars, RetryStep, CompensateStep, Compensated, Panic, Resume

LEMMA InputStep ==
  ASSUME ResumeInv, [WorkflowNext]_wfVars
  PROVE  InputIsLatest'
<1> USE DEF ResumeInv
<1>1. CASE StepSucceeds
  <2>1. /\ Len(wfResults) = Len(wfLog)
        /\ \A i \in 1..Len(wfLog) : wfResults[i] = [step |-> wfLog[i].step, ok |-> TRUE]
    BY <1>1, ResultsAreLog DEF StepSucceeds
  <2>2. StepInput = IF wfLog = << >> THEN NoInput ELSE wfLog[Len(wfLog)].step
    <3>1. wfResults = << >> <=> wfLog = << >>
      BY <2>1 DEF WorkflowTypeOK, WfResults
    <3>2. wfLog # << >> => Len(wfLog) \in 1..Len(wfLog)
      BY ElementType DEF WorkflowTypeOK
    <3>3. ASSUME wfLog # << >>
          PROVE  wfResults[Len(wfResults)].step = wfLog[Len(wfLog)].step
      <4>1. wfResults[Len(wfLog)] = [step |-> wfLog[Len(wfLog)].step, ok |-> TRUE]
        BY <2>1, <3>2, <3>3
      <4> QED BY <2>1, <4>1
    <3> QED BY <3>1, <3>3 DEF StepInput
  <2>3. SUFFICES ASSUME NEW i \in 1..Len(wfLog')
                 PROVE  wfLog'[i].input = IF i = 1 THEN NoInput ELSE wfLog'[i - 1].step
    BY DEF InputIsLatest
  <2>4. CASE i \in 1..Len(wfLog)
    BY <1>1, <2>4, LogGrows DEF InputIsLatest
  <2>5. CASE i = Len(wfLog) + 1
    <3>1. wfLog = << >> <=> i = 1
      BY <2>5 DEF WorkflowTypeOK
    <3> QED BY <1>1, <2>2, <2>5, <3>1, LogGrows
  <2> QED BY <1>1, <2>4, <2>5, LogGrows
<1>2. CASE ~StepSucceeds
  BY <1>2, QuietLog DEF InputIsLatest
<1> QED BY <1>1, <1>2

LEMMA GapStep ==
  ASSUME ResumeInv, [WorkflowNext]_wfVars
  PROVE  NoGap'
<1> USE DEF ResumeInv
<1>1. CASE StepSucceeds
  <2> SUFFICES ASSUME NEW s \in 0..wfIndex PROVE \E i \in 1..Len(wfLog') : wfLog'[i].step = s
    BY <1>1, LogGrows DEF NoGap
  <2>1. wfIndex \in Nat /\ Len(wfLog) + 1 \in 1..Len(wfLog')
    BY <1>1, LogGrows DEF WorkflowTypeOK, WfSteps
  <2>2. CASE s = wfIndex
    <3>1. wfLog'[Len(wfLog) + 1].step = s
      BY <1>1, <2>2, LogGrows
    <3> QED BY <2>1, <3>1
  <2>3. CASE s # wfIndex
    <3>1. wfLog # << >> /\ wfIndex \in {LastStep, LastStep + 1}
      BY <1>1, <2>3 DEF StepSucceeds, NextStepIsDue
    <3>2. s \in 0..LastStep
      BY <2>1, <2>3, <3>1, LastIsLogged, StepCountAssumption DEF WfSteps
    <3>3. PICK i \in 1..Len(wfLog) : wfLog[i].step = s
      BY <3>1, <3>2 DEF NoGap
    <3>4. i \in 1..Len(wfLog') /\ wfLog'[i] = wfLog[i]
      BY <1>1, LogGrows
    <3> QED BY <3>3, <3>4
  <2> QED BY <2>2, <2>3
<1>2. CASE ~StepSucceeds
  BY <1>2, QuietLog DEF NoGap
<1> QED BY <1>1, <1>2

(* How the repetitions are counted.                                         *)
LEMMA AgainGrows ==
  ASSUME ResumeInv, StepSucceeds
  PROVE  /\ wfIndex # LastStep \/ wfLog = << >> => Again' = Again
         /\ wfIndex = LastStep /\ wfLog # << >> => Cardinality(Again') = Cardinality(Again) + 1
         /\ Cardinality(Again) \in Nat
<1> USE DEF ResumeInv
<1> DEFINE n == Len(wfLog)
<1>1. n \in Nat /\ Len(wfLog') = n + 1
  BY LogGrows
<1>2. \A i \in 2..n : i \in 1..n /\ i - 1 \in 1..n
  BY <1>1
<1>3. \A i \in 2..n : i \in Again' <=> i \in Again
  BY <1>1, <1>2, LogGrows DEF Again
<1>4. n + 1 \in Again' <=> n > 0 /\ wfIndex = LastStep
  <2>1. CASE n = 0
    BY <1>1, <2>1 DEF Again
  <2>2. CASE n > 0
    <3>1. wfLog # << >> /\ n \in 1..n
      BY <1>1, <2>2
    <3>2. wfLog'[n].step = LastStep
      BY <3>1, LogGrows, LastIsLogged
    <3>3. wfLog'[n + 1].step = wfIndex
      BY LogGrows
    <3>4. n + 1 \in 2..Len(wfLog') /\ (n + 1) - 1 = n
      BY <1>1, <2>2
    <3> QED BY <2>2, <3>2, <3>3, <3>4 DEF Again
  <2> QED BY <1>1, <2>1, <2>2
<1>5. Again \subseteq 2..n /\ Again' \subseteq 2..(n + 1)
  BY <1>1 DEF Again
<1>6. n > 0 <=> wfLog # << >>
  BY <1>1 DEF WorkflowTypeOK
<1>7. IsFiniteSet(Again) /\ Cardinality(Again) \in Nat
  BY FiniteAgain, FS_CardinalityType
<1>10. /\ \A i \in Again : i \in Again'
       /\ \A i \in Again' : i \in Again \/ i = n + 1
  <2>1. \A i \in 2..(n + 1) : i \in 2..n \/ i = n + 1
    BY <1>1
  <2> QED BY <1>3, <1>5, <2>1
<1>8. CASE wfIndex # LastStep \/ wfLog = << >>
  <2>1. n + 1 \notin Again'
    BY <1>4, <1>6, <1>8
  <2>2. Again' = Again
    BY <1>10, <2>1
  <2> QED BY <1>7, <1>8, <2>2
<1>9. CASE wfIndex = LastStep /\ wfLog # << >>
  <2>1. n + 1 \in Again' /\ n + 1 \notin Again
    BY <1>1, <1>4, <1>5, <1>6, <1>9
  <2>2. Again' = Again \cup {n + 1}
    BY <1>10, <2>1
  <2>3. Cardinality(Again') = Cardinality(Again) + 1
    BY <1>7, <2>1, <2>2, FS_AddElement
  <2> QED BY <1>7, <1>9, <2>3
<1> QED BY <1>8, <1>9

LEMMA OrderStep ==
  ASSUME ResumeInv, [WorkflowNext]_wfVars
  PROVE  ResumesInOrder'
<1> USE DEF ResumeInv
<1>0. Cardinality(Again) <= wfResumes
  BY DEF ResumesInOrder, Again
<1>1. CASE StepSucceeds
  <2>1. /\ wfResumes' = wfResumes
        /\ \/ wfLog = << >> /\ wfIndex = 0
           \/ wfLog # << >> /\ wfIndex = LastStep + 1
           \/ wfLog # << >> /\ wfIndex = LastStep /\ Cardinality(Again) < wfResumes
    BY <1>1 DEF StepSucceeds, NextStepIsDue
  <2>2. Cardinality(Again') <= wfResumes'
    <3>1. wfLog # << >> => LastStep \in Int
      BY LastIsLogged DEF WfSteps
    <3> QED BY <1>0, <1>1, <2>1, <3>1, AgainGrows DEF WorkflowTypeOK
  <2>3. ASSUME NEW i \in 1..Len(wfLog')
        PROVE  \/ i = 1 /\ wfLog'[i].step = 0
               \/ i > 1 /\ wfLog'[i].step - wfLog'[i - 1].step \in {0, 1}
    <3>1. CASE i \in 1..Len(wfLog)
      <4>1. wfLog'[i] = wfLog[i] /\ (i > 1 => wfLog'[i - 1] = wfLog[i - 1])
        BY <1>1, <3>1, LogGrows
      <4> QED BY <3>1, <4>1 DEF ResumesInOrder
    <3>2. CASE i = Len(wfLog) + 1
      <4>1. wfLog'[i].step = wfIndex
        BY <1>1, <3>2, LogGrows
      <4>2. CASE wfLog = << >>
        BY <2>1, <3>2, <4>1, <4>2 DEF WorkflowTypeOK
      <4>3. CASE wfLog # << >>
        <5>1. Len(wfLog) \in 1..Len(wfLog) /\ i > 1 /\ i - 1 = Len(wfLog)
          BY <3>2, <4>3, LastIsLogged
        <5>2. wfLog'[i - 1].step = LastStep /\ LastStep \in Int
          BY <1>1, <4>3, <5>1, LogGrows, LastIsLogged DEF WfSteps
        <5> QED BY <2>1, <4>1, <4>3, <5>1, <5>2
      <4> QED BY <4>2, <4>3
    <3> QED BY <1>1, <3>1, <3>2, LogGrows
  <2> QED BY <2>2, <2>3 DEF ResumesInOrder, Again
<1>2. CASE ~StepSucceeds
  <2>1. wfResumes' \in {wfResumes, wfResumes + 1}
    BY <1>2 DEF WorkflowNext, EngineStep, wfVars, ExecuteWorkflow, RetryStep, StepFails,
                CompensateStep, Compensated, Panic, Resume
  <2>2. Cardinality(Again) \in Nat
    BY FiniteAgain, FS_CardinalityType
  <2>3. Cardinality(Again') <= wfResumes'
    BY <1>0, <1>2, <2>1, <2>2, QuietLog DEF WorkflowTypeOK
  <2>4. wfLog' = wfLog
    BY <1>2, QuietLog
  <2> QED BY <2>3, <2>4 DEF ResumesInOrder, Again
<1> QED BY <1>1, <1>2

LEMMA DueStep ==
  ASSUME ResumeInv, [WorkflowNext]_wfVars
  PROVE  NextStepIsDue'
<1> USE DEF ResumeInv
<1>1. CASE StepSucceeds
  BY <1>1, LogGrows DEF StepSucceeds, NextStepIsDue
<1>2. CASE Resume
  <2>1. Cardinality(Again) <= wfResumes /\ Cardinality(Again) \in Nat
    BY FiniteAgain, FS_CardinalityType DEF ResumesInOrder, Again
  <2>2. wfIndex' = LastStep /\ wfResumes' = wfResumes + 1
    BY <1>2 DEF Resume, SavedIsLive
  <2>3. wfLog' = wfLog /\ LastStep' = LastStep /\ Again' = Again
    BY <1>2 DEF Resume, LastStep, Again
  <2>4. wfLog = << >> => LastStep = 0
    BY DEF LastStep
  <2> QED BY <2>1, <2>2, <2>3, <2>4 DEF NextStepIsDue, WorkflowTypeOK
<1>3. CASE ExecuteWorkflow
  BY <1>3 DEF ExecuteWorkflow, SavedIsLive, NextStepIsDue
<1>4. CASE RetryStep \/ UNCHANGED wfVars
  <2>1. wfLog' = wfLog /\ LastStep' = LastStep /\ Again' = Again
    BY <1>4 DEF RetryStep, wfVars, LastStep, Again
  <2> QED BY <1>4, <2>1 DEF RetryStep, wfVars, NextStepIsDue
<1>5. CASE wfPc' # "step"
  BY <1>5 DEF NextStepIsDue
<1> QED BY <1>1, <1>2, <1>3, <1>4, <1>5
        DEF WorkflowNext, EngineStep, StepFails, CompensateStep, Compensated, Panic

LEMMA ResumeInvStep ==
  ASSUME ResumeInv, RollbackInv, [WorkflowNext]_wfVars
  PROVE  ResumeInv'
BY WorkflowTypeStep, LiveStep, DueStep, GapStep, CheckpointStep, InputStep, OrderStep
   DEF ResumeInv, RollbackInv

LEMMA UninterruptedStep ==
  ASSUME ResumeInv, Uninterrupted, [WorkflowNext]_wfVars
  PROVE  Uninterrupted'
<1> USE DEF ResumeInv
<1>1. CASE StepSucceeds /\ wfResumes = 0
  <2>1. wfIndex = Len(wfLog)
    <3>1. CASE wfLog = << >>
      BY <1>1, <3>1 DEF StepSucceeds, NextStepIsDue
    <3>2. CASE wfLog # << >>
      <4>1. LastStep = Len(wfLog) - 1 /\ Len(wfLog) \in Nat
        BY <1>1, <3>2, LastIsLogged DEF Uninterrupted
      <4>2. ~(Cardinality(Again) < wfResumes)
        BY <1>1, FiniteAgain, FS_CardinalityType
      <4>3. wfIndex = LastStep + 1
        BY <1>1, <3>2, <4>2 DEF StepSucceeds, NextStepIsDue
      <4> QED BY <4>1, <4>3
    <3> QED BY <3>1, <3>2
  <2>2. \A i \in 1..Len(wfLog') : i \in 1..Len(wfLog) \/ i = Len(wfLog) + 1
    BY <1>1, LogGrows
  <2>3. wfLog'[Len(wfLog) + 1].step = (Len(wfLog) + 1) - 1
    BY <1>1, <2>1, LogGrows
  <2>4. \A i \in 1..Len(wfLog) : wfLog'[i].step = i - 1
    BY <1>1, LogGrows DEF Uninterrupted
  <2> QED BY <2>2, <2>3, <2>4 DEF Uninterrupted
<1>2. CASE StepSucceeds /\ wfResumes # 0
  BY <1>2 DEF StepSucceeds, Uninterrupted
<1>3. CASE ~StepSucceeds
  <2>1. wfResumes' = 0 => wfResumes = 0
    BY <1>3 DEF WorkflowNext, EngineStep, wfVars, ExecuteWorkflow, RetryStep, StepFails,
                CompensateStep, Compensated, Panic, Resume, WorkflowTypeOK
  <2>2. wfLog' = wfLog
    BY <1>3, QuietLog
  <2> QED BY <2>1, <2>2 DEF Uninterrupted
<1> QED BY <1>1, <1>2, <1>3

(* The rollback begins with nothing undone.                                 *)
LEMMA UndoBegins ==
  ASSUME ResumeInv, RollbackInv, StepFails
  PROVE  UndoneInOrder' /\ wfUndo' <= Len(wfResults')
<1> USE DEF ResumeInv
<1>1. wfUndone' = << >> /\ wfLog' = wfLog
  BY DEF StepFails, SavedIsLive, RollbackInv
<1>2. Len(wfResults) = Len(wfLog) /\ Len(wfLog) \in Nat
  BY ResultsAreLog DEF StepFails, WorkflowTypeOK
<1>3. wfUndo' = Len(wfLog) + 1 /\ Len(wfResults') = Len(wfLog) + 1
  BY <1>2 DEF StepFails, WorkflowTypeOK, WfResults
<1>4. wfUndo'..(Len(wfLog') - 1) = {}
  BY <1>1, <1>2, <1>3
<1>5. 1..Len(wfUndone') = {}
  BY <1>1
<1> QED BY <1>2, <1>3, <1>4, <1>5 DEF UndoneInOrder

(* One turn of the rollback of an execution that was never interrupted.     *)
LEMMA UndoGoesOn ==
  ASSUME ResumeInv, RollbackInv, CompensateStep, wfResumes = 0
  PROVE  UndoneInOrder'
<1> USE DEF ResumeInv
<1> DEFINE n == Len(wfLog)
           k == wfUndo
           m == Len(wfUndone)
<1>1. /\ UndoneInOrder /\ k \in Nat /\ k > 0 /\ k <= Len(wfResults)
      /\ n \in Nat /\ m \in Nat
      /\ wfUndo' = k - 1 /\ wfLog' = wfLog
  BY DEF CompensateStep, RollbackInv, WorkflowTypeOK
<1>2. /\ Len(wfResults) = n + 1
      /\ \A i \in 1..n : wfResults[i] = [step |-> wfLog[i].step, ok |-> TRUE]
  BY DEF CompensateStep, SavedIsLive, CheckpointIsCurrent
<1>3. \A i \in 1..n : wfResults[i].ok /\ wfResults[i].step = i - 1
  <2>1. \A i \in 1..n : wfLog[i].step = i - 1
    BY DEF RollbackInv, Uninterrupted
  <2>2. ASSUME NEW i \in 1..n PROVE wfResults[i].ok /\ wfResults[i].step = i - 1
    <3>1. wfResults[i] = [step |-> i - 1, ok |-> TRUE]
      BY <1>2, <2>1
    <3> QED BY <3>1
  <2> QED BY <2>2
<1>4. CASE IsCompensated(k) /\ k <= n
  <2>1. wfUndone' = Append(wfUndone, [action |-> k - 1, of |-> k - 1])
    BY <1>1, <1>3, <1>4 DEF CompensateStep
  <2>2. /\ Len(wfUndone') = m + 1
        /\ \A i \in 1..m : wfUndone'[i] = wfUndone[i]
        /\ wfUndone'[m + 1] = [action |-> k - 1, of |-> k - 1]
    BY <2>1 DEF WorkflowTypeOK
  <2>3. \A i \in 1..(m + 1) : i \in 1..m \/ i = m + 1
    BY <1>1
  <2>4. {wfUndone'[i].action : i \in 1..Len(wfUndone')}
          = {wfUndone[i].action : i \in 1..m} \cup {k - 1}
    <3>1. 1..Len(wfUndone') = (1..m) \cup {m + 1}
      BY <1>1, <2>2
    <3>2. wfUndone'[m + 1].action = k - 1
      BY <2>2
    <3>3. \A i \in 1..m : wfUndone'[i].action = wfUndone[i].action
      BY <2>2
    <3> QED BY <3>1, <3>2, <3>3
  <2>5. Compensable \cap ((k - 1)..(n - 1)) = (Compensable \cap (k..(n - 1))) \cup {k - 1}
    BY <1>1, <1>4 DEF IsCompensated
  <2>6. \A i \in 1..m : wfUndone[i].action \in k..(n - 1)
    BY <1>1 DEF UndoneInOrder
  <2>7. ASSUME NEW i \in 1..(m + 1)
        PROVE  /\ wfUndone'[i].action = wfUndone'[i].of
               /\ i > 1 => wfUndone'[i].action < wfUndone'[i - 1].action
    <3>1. CASE i \in 1..m
      <4>1. i > 1 => i - 1 \in 1..m
        BY <1>1, <3>1
      <4> QED BY <1>1, <2>2, <3>1, <4>1 DEF UndoneInOrder
    <3>2. CASE i = m + 1
      <4>1. wfUndone'[i].action = k - 1 /\ wfUndone'[i].of = k - 1
        BY <2>2, <3>2
      <4>2. ASSUME i > 1 PROVE k - 1 < wfUndone'[i - 1].action
        <5>1. i - 1 \in 1..m
          BY <1>1, <3>2, <4>2
        <5>2. wfUndone'[i - 1].action \in k..(n - 1)
          BY <2>2, <2>6, <5>1
        <5> QED BY <1>1, <5>2
      <4> QED BY <4>1, <4>2
    <3> QED BY <2>3, <3>1, <3>2
  <2> QED BY <1>1, <2>2, <2>4, <2>5, <2>7 DEF UndoneInOrder
<1>5. CASE ~(IsCompensated(k) /\ k <= n)
  <2>1. wfUndone' = wfUndone
    BY <1>1, <1>2, <1>5 DEF CompensateStep, IsCompensated, SavedIsLive, CheckpointIsCurrent
  <2>2. Compensable \cap ((k - 1)..(n - 1)) = Compensable \cap (k..(n - 1))
    <3>1. CASE k <= n
      BY <1>1, <1>3, <1>5, <3>1 DEF IsCompensated
    <3>2. CASE ~(k <= n)
      BY <1>1, <3>2
    <3> QED BY <3>1, <3>2
  <2> QED BY <1>1, <2>1, <2>2 DEF UndoneInOrder
<1> QED BY <1>4, <1>5

LEMMA RollbackStep ==
  ASSUME ResumeInv, RollbackInv, [WorkflowNext]_wfVars
  PROVE  RollbackInv'
<1> USE DEF ResumeInv, Checkpoint, SavedAfter
<1>0. Uninterrupted'
  BY UninterruptedStep DEF RollbackInv
<1>1. CASE StepSucceeds
  BY <1>0, <1>1 DEF StepSucceeds, RollbackInv, SavedIsLive
<1>2. CASE StepFails
  BY <1>0, <1>2, UndoBegins DEF StepFails, RollbackInv
<1>3. CASE CompensateStep
  <2>1. wfResumes = 0 => UndoneInOrder'
    BY <1>3, UndoGoesOn
  <2> QED BY <1>0, <1>3, <2>1 DEF CompensateStep, RollbackInv, SavedIsLive, WorkflowTypeOK
<1>4. CASE Compensated
  BY <1>0, <1>4 DEF Compensated, RollbackInv, SavedIsLive, UndoneInOrder
<1>5. CASE ExecuteWorkflow
  BY <1>0, <1>5 DEF ExecuteWorkflow, RollbackInv
<1>6. CASE RetryStep
  BY <1>0, <1>6 DEF RetryStep, RollbackInv
<1>7. CASE Panic
  BY <1>0, <1>7 DEF Panic, RollbackInv
<1>8. CASE Resume
  BY <1>0, <1>8 DEF Resume, RollbackInv, WorkflowTypeOK
<1>9. CASE UNCHANGED wfVars
  BY <1>0, <1>9 DEF wfVars, RollbackInv, UndoneInOrder
<1> QED BY <1>1, <1>2, <1>3, <1>4, <1>5, <1>6, <1>7, <1>8, <1>9 DEF WorkflowNext, EngineStep

LEMMA WorkflowInvHolds == WorkflowSpec => [](ResumeInv /\ RollbackInv)
<1>1. ResumeInv /\ RollbackInv /\ [WorkflowNext]_wfVars => (ResumeInv /\ RollbackInv)'
  BY ResumeInvStep, RollbackStep
<1> QED BY <1>1, WorkflowInitInv, PTL DEF WorkflowSpec

(* Every variable of an execution keeps its type, and a checkpoint holds    *)
(* what a checkpoint may hold.                                              *)
THEOREM WorkflowTypeCorrect == WorkflowSpec => []WorkflowTypeOK
<1>1. ResumeInv => WorkflowTypeOK
  BY DEF ResumeInv
<1> QED BY <1>1, WorkflowInvHolds, PTL

(* However often an execution is interrupted and resumed, it executes the   *)
(* steps in order, with the inputs an uninterrupted one would give them.    *)
THEOREM ResumptionIsSound == WorkflowSpec => []ResumeIsSound
<1>1. ResumeInv => CompletedMeansAll
  <2> SUFFICES ASSUME ResumeInv, "completed" \in {wfStatus, wfSaved.status}, NEW s \in WfSteps
               PROVE  \E i \in 1..Len(wfLog) : wfLog[i].step = s
    BY DEF CompletedMeansAll
  <2>1. wfLog # << >> /\ LastStep = StepCount - 1
    BY DEF ResumeInv, SavedIsLive, IsLast
  <2> QED BY <2>1 DEF ResumeInv, NoGap, WfSteps
<1>2. ResumeInv => ResumeIsSound
  BY <1>1 DEF ResumeInv, ResumeIsSound
<1> QED BY <1>2, WorkflowInvHolds, PTL

(* The rollback of an execution that was never interrupted undoes what was  *)
(* done, all of it, the last step first.                                    *)
THEOREM RollbackIsExact == WorkflowSpec => []FreshRollback
<1>1. ResumeInv /\ RollbackInv => FreshRollback
  <2> SUFFICES ASSUME ResumeInv, RollbackInv, wfStatus = "compensated", wfResumes = 0
               PROVE  Compensable \cap (0..(Len(wfLog) - 1))
                        = Compensable \cap {wfLog[i].step : i \in 1..Len(wfLog)}
    BY DEF FreshRollback, RollbackInv, UndoneInOrder
  <2>1. \A i \in 1..Len(wfLog) : wfLog[i].step = i - 1
    BY DEF RollbackInv, Uninterrupted
  <2>2. Len(wfLog) \in Nat
    BY DEF ResumeInv, WorkflowTypeOK
  <2>3. \A j \in 0..(Len(wfLog) - 1) : j + 1 \in 1..Len(wfLog) /\ (j + 1) - 1 = j
    BY <2>2
  <2>4. 0..(Len(wfLog) - 1) = {wfLog[i].step : i \in 1..Len(wfLog)}
    <3> DEFINE LoggedSteps == {wfLog[i].step : i \in 1..Len(wfLog)}
    <3>1. \A j \in 0..(Len(wfLog) - 1) : j \in LoggedSteps
      <4> SUFFICES ASSUME NEW j \in 0..(Len(wfLog) - 1) PROVE j \in LoggedSteps
        OBVIOUS
      <4>1. j + 1 \in 1..Len(wfLog) /\ wfLog[j + 1].step = j
        BY <2>1, <2>3
      <4> QED BY <4>1
    <3>2. \A i \in 1..Len(wfLog) : wfLog[i].step \in 0..(Len(wfLog) - 1)
      <4> SUFFICES ASSUME NEW i \in 1..Len(wfLog)
                   PROVE  wfLog[i].step \in 0..(Len(wfLog) - 1)
        OBVIOUS
      <4>1. i - 1 \in 0..(Len(wfLog) - 1)
        BY <2>2
      <4> QED BY <4>1, <2>1
    <3>3. \A x \in LoggedSteps : x \in 0..(Len(wfLog) - 1)
      BY <3>2
    <3> HIDE DEF LoggedSteps
    <3>4. LoggedSteps = 0..(Len(wfLog) - 1)
      BY <3>1, <3>3
    <3> QED BY <3>4 DEF LoggedSteps
  <2> QED BY <2>4
<1> QED BY <1>1, WorkflowInvHolds, PTL

-----------------------------------------------------------------------------
(* SubscriptionBilling, for any number of payments, any limits of the       *)
(* tiers and any number of signups.                                         *)
(***************************************************************************)
(* TrialAgrees and PaidOnce are not inductive one by one: that no second   *)
(* payment is applied rests on the subscription being in its trial, hence  *)
(* on a trial that was not converted, hence on no payment applied before.  *)
(* Cardinalities are avoided by AppliedOnce.                               *)
(***************************************************************************)
AppliedOnce == \A p, q \in blApplied : p = q

BillingInv ==
  /\ BillingTypeOK
  /\ TrialAgrees
  /\ AppliedOnce
  /\ blTrial = "converted" <=> blApplied # {}
  /\ \A p \in blApplied : blPayments[p] = "confirmed"
  /\ LimitsFollowTier

LEMMA BillingInitInv == BillingInit => BillingInv
<1> SUFFICES ASSUME BillingInit PROVE BillingInv
  OBVIOUS
<1>1. BillingTypeOK
  <2>1. blTrialLeft \in 0..TrialTicks /\ blSignups \in 0..MaxSignups
    BY TrialAssumption DEF BillingInit
  <2>2. blPayments \in [Payments -> PaymentStatuses] /\ blApplied \subseteq Payments
    BY DEF BillingInit, PaymentStatuses
  <2>3. blTier \in Tiers /\ blMeter \in Tiers /\ blUsed \in Nat
    BY DEF BillingInit, Tiers
  <2>4. blLowered \in BOOLEAN
    BY DEF BillingInit
  <2>5. /\ blStatus \in {"none", "trial", "active", "cancelled", "expired"}
        /\ blTrial \in {"none", "active", "converted", "expired"}
    BY DEF BillingInit
  <2> QED BY <2>1, <2>2, <2>3, <2>4, <2>5 DEF BillingTypeOK
<1>2. TrialAgrees /\ LimitsFollowTier
  BY DEF BillingInit, TrialAgrees, LimitsFollowTier
<1>4. AppliedOnce
  BY Zenon DEF BillingInit, AppliedOnce
<1>3. blTrial # "converted" /\ blApplied = {}
  BY DEF BillingInit
<1> QED BY <1>1, <1>2, <1>3, <1>4 DEF BillingInv

LEMMA LimitsAreNat == \A t \in Tiers : Limit[t] \in Nat
  BY LimitAssumption

(* What moves neither the status, the trial nor the applied payments.       *)
LEMMA PaidKept ==
  ASSUME BillingInv, UNCHANGED <<blStatus, blTrial, blApplied>>,
         \A p \in blApplied : blPayments'[p] = "confirmed"
  PROVE  /\ TrialAgrees' /\ AppliedOnce'
         /\ blTrial' = "converted" <=> blApplied' # {}
         /\ \A p \in blApplied' : blPayments'[p] = "confirmed"
<1>1. blStatus' = blStatus /\ blTrial' = blTrial /\ blApplied' = blApplied
  OBVIOUS
<1>2. TrialAgrees'
  BY <1>1 DEF BillingInv, TrialAgrees
<1>5. AppliedOnce'
  BY <1>1, Zenon DEF BillingInv, AppliedOnce
<1>3. blTrial' = "converted" <=> blApplied' # {}
  BY <1>1 DEF BillingInv
<1>4. \A p \in blApplied' : blPayments'[p] = "confirmed"
  BY <1>1
<1> QED BY <1>2, <1>3, <1>4, <1>5

LEMMA SignupInv == ASSUME BillingInv, Signup PROVE BillingInv'
<1>1. BillingTypeOK'
  <2>1. blTrialLeft' \in 0..TrialTicks /\ blSignups' \in 0..MaxSignups
    BY TrialAssumption DEF BillingInv, BillingTypeOK, Signup
  <2>2. blTier' \in Tiers /\ blMeter' \in Tiers /\ blUsed' \in Nat
    BY DEF Signup, Tiers, Business
  <2>3. blLowered' \in BOOLEAN
    BY DEF Signup
  <2>4. /\ blStatus' \in {"none", "trial", "active", "cancelled", "expired"}
        /\ blTrial' \in {"none", "active", "converted", "expired"}
    BY DEF Signup
  <2>5. blPayments' \in [Payments -> PaymentStatuses] /\ blApplied' \subseteq Payments
    BY DEF Signup, BillingInv, BillingTypeOK
  <2> QED BY <2>1, <2>2, <2>3, <2>4, <2>5 DEF BillingTypeOK
<1>2. blTrial # "converted" /\ blApplied = {}
  BY DEF BillingInv, Signup, MayTry
<1>3. TrialAgrees' /\ AppliedOnce'
  BY <1>2 DEF Signup, TrialAgrees, AppliedOnce
<1>4. LimitsFollowTier'
  BY LimitsAreNat DEF Signup, LimitsFollowTier, Tiers, Business
<1> QED BY <1>1, <1>2, <1>3, <1>4 DEF BillingInv, Signup

LEMMA PaymentInv ==
  ASSUME BillingInv, NEW p \in Payments, CreatePayment(p) \/ SubmitPaymentTx(p)
  PROVE  BillingInv'
<1>1. BillingTypeOK'
  BY DEF BillingInv, BillingTypeOK, CreatePayment, SubmitPaymentTx, PaymentStatuses
<1>2. \A q \in blApplied : blPayments'[q] = "confirmed"
  BY DEF BillingInv, BillingTypeOK, CreatePayment, SubmitPaymentTx
<1>3. LimitsFollowTier'
  BY DEF BillingInv, LimitsFollowTier, CreatePayment, SubmitPaymentTx
<1> QED BY <1>1, <1>2, <1>3, PaidKept DEF BillingInv, CreatePayment, SubmitPaymentTx

(* A payment that is applied is the first one; the tier it sets is above    *)
(* the tier of the trial unless the trial was upgraded.                     *)
LEMMA ConfirmInv ==
  ASSUME BillingInv, NEW p \in Payments, ConfirmPayment(p)
  PROVE  BillingInv'
<1>1. \A q \in blApplied : blPayments'[q] = "confirmed"
  BY DEF BillingInv, BillingTypeOK, ConfirmPayment
<1>2. CASE MayActivate
  <2>1. blTrial = "active" /\ blApplied = {}
    BY <1>2 DEF BillingInv, TrialAgrees, MayActivate
  <2>2. BillingTypeOK'
    BY <1>2 DEF BillingInv, BillingTypeOK, ConfirmPayment, Tiers, Business,
                LimitsAfterPayment, PaymentStatuses
  <2>3. blApplied' = {p} /\ blPayments'[p] = "confirmed"
    BY <1>2, <2>1 DEF BillingInv, BillingTypeOK, ConfirmPayment
  <2>4. LimitsFollowTier'
    <3>1. blMeter' = Business /\ blTier' = Business /\ blUsed' = blUsed
      BY <1>2 DEF ConfirmPayment, LimitsAfterPayment
    <3>2. ASSUME ~blLowered' PROVE blUsed <= Limit[Business]
      <4>1. ~blLowered /\ blTier <= Business /\ blTier \in Tiers /\ blUsed \in Nat
        <5>1. ~blLowered /\ ~(blTier > Business)
          BY <1>2, <3>2, Zenon DEF ConfirmPayment
        <5> QED BY <5>1 DEF BillingInv, BillingTypeOK, Tiers, Business
      <4>2. blUsed <= Limit[blTier]
        BY <1>2, <4>1 DEF BillingInv, LimitsFollowTier, MayActivate
      <4>3. Limit[blTier] <= Limit[Business] /\ Business \in Tiers
        BY <4>1, LimitAssumption DEF Tiers, Business
      <4> QED BY <4>1, <4>2, <4>3, LimitsAreNat
    <3> QED BY <3>1, <3>2 DEF LimitsFollowTier
  <2> QED BY <1>2, <2>2, <2>3, <2>4
          DEF BillingInv, ConfirmPayment, TrialAgrees, AppliedOnce
<1>3. CASE ~MayActivate
  <2>1. BillingTypeOK'
    BY <1>3 DEF BillingInv, BillingTypeOK, ConfirmPayment, PaymentStatuses
  <2>2. LimitsFollowTier'
    BY <1>3 DEF BillingInv, LimitsFollowTier, ConfirmPayment
  <2> QED BY <1>1, <1>3, <2>1, <2>2, PaidKept DEF BillingInv, ConfirmPayment
<1> QED BY <1>2, <1>3

LEMMA CancelInv == ASSUME BillingInv, CancelSubscription PROVE BillingInv'
<1>1. BillingTypeOK'
  BY DEF BillingInv, BillingTypeOK, CancelSubscription
<1>2. LimitsFollowTier'
  BY DEF BillingInv, LimitsFollowTier, CancelSubscription, HasAccess
<1> QED BY <1>1, <1>2 DEF BillingInv, CancelSubscription, TrialAgrees, AppliedOnce

LEMMA UsageInv ==
  ASSUME BillingInv, RenewSubscription \/ RecordUsage(1)
  PROVE  BillingInv'
<1>1. BillingTypeOK'
  BY DEF BillingInv, BillingTypeOK, RenewSubscription, RecordUsage
<1>2. LimitsFollowTier'
  BY LimitsAreNat DEF BillingInv, BillingTypeOK, LimitsFollowTier, RenewSubscription, RecordUsage
<1> QED BY <1>1, <1>2, PaidKept DEF BillingInv, RenewSubscription, RecordUsage

LEMMA UpgradeInv ==
  ASSUME BillingInv, NEW t \in Tiers, UpgradeSubscription(t)
  PROVE  BillingInv'
<1>1. BillingTypeOK'
  BY DEF BillingInv, BillingTypeOK, UpgradeSubscription
<1>2. LimitsFollowTier'
  <2>1. blTier \in Tiers /\ blTier <= t /\ blUsed \in Nat
    BY DEF BillingInv, BillingTypeOK, UpgradeSubscription, Tiers
  <2>2. Limit[blTier] <= Limit[t]
    BY <2>1, LimitAssumption
  <2> QED BY <2>1, <2>2, LimitsAreNat
          DEF BillingInv, LimitsFollowTier, UpgradeSubscription, HasAccess
<1> QED BY <1>1, <1>2, PaidKept DEF BillingInv, UpgradeSubscription

LEMMA ExpiryInv == ASSUME BillingInv, CheckTrialExpirations PROVE BillingInv'
<1>1. BillingTypeOK'
  BY DEF BillingInv, BillingTypeOK, CheckTrialExpirations, Expired
<1>2. blStatus # "active" /\ blApplied = {}
  BY DEF BillingInv, TrialAgrees, CheckTrialExpirations
<1>3. LimitsFollowTier'
  BY DEF BillingInv, LimitsFollowTier, CheckTrialExpirations, Expired
<1> QED BY <1>1, <1>2, <1>3
        DEF BillingInv, CheckTrialExpirations, Expired, TrialAgrees, AppliedOnce

LEMMA TimeInv == ASSUME BillingInv, TimePasses PROVE BillingInv'
<1>1. BillingTypeOK'
  BY TrialAssumption DEF BillingInv, BillingTypeOK, TimePasses
<1>2. LimitsFollowTier'
  BY DEF BillingInv, LimitsFollowTier, TimePasses
<1> QED BY <1>1, <1>2, PaidKept DEF BillingInv, TimePasses

LEMMA BillingStutterInv == ASSUME BillingInv, UNCHANGED blVars PROVE BillingInv'
  BY DEF blVars, BillingInv, BillingTypeOK, TrialAgrees, AppliedOnce, LimitsFollowTier

LEMMA BillingInvHolds == BillingSpec => []BillingInv
<1>1. BillingInv /\ [BillingNext]_blVars => BillingInv'
  BY SignupInv, PaymentInv, ConfirmInv, CancelInv, UsageInv, UpgradeInv, ExpiryInv, TimeInv,
     BillingStutterInv
  DEF BillingNext
<1> QED BY <1>1, BillingInitInv, PTL DEF BillingSpec

-----------------------------------------------------------------------------
(* Every variable has its type.                                             *)
THEOREM BillingTypeCorrect == BillingSpec => []BillingTypeOK
<1>1. BillingInv => BillingTypeOK
  BY DEF BillingInv
<1> QED BY <1>1, BillingInvHolds, PTL

(* The subscription, the trial, the usage limits and the payments of a      *)
(* tenant agree after any sequence of calls, although the engine updates    *)
(* four maps one after the other and a refused confirmation stops halfway.  *)
THEOREM BillingAgrees == BillingSpec => []BillingConsistent
<1>1. ASSUME AppliedOnce PROVE Cardinality(blApplied) <= 1
  <2>1. CASE blApplied = {}
    BY <2>1, FS_EmptySet
  <2>2. ASSUME NEW p \in blApplied PROVE Cardinality(blApplied) = 1
    <3>1. blApplied = {p}
      BY <1>1 DEF AppliedOnce
    <3> QED BY <3>1, FS_Singleton
  <2> QED BY <2>1, <2>2
<1>2. BillingInv => BillingConsistent
  BY <1>1 DEF BillingInv, BillingConsistent, PaidOnce
<1> QED BY <1>2, BillingInvHolds, PTL

(* No late confirmation, renewal or upgrade revives a subscription, and a   *)
(* tenant who paid and cancelled gets no other trial.                       *)
THEOREM AccessOnlyByTrial == BillingSpec => AccessRegained
<1>1. ASSUME BillingInv, [BillingNext]_blVars, ~HasAccess, HasAccess'
      PROVE  blApplied = {} /\ blTrial' = "active"
  <2>1. CASE Signup
    BY <1>1, <2>1 DEF BillingInv, Signup, MayTry
  <2>2. CASE ~Signup
    BY <1>1, <2>2
    DEF BillingNext, blVars, HasAccess, CreatePayment, SubmitPaymentTx, ConfirmPayment,
        MayActivate, CancelSubscription, RenewSubscription, UpgradeSubscription, RecordUsage,
        CheckTrialExpirations, Expired, TimePasses
  <2> QED BY <2>1, <2>2
<1>2. BillingInv /\ [BillingNext]_blVars
        => [~HasAccess /\ HasAccess' => blApplied = {} /\ blTrial' = "active"]_blVars
  BY <1>1
<1> QED BY <1>2, BillingInvHolds, PTL DEF BillingSpec, AccessRegained

-----------------------------------------------------------------------------
(* ApprovalChain, for any users and roles. *)
(***************************************************************************)
(* The copy of a call that is under way passed the tests of that call, and *)
(* what check_escalations listed was pending: both stay true while the row *)
(* changes, so whatever is written later is a row somebody was allowed to  *)
(* write.                                                                  *)
(***************************************************************************)
CopiesWereTested ==
  /\ \A u \in Users : apCall[u] # "none" => MayCall(u, apCall[u], apCopy[u])
  /\ apSweep.status \in {"none", "pending"}

ApprovalInv == ApprovalTypeOK /\ CopiesWereTested /\ ApprovedByAuthority

LEMMA ApprovalInitInv == ApprovalInit => ApprovalInv
<1>1. NoRequest \in Rows /\ NoRequest.status = "none"
  BY DEF NoRequest, Rows, Roles
<1> QED BY <1>1 DEF ApprovalInit, ApprovalInv, ApprovalTypeOK, CopiesWereTested,
                    ApprovedByAuthority

(* What a call writes, from a copy that passed its tests.                   *)
LEMMA WrittenRow ==
  ASSUME NEW u \in Users, NEW call \in {"approve", "reject", "cancel"}, NEW row \in Rows,
         MayCall(u, call, row)
  PROVE  /\ Result(u, call, row) \in Rows
         /\ Result(u, call, row).status \in Decided
         /\ Result(u, call, row).status = "approved" =>
              /\ Result(u, call, row).by \in Users \ {Requester}
              /\ RoleOf[Result(u, call, row).by] >= Result(u, call, row).role
<1>1. CASE call = "approve"
  BY <1>1, UsersAssumption DEF Result, MayCall, MayApprove, Rows, Decided
<1>2. CASE call = "reject"
  BY <1>2, UsersAssumption DEF Result, MayCall, Rows, Decided
<1>3. CASE call = "cancel"
  BY <1>3, UsersAssumption DEF Result, MayCall, Rows, Decided
<1> QED BY <1>1, <1>2, <1>3

(* What check_escalations writes over whatever the row has become.          *)
LEMMA EscalatedRow ==
  ASSUME NEW row \in Rows
  PROVE  /\ Escalated(row) \in Rows
         /\ Escalated(row).status \in {"expired", "escalated"}
<1>1. NextRole(row.role) \in Roles
  BY DEF NextRole, Rows, Roles, Admin
<1> QED BY <1>1 DEF Escalated, Rows, Roles, Admin, Decided

LEMMA ApprovalStepInv == ApprovalInv /\ [ApprovalNext]_apVars => ApprovalInv'
<1> SUFFICES ASSUME ApprovalInv, [ApprovalNext]_apVars PROVE ApprovalInv'
  OBVIOUS
<1> USE DEF ApprovalInv
<1>0. CASE UNCHANGED apVars
  BY <1>0 DEF apVars, ApprovalTypeOK, CopiesWereTested, ApprovedByAuthority, MayCall, MayApprove
<1>1. ASSUME NEW role \in Roles, CreateRequest(role) PROVE ApprovalInv'
  BY <1>1, UsersAssumption, TimeoutAssumption
  DEF CreateRequest, ApprovalTypeOK, CopiesWereTested, ApprovedByAuthority, MayCall,
      MayApprove, Rows, Roles, Decided
<1>2. ASSUME NEW u \in Users, NEW call \in {"approve", "reject", "cancel"}, Begin(u, call)
      PROVE  ApprovalInv'
  <2>1. ApprovalTypeOK'
    BY <1>2 DEF Begin, ApprovalTypeOK
  <2>2. CopiesWereTested'
    BY <1>2 DEF Begin, ApprovalTypeOK, CopiesWereTested, MayCall, MayApprove
  <2> QED BY <1>2, <2>1, <2>2 DEF Begin, ApprovedByAuthority
<1>3. ASSUME NEW u \in Users, End(u) PROVE ApprovalInv'
  <2>1. /\ apCall[u] \in {"approve", "reject", "cancel"}
        /\ apCopy[u] \in Rows
        /\ MayCall(u, apCall[u], apCopy[u])
    BY <1>3 DEF End, ApprovalTypeOK, CopiesWereTested
  <2>2. ApprovalTypeOK'
    <3>1. NoRequest \in Rows
      BY UsersAssumption DEF NoRequest, Rows, Roles
    <3> QED BY <1>3, <2>1, <3>1, WrittenRow DEF End, UpdateRequest, ApprovalTypeOK
  <2>3. CopiesWereTested'
    BY <1>3 DEF End, ApprovalTypeOK, CopiesWereTested, MayCall, MayApprove
  <2>4. ApprovedByAuthority'
    BY <1>3, <2>1, WrittenRow DEF End, UpdateRequest, ApprovedByAuthority
  <2> QED BY <2>2, <2>3, <2>4
<1>4. CASE ListExpired
  BY <1>4 DEF ListExpired, ApprovalTypeOK, CopiesWereTested, ApprovedByAuthority, MayCall,
              MayApprove
<1>5. CASE Escalate
  <2>1. /\ apRow' \in Rows
        /\ UNCHANGED apRow \/ apRow'.status \in {"expired", "escalated"}
    BY <1>5, EscalatedRow DEF Escalate, UpdateRequest, ApprovalTypeOK
  <2>2. apSweep' \in Rows /\ apSweep'.status = "none"
    BY <1>5, UsersAssumption DEF Escalate, NoRequest, Rows, Roles
  <2> QED BY <1>5, <2>1, <2>2
          DEF Escalate, ApprovalTypeOK, CopiesWereTested, ApprovedByAuthority, MayCall, MayApprove
<1>6. CASE Hour
  <2>1. apRow' = [apRow EXCEPT !.due = apRow.due - 1] /\ apRow'.due \in Nat
    BY <1>6 DEF Hour, ApprovalTypeOK, Rows, NoTimeout
  <2>2. \A u \in Users : /\ apCopy'[u] \in Rows
                         /\ apCopy'[u].status = apCopy[u].status
                         /\ apCopy'[u].role = apCopy[u].role
    <3> TAKE u \in Users
    <3> DEFINE due == IF apCopy[u].due > 0 THEN apCopy[u].due - 1 ELSE apCopy[u].due
    <3>1. apCopy[u] \in Rows /\ apCopy'[u] = [apCopy[u] EXCEPT !.due = due]
      BY <1>6 DEF Hour, ApprovalTypeOK
    <3>2. due \in Nat \cup {NoTimeout}
      BY <3>1 DEF Rows, NoTimeout
    <3> QED BY <3>1, <3>2 DEF Rows
  <2>3. ApprovalTypeOK'
    BY <1>6, <2>1, <2>2 DEF Hour, ApprovalTypeOK, Rows
  <2>4. CopiesWereTested'
    BY <1>6, <2>2 DEF Hour, ApprovalTypeOK, CopiesWereTested, MayCall, MayApprove
  <2> QED BY <2>1, <2>3, <2>4 DEF ApprovedByAuthority, ApprovalTypeOK, Rows
<1> QED BY <1>0, <1>1, <1>2, <1>3, <1>4, <1>5, <1>6 DEF ApprovalNext, Decide

LEMMA ApprovalInvHolds == ApprovalSpec => []ApprovalInv
  BY ApprovalInitInv, ApprovalStepInv, PTL DEF ApprovalSpec

(* Every variable has its type.                                             *)
THEOREM ApprovalTypeCorrect == ApprovalSpec => []ApprovalTypeOK
<1>1. ApprovalInv => ApprovalTypeOK
  BY DEF ApprovalInv
<1> QED BY <1>1, ApprovalInvHolds, PTL

(* update_request writes the whole row or nothing: an approved row was      *)
(* approved by somebody with the role it asks for, however the calls        *)
(* overlap.                                                                 *)
THEOREM ApprovalNeedsAuthority == ApprovalSpec => []ApprovedByAuthority
<1>1. ApprovalInv => ApprovedByAuthority
  BY DEF ApprovalInv
<1> QED BY <1>1, ApprovalInvHolds, PTL

LEMMA StepNeverReopens ==
  ASSUME ApprovalInv, [ApprovalNext]_apVars, apRow.status \in Decided
  PROVE  apRow'.status # "pending"
<1>1. "pending" \notin Decided
  BY DEF Decided
<1>2. CASE UNCHANGED apVars
  BY <1>1, <1>2 DEF apVars
<1>3. ASSUME NEW role \in Roles, CreateRequest(role) PROVE FALSE
  BY <1>3 DEF CreateRequest, Decided
<1>4. ASSUME NEW u \in Users, End(u) PROVE apRow'.status \in Decided
  <2>1. /\ apCall[u] \in {"approve", "reject", "cancel"}
        /\ apCopy[u] \in Rows
        /\ MayCall(u, apCall[u], apCopy[u])
    BY <1>4 DEF End, ApprovalInv, ApprovalTypeOK, CopiesWereTested
  <2> QED BY <1>4, <2>1, WrittenRow DEF End, UpdateRequest
<1>5. CASE Escalate
  BY <1>5, EscalatedRow DEF Escalate, UpdateRequest, Decided, ApprovalInv, ApprovalTypeOK
<1>6. CASE Hour
  BY <1>1, <1>6 DEF Hour, ApprovalInv, ApprovalTypeOK, Rows
<1> QED BY <1>1, <1>2, <1>3, <1>4, <1>5, <1>6 DEF ApprovalNext, Decide, Begin, ListExpired

(* No decision or escalation is ever undone by a stale copy.                *)
THEOREM DecisionsStayMade == ApprovalSpec => NeverReopened
<1>1. ApprovalInv /\ [ApprovalNext]_apVars
        => [apRow.status \in Decided => apRow'.status # "pending"]_apVars
  BY StepNeverReopens
<1> QED BY <1>1, ApprovalInvHolds, PTL DEF ApprovalSpec, NeverReopened

=============================================================================
