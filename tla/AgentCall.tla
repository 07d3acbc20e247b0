------------------------------- MODULE AgentCall -------------------------------
(***************************************************************************)
(* BaseAgent.run (src/core/agents/resilience): the threads that call one   *)
(* agent go through its AgentCircuitBreaker, wait for a slot of its        *)
(* AgentBulkhead, execute, give the slot back and report to the breaker.   *)
(*                                                                         *)
(* What breaker and bulkhead do under their locks is one step, and so is   *)
(* every operation of the semaphore.  The attempts of the retry loop are   *)
(* one step with the outcome of the last.                                  *)
(***************************************************************************)
EXTENDS AgentBreaker, FiniteSets

CONSTANTS
  AgentThreads,
  Slots,              \* max_concurrent
  QueueLimit,         \* max_queue
  MaxErrors           \* bound on the runs whose execute() fails

ASSUME AgentAssumption ==
  /\ IsFiniteSet(AgentThreads)
  /\ {Slots, QueueLimit} \subseteq Nat \ {0}
  /\ MaxErrors \in Nat

VARIABLES
  agBreaker,          \* the agent's AgentCircuitBreaker
  agBulkhead,         \* the semaphore's permits, _queue_count, _active_count
  agPc, agOutcome,    \* each thread: where it is, and `source'
  agErrors

agVars == <<agBreaker, agBulkhead, agPc, agOutcome, agErrors>>

Outcomes == {"deterministic", "fallback", "error", "degraded"}

AgentPCs == {"idle", "admitted", "waiting", "granted", "timed_out", "running",
             "ran", "freed", "record", "report"}

AgentTypeOK ==
  /\ agBreaker \in AgentBreakers
  /\ agBulkhead \in [permits : 0..Slots, queued : 0..QueueLimit, active : 0..Slots]
  /\ agPc \in [AgentThreads -> AgentPCs]
  /\ agOutcome \in [AgentThreads -> Outcomes]
  /\ agErrors \in 0..MaxErrors

AgentInit ==
  /\ agBreaker = NewBreaker
  /\ agBulkhead = [permits |-> Slots, queued |-> 0, active |-> 0]
  /\ agPc = [th \in AgentThreads |-> "idle"]
  /\ agOutcome = [th \in AgentThreads |-> "degraded"]
  /\ agErrors = 0

AgentGoto(th, l) == agPc' = [agPc EXCEPT ![th] = l]

-----------------------------------------------------------------------------
(* AgentCircuitBreaker *)

(* can_call; a call that is refused gets the fallback at once. *)
CanCall(th) ==
  /\ agPc[th] = "idle"
  /\ agBreaker' = Admitted(Settled(agBreaker))
  /\ IF LetsThrough(Settled(agBreaker)) THEN AgentGoto(th, "admitted") ELSE UNCHANGED agPc
  /\ UNCHANGED <<agBulkhead, agOutcome, agErrors>>

(* The end of run(): a fallback counts neither as success nor as failure... *)
RecordCall(th) ==
  /\ agPc[th] = "record"
  /\ agBreaker' = CASE agOutcome[th] = "deterministic" -> AfterSuccess(agBreaker)
                     [] agOutcome[th] = "error" -> AfterFailure(agBreaker)
                     [] agOutcome[th] = "fallback" -> agBreaker
  /\ AgentGoto(th, "report")
  /\ UNCHANGED <<agBulkhead, agOutcome, agErrors>>

(* ... and _record_run, which looks at `state'. *)
ReportRun(th) ==
  /\ agPc[th] = "report"
  /\ agBreaker' = Settled(agBreaker)
  /\ AgentGoto(th, "idle")
  /\ UNCHANGED <<agBulkhead, agOutcome, agErrors>>

(* reset(), by an operator *)
ResetBreaker ==
  /\ agBreaker' = Turned(agBreaker, "closed")
  /\ UNCHANGED <<agBulkhead, agPc, agOutcome, agErrors>>

CoolDown ==
  /\ agBreaker.left > 0
  /\ agBreaker' = [agBreaker EXCEPT !.left = Later(@)]
  /\ UNCHANGED <<agBulkhead, agPc, agOutcome, agErrors>>

-----------------------------------------------------------------------------
(* AgentBulkhead *)

(* acquire(), first part *)
JoinQueue(th) ==
  /\ agPc[th] = "admitted"
  /\ \/ /\ agBulkhead.queued >= QueueLimit
        /\ agOutcome' = [agOutcome EXCEPT ![th] = "degraded"]
        /\ AgentGoto(th, "report")
        /\ UNCHANGED agBulkhead
     \/ /\ agBulkhead.queued < QueueLimit
        /\ agBulkhead' = [agBulkhead EXCEPT !.queued = @ + 1]
        /\ AgentGoto(th, "waiting")
        /\ UNCHANGED agOutcome
  /\ UNCHANGED <<agBreaker, agErrors>>

(* The semaphore grants a permit, or none is free until the timeout. *)
AwaitPermit(th) ==
  /\ agPc[th] = "waiting"
  /\ \/ /\ agBulkhead.permits > 0
        /\ agBulkhead' = [agBulkhead EXCEPT !.permits = @ - 1]
        /\ AgentGoto(th, "granted")
     \/ agBulkhead.permits = 0 /\ AgentGoto(th, "timed_out") /\ UNCHANGED agBulkhead
  /\ UNCHANGED <<agBreaker, agOutcome, agErrors>>

(* Fault: a call that timed out stays counted. *)
LeaveQueueGranted(th) ==
  /\ \/ /\ agPc[th] = "granted"
        /\ agBulkhead' = [agBulkhead EXCEPT !.queued = @ - 1, !.active = @ + 1]
        /\ AgentGoto(th, "running")
        /\ UNCHANGED agOutcome
     \/ /\ agPc[th] = "timed_out"
        /\ agOutcome' = [agOutcome EXCEPT ![th] = "degraded"]
        /\ AgentGoto(th, "report")
        /\ UNCHANGED agBulkhead
  /\ UNCHANGED <<agBreaker, agErrors>>

(* acquire(), last part *)
LeaveQueue(th) ==
  /\ \/ /\ agPc[th] = "granted"
        /\ agBulkhead' = [agBulkhead EXCEPT !.queued = @ - 1, !.active = @ + 1]
        /\ AgentGoto(th, "running")
        /\ UNCHANGED agOutcome
     \/ /\ agPc[th] = "timed_out"
        /\ agBulkhead' = [agBulkhead EXCEPT !.queued = @ - 1]
        /\ agOutcome' = [agOutcome EXCEPT ![th] = "degraded"]
        /\ AgentGoto(th, "report")
  /\ UNCHANGED <<agBreaker, agErrors>>

(* execute() with its retries, and fallback() when all of them failed *)
ExecuteAgent(th) ==
  /\ agPc[th] = "running"
  /\ \E outcome \in Outcomes \ {"degraded"} :
       /\ agOutcome' = [agOutcome EXCEPT ![th] = outcome]
       /\ IF outcome = "deterministic" THEN UNCHANGED agErrors
          ELSE agErrors < MaxErrors /\ agErrors' = agErrors + 1
  /\ AgentGoto(th, "ran")
  /\ UNCHANGED <<agBreaker, agBulkhead>>

(* release(): the count first, then the semaphore *)
ReleaseSlot(th) ==
  /\ \/ /\ agPc[th] = "ran"
        /\ agBulkhead' = [agBulkhead EXCEPT !.active = IF @ > 0 THEN @ - 1 ELSE 0]
        /\ AgentGoto(th, "freed")
     \/ /\ agPc[th] = "freed"
        /\ agBulkhead' = [agBulkhead EXCEPT !.permits = @ + 1]
        /\ AgentGoto(th, "record")
  /\ UNCHANGED <<agBreaker, agOutcome, agErrors>>

-----------------------------------------------------------------------------
AgentStep(th) ==
  \/ CanCall(th) \/ JoinQueue(th) \/ AwaitPermit(th) \/ LeaveQueue(th)
  \/ ExecuteAgent(th) \/ ReleaseSlot(th) \/ RecordCall(th) \/ ReportRun(th)

AgentNext == (\E th \in AgentThreads : AgentStep(th)) \/ ResetBreaker \/ CoolDown

AgentSpec == AgentInit /\ [][AgentNext]_agVars

(* Every thread calls the agent again and again, and time passes. *)
AgentFairness ==
  WF_agVars(CoolDown) /\ \A th \in AgentThreads : WF_agVars(AgentStep(th))

AgentFairSpec == AgentSpec /\ AgentFairness

-----------------------------------------------------------------------------
(* Properties *)

At(labels) == Cardinality({th \in AgentThreads : agPc[th] \in labels})

(* No way through acquire() and release(), refusals and timeouts included,  *)
(* loses or duplicates a permit or a place in the queue: the counters are   *)
(* those of the threads that are waiting and running.                       *)
SlotsAccounted ==
  /\ agBulkhead.permits + At({"granted", "running", "ran", "freed"}) = Slots
  /\ agBulkhead.queued = At({"waiting", "granted", "timed_out"})
  /\ agBulkhead.active = At({"running", "ran"})

(* circuit_breaker.py:6-7: a half-open circuit closes after                 *)
(* success_threshold successes.  Calls are made and failures end, so it     *)
(* should close; but it lets through only half_open_max_calls calls (1 by   *)
(* default, against a success_threshold of 2), counts them for ever, and    *)
(* gets no report of those that found no slot or ended in a fallback.       *)
HalfOpenCloses == agBreaker.state = "half_open" ~> agBreaker.state = "closed"
=============================================================================
