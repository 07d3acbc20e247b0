-------------------------- MODULE AgentBreakerProofs --------------------------
(* Theorems about the breaker of the agents: the calls that go through it    *)
(* and through the bulkhead in one process (AgentCall), and the processes    *)
(* and gateways that share a circuit in Redis (SharedCircuit).               *)
EXTENDS AgentCall, SharedCircuit, FiniteSetTheorems, TLAPS

(* No method of an AgentCircuitBreaker leaves the range of its counters.    *)
LEMMA BreakerTyped ==
  ASSUME NEW b \in AgentBreakers
  PROVE  /\ \A s \in CircuitStates : Turned(b, s) \in AgentBreakers
         /\ Settled(b) \in AgentBreakers
         /\ Admitted(b) \in AgentBreakers
         /\ AfterSuccess(b) \in AgentBreakers
         /\ AfterFailure(b) \in AgentBreakers
         /\ [b EXCEPT !.left = Later(@)] \in AgentBreakers
<1> USE DEF AgentBreakers, CircuitStates, NoFailure
<1>0. /\ AgentThreshold \in Nat \ {0} /\ ProbeLimit \in Nat \ {0} /\ ProbeSuccesses \in Nat \ {0}
      /\ CooldownTicks \in Nat
  BY BreakerAssumption
<1> USE <1>0
<1>1. NewBreaker \in AgentBreakers
  BY DEF NewBreaker
<1>9. \A f \in AgentBreakers, s \in CircuitStates, l \in NoFailure..CooldownTicks :
        [f EXCEPT !.state = s, !.left = l] \in AgentBreakers
  OBVIOUS
<1>2. ASSUME NEW c \in AgentBreakers, NEW s \in CircuitStates
      PROVE  Turned(c, s) \in AgentBreakers
  <2>1. c.left \in NoFailure..CooldownTicks
    OBVIOUS
  <2>2. CASE c.state = s
    BY <2>2 DEF Turned
  <2>3. CASE c.state # s /\ s = "closed"
    <3>1. Turned(c, s) = [NewBreaker EXCEPT !.state = s, !.left = NoFailure]
      BY <2>3 DEF Turned
    <3>2. NoFailure \in NoFailure..CooldownTicks
      OBVIOUS
    <3> QED BY <1>1, <1>9, <3>1, <3>2
  <2>4. CASE c.state # s /\ s # "closed"
    <3>1. Turned(c, s) = [NewBreaker EXCEPT !.state = s, !.left = c.left]
      BY <2>4 DEF Turned
    <3> QED BY <1>1, <1>9, <2>1, <3>1
  <2> QED BY <2>2, <2>3, <2>4
<1>3. Settled(b) \in AgentBreakers
  BY <1>2 DEF Settled
<1>4. Admitted(b) \in AgentBreakers
  BY DEF Admitted
<1>5. AfterSuccess(b) \in AgentBreakers
  BY <1>2 DEF AfterSuccess
<1>6. AfterFailure(b) \in AgentBreakers
  <2>1. [b EXCEPT !.left = CooldownTicks] \in AgentBreakers
    OBVIOUS
  <2>2. Turned([b EXCEPT !.left = CooldownTicks], "open") \in AgentBreakers
    BY <1>2, <2>1
  <2>3. b.failures + 1 < AgentThreshold =>
          [[b EXCEPT !.left = CooldownTicks] EXCEPT !.failures = @ + 1] \in AgentBreakers
    <3>1. \A f \in AgentBreakers :
            f.failures + 1 < AgentThreshold => [f EXCEPT !.failures = @ + 1] \in AgentBreakers
      OBVIOUS
    <3>2. [b EXCEPT !.left = CooldownTicks].failures = b.failures
      OBVIOUS
    <3> QED BY <2>1, <3>1, <3>2
  <2> QED BY <2>2, <2>3 DEF AfterFailure
<1>7. [b EXCEPT !.left = Later(@)] \in AgentBreakers
  BY DEF Later
<1> QED BY <1>2, <1>3, <1>4, <1>5, <1>6, <1>7

-----------------------------------------------------------------------------
(***************************************************************************)
(* AgentCall, for any number of threads and any limits.  That the permits  *)
(* are accounted for rests on counting the threads between a step that     *)
(* takes one and the step that gives it back: each moves one thread.       *)
(***************************************************************************)
(* A thread reports only what its execution came to.                        *)
OutcomeKnown ==
  \A th \in AgentThreads :
    agPc[th] \in {"ran", "freed", "record"} => agOutcome[th] # "degraded"

SlotsInv == AgentTypeOK /\ OutcomeKnown /\ SlotsAccounted

Bit(b) == IF b THEN 1 ELSE 0

(* One thread moves: how the number of threads in some places changes.      *)
LEMMA Counted ==
  ASSUME AgentTypeOK, NEW th \in AgentThreads, NEW to \in AgentPCs, NEW labels,
         AgentGoto(th, to)
  PROVE  /\ At(labels) \in Nat
         /\ At(labels)' = At(labels) + Bit(to \in labels) - Bit(agPc[th] \in labels)
<1> DEFINE In == {x \in AgentThreads : agPc[x] \in labels}
<1>1. IsFiniteSet(In) /\ IsFiniteSet(In \ {th})
  BY AgentAssumption, FS_Subset, FS_RemoveElement
<1>2. At(labels) \in Nat
  BY <1>1, FS_CardinalityType DEF At
<1>3. In' = (IF to \in labels THEN In \cup {th} ELSE In \ {th})
  BY DEF AgentTypeOK, AgentGoto
<1>4. th \in In <=> agPc[th] \in labels
  OBVIOUS
<1>5. Cardinality(In') = Cardinality(In) + Bit(to \in labels) - Bit(agPc[th] \in labels)
  <2>1. th \notin In => Cardinality(In \cup {th}) = Cardinality(In) + 1
    BY <1>1, FS_AddElement
  <2>2. th \in In => Cardinality(In \ {th}) = Cardinality(In) - 1
    BY <1>1, FS_RemoveElement
  <2>3. th \in In => In \cup {th} = In
    OBVIOUS
  <2>4. th \notin In => In \ {th} = In
    OBVIOUS
  <2>5. Cardinality(In) \in Nat
    BY <1>1, FS_CardinalityType
  <2> HIDE DEF In
  <2>6. CASE to \in labels
    BY <1>3, <1>4, <2>1, <2>3, <2>5, <2>6 DEF Bit
  <2>7. CASE to \notin labels
    <3>1. CASE th \in In
      BY <1>3, <1>4, <2>2, <2>5, <2>7, <3>1 DEF Bit
    <3>2. CASE th \notin In
      <4>1. In' = In
        BY <1>3, <2>4, <2>7, <3>2
      <4>2. Bit(to \in labels) = 0 /\ Bit(agPc[th] \in labels) = 0
        BY <1>4, <2>7, <3>2 DEF Bit
      <4> QED BY <2>5, <4>1, <4>2
    <3> QED BY <3>1, <3>2
  <2> QED BY <2>6, <2>7
<1> QED BY <1>2, <1>5 DEF At

(* Running threads hold permits. *)
LEMMA ActiveHold ==
  ASSUME AgentTypeOK
  PROVE  /\ \A labels : At(labels) \in Nat
         /\ At({"running", "ran"}) <= At({"granted", "running", "ran", "freed"})
<1>1. \A labels : IsFiniteSet({x \in AgentThreads : agPc[x] \in labels})
  BY AgentAssumption, FS_Subset
<1>2. {x \in AgentThreads : agPc[x] \in {"running", "ran"}}
        \subseteq {x \in AgentThreads : agPc[x] \in {"granted", "running", "ran", "freed"}}
  OBVIOUS
<1>3. \A labels : At(labels) \in Nat
  BY <1>1, FS_CardinalityType DEF At
<1> QED BY <1>1, <1>2, <1>3, FS_Subset DEF At

LEMMA AgentInitInv == AgentInit => SlotsInv
<1> SUFFICES ASSUME AgentInit PROVE SlotsInv
  OBVIOUS
<1>1. AgentTypeOK
  BY AgentAssumption, BreakerAssumption
     DEF AgentInit, AgentTypeOK, AgentBreakers, NewBreaker, CircuitStates, NoFailure, Outcomes,
         AgentPCs
<1>2. \A labels : "idle" \notin labels => At(labels) = 0
  <2>1. \A labels : "idle" \notin labels => {x \in AgentThreads : agPc[x] \in labels} = {}
    BY DEF AgentInit
  <2> QED BY <2>1, FS_EmptySet DEF At
<1>3. SlotsAccounted
  BY <1>2, AgentAssumption DEF AgentInit, SlotsAccounted
<1> QED BY <1>1, <1>3 DEF SlotsInv, AgentInit, OutcomeKnown

(* The steps that leave the bulkhead alone and move a thread, if any,       *)
(* between places where it holds nothing.                                   *)
LEMMA OutsideBulkhead ==
  ASSUME SlotsInv, NEW th \in AgentThreads, NEW to \in {"idle", "admitted", "record", "report"},
         agPc[th] \in {"idle", "admitted", "record", "report"}, AgentGoto(th, to),
         UNCHANGED agBulkhead
  PROVE  SlotsAccounted'
BY Counted, ActiveHold DEF SlotsInv, SlotsAccounted, Bit, AgentPCs, AgentTypeOK

(* By how much a step changes the three counters.                           *)
Shifted(dp, dq, da) ==
  /\ agBulkhead' \in [permits : Int, queued : Int, active : Int]
  /\ agBulkhead'.permits = agBulkhead.permits + dp
  /\ agBulkhead'.queued = agBulkhead.queued + dq
  /\ agBulkhead'.active = agBulkhead.active + da

(* The steps inside acquire() and release().                                *)
LEMMA InsideBulkhead ==
  ASSUME SlotsInv, NEW th \in AgentThreads, NEW to \in AgentPCs, AgentGoto(th, to),
         NEW dp \in {-1, 0, 1}, NEW dq \in {-1, 0, 1}, NEW da \in {-1, 0, 1},
         Shifted(dp, dq, da),
         LET holds == {"granted", "running", "ran", "freed"}
             queues == {"waiting", "granted", "timed_out"}
             runs == {"running", "ran"}
         IN /\ dp = Bit(agPc[th] \in holds) - Bit(to \in holds)
            /\ dq = Bit(to \in queues) - Bit(agPc[th] \in queues)
            /\ da = Bit(to \in runs) - Bit(agPc[th] \in runs),
         dp = -1 => agBulkhead.permits > 0, dq = 1 => agBulkhead.queued < QueueLimit
  PROVE  /\ SlotsAccounted'
         /\ agBulkhead' \in [permits : 0..Slots, queued : 0..QueueLimit, active : 0..Slots]
<1>1. /\ agBulkhead.permits \in 0..Slots /\ agBulkhead.queued \in 0..QueueLimit
      /\ agBulkhead.active \in 0..Slots /\ Slots \in Nat /\ QueueLimit \in Nat
      /\ agPc' \in [AgentThreads -> AgentPCs]
  BY AgentAssumption DEF SlotsInv, AgentTypeOK, AgentGoto
<1>2. SlotsAccounted'
  <2>1. /\ At({"granted", "running", "ran", "freed"})'
             = At({"granted", "running", "ran", "freed"}) - dp
        /\ At({"waiting", "granted", "timed_out"})' = At({"waiting", "granted", "timed_out"}) + dq
        /\ At({"running", "ran"})' = At({"running", "ran"}) + da
    BY Counted DEF SlotsInv, Bit
  <2>2. /\ agBulkhead'.permits = agBulkhead.permits + dp
        /\ agBulkhead'.queued = agBulkhead.queued + dq
        /\ agBulkhead'.active = agBulkhead.active + da
    BY DEF Shifted
  <2> QED BY <1>1, <2>1, <2>2, ActiveHold DEF SlotsInv, SlotsAccounted
<1>3. /\ \A labels : At(labels)' \in Nat
      /\ At({"running", "ran"})' <= At({"granted", "running", "ran", "freed"})'
  <2>1. \A labels : IsFiniteSet({x \in AgentThreads : agPc'[x] \in labels})
    BY AgentAssumption, FS_Subset
  <2>2. {x \in AgentThreads : agPc'[x] \in {"running", "ran"}}
          \subseteq {x \in AgentThreads : agPc'[x] \in {"granted", "running", "ran", "freed"}}
    OBVIOUS
  <2>3. \A labels : At(labels)' \in Nat
    BY <2>1, FS_CardinalityType DEF At
  <2> QED BY <2>1, <2>2, <2>3, FS_Subset DEF At
<1>4. agBulkhead.queued + dq <= QueueLimit /\ agBulkhead.permits + dp >= 0
  BY <1>1
<1>5. /\ agBulkhead.permits + dp \in 0..Slots
      /\ agBulkhead.queued + dq \in 0..QueueLimit
      /\ agBulkhead.active + da \in 0..Slots
  <2>1. /\ agBulkhead'.permits = agBulkhead.permits + dp
        /\ agBulkhead'.queued = agBulkhead.queued + dq
        /\ agBulkhead'.active = agBulkhead.active + da
    BY DEF Shifted
  <2>2. /\ agBulkhead.permits + dp + At({"granted", "running", "ran", "freed"})' = Slots
        /\ agBulkhead.queued + dq = At({"waiting", "granted", "timed_out"})'
        /\ agBulkhead.active + da = At({"running", "ran"})'
    BY <1>2, <2>1 DEF SlotsAccounted
  <2>3. dp \in Int /\ dq \in Int /\ da \in Int
    OBVIOUS
  <2> HIDE DEF At
  <2> QED BY <1>1, <1>3, <1>4, <2>2, <2>3
<1>6. /\ agBulkhead'.permits \in 0..Slots
      /\ agBulkhead'.queued \in 0..QueueLimit
      /\ agBulkhead'.active \in 0..Slots
  BY <1>5 DEF Shifted
<1>7. agBulkhead' \in [permits : 0..Slots, queued : 0..QueueLimit, active : 0..Slots]
  <2>1. \A r \in [permits : Int, queued : Int, active : Int] :
          r.permits \in 0..Slots /\ r.queued \in 0..QueueLimit /\ r.active \in 0..Slots
            => r \in [permits : 0..Slots, queued : 0..QueueLimit, active : 0..Slots]
    OBVIOUS
  <2> QED BY <1>6, <2>1 DEF Shifted
<1> QED BY <1>2, <1>7

(* A thread that is counted makes its count positive.                       *)
LEMMA CountedIsPositive ==
  ASSUME AgentTypeOK, NEW th \in AgentThreads, NEW labels, agPc[th] \in labels
  PROVE  At(labels) > 0
<1> DEFINE In == {x \in AgentThreads : agPc[x] \in labels}
<1>1. IsFiniteSet(In) /\ In # {}
  BY AgentAssumption, FS_Subset
<1>2. Cardinality(In) # 0 /\ Cardinality(In) \in Nat
  BY <1>1, FS_EmptySet, FS_CardinalityType
<1> QED BY <1>2 DEF At

LEMMA AgentStepInv ==
  ASSUME SlotsInv, [AgentNext]_agVars
  PROVE  SlotsInv'
<1> USE DEF SlotsInv
<1>0. /\ agPc \in [AgentThreads -> AgentPCs]
      /\ agBulkhead \in [permits : 0..Slots, queued : 0..QueueLimit, active : 0..Slots]
      /\ agBreaker \in AgentBreakers /\ agOutcome \in [AgentThreads -> Outcomes]
      /\ agErrors \in 0..MaxErrors /\ MaxErrors \in Nat
      /\ AgentTypeOK /\ SlotsAccounted
  BY AgentAssumption DEF AgentTypeOK
<1>1. ASSUME NEW th \in AgentThreads, CanCall(th) \/ RecordCall(th) \/ ReportRun(th)
      PROVE  SlotsInv'
  <2>1. agBreaker' \in AgentBreakers
    BY <1>0, <1>1, BreakerTyped DEF CanCall, RecordCall, ReportRun, OutcomeKnown, Outcomes
  <2>2. PICK to \in {"idle", "admitted", "record", "report"} : AgentGoto(th, to)
    BY <1>0, <1>1 DEF CanCall, RecordCall, ReportRun, AgentGoto
  <2>3. /\ agPc[th] \in {"idle", "admitted", "record", "report"}
        /\ UNCHANGED <<agBulkhead, agOutcome, agErrors>>
    BY <1>1 DEF CanCall, RecordCall, ReportRun
  <2>4. agPc' \in [AgentThreads -> AgentPCs]
    BY <1>0, <2>2 DEF AgentGoto, AgentPCs
  <2>5. SlotsAccounted'
    BY <2>2, <2>3, OutsideBulkhead
  <2>6. OutcomeKnown'
    BY <1>0, <1>1, <2>3 DEF CanCall, RecordCall, ReportRun, AgentGoto, OutcomeKnown
  <2> QED BY <1>0, <2>1, <2>3, <2>4, <2>5, <2>6 DEF AgentTypeOK
<1>2. CASE ResetBreaker \/ CoolDown
  <2>1. agBreaker' \in AgentBreakers
    BY <1>0, <1>2, BreakerTyped DEF ResetBreaker, CoolDown, CircuitStates
  <2>2. UNCHANGED <<agBulkhead, agPc, agOutcome, agErrors>>
    BY <1>2 DEF ResetBreaker, CoolDown
  <2> QED BY <2>1, <2>2 DEF AgentTypeOK, OutcomeKnown, SlotsAccounted, At
<1>3. CASE UNCHANGED agVars
  BY <1>3 DEF agVars, AgentTypeOK, OutcomeKnown, SlotsAccounted, At
<1>4. ASSUME NEW th \in AgentThreads, ExecuteAgent(th)
      PROVE  SlotsInv'
  <2>1. /\ agOutcome' \in [AgentThreads -> Outcomes] /\ agOutcome'[th] # "degraded"
        /\ \A x \in AgentThreads \ {th} : agOutcome'[x] = agOutcome[x]
        /\ agErrors' \in 0..MaxErrors
    BY <1>0, <1>4 DEF ExecuteAgent
  <2>2. AgentGoto(th, "ran") /\ agPc[th] = "running" /\ UNCHANGED <<agBreaker, agBulkhead>>
    BY <1>4 DEF ExecuteAgent
  <2>3. SlotsAccounted'
    BY <1>0, <2>2, Counted, ActiveHold DEF SlotsAccounted, Bit, AgentPCs
  <2>4. OutcomeKnown' /\ agPc' \in [AgentThreads -> AgentPCs]
    BY <1>0, <2>1, <2>2 DEF AgentGoto, OutcomeKnown, AgentPCs
  <2> QED BY <1>0, <2>1, <2>2, <2>3, <2>4 DEF AgentTypeOK
<1>5. ASSUME NEW th \in AgentThreads,
             JoinQueue(th) \/ AwaitPermit(th) \/ LeaveQueue(th) \/ ReleaseSlot(th)
      PROVE  SlotsInv'
  <2>0. "degraded" \in Outcomes
    BY DEF Outcomes
  <2>1. /\ UNCHANGED <<agBreaker, agErrors>>
        /\ \/ agOutcome' = agOutcome
           \/ /\ agOutcome' = [agOutcome EXCEPT ![th] = "degraded"]
              /\ AgentGoto(th, "report")
    BY <1>5 DEF JoinQueue, AwaitPermit, LeaveQueue, ReleaseSlot
  <2>9. agOutcome' \in [AgentThreads -> Outcomes]
    BY <1>0, <2>0, <2>1
  <2>2. OutcomeKnown' /\ agPc' \in [AgentThreads -> AgentPCs]
    BY <1>0, <1>5, <2>1
       DEF JoinQueue, AwaitPermit, LeaveQueue, ReleaseSlot, AgentGoto, OutcomeKnown, AgentPCs
  <2>3. /\ SlotsAccounted'
        /\ agBulkhead' \in [permits : 0..Slots, queued : 0..QueueLimit, active : 0..Slots]
    <3>0. UNCHANGED agBulkhead => Shifted(0, 0, 0)
      BY <1>0, AgentAssumption DEF Shifted
    <3>1. CASE JoinQueue(th) /\ agBulkhead.queued >= QueueLimit
      <4>1. AgentGoto(th, "report") /\ UNCHANGED agBulkhead /\ agPc[th] = "admitted"
        BY <1>0, <3>1, AgentAssumption DEF JoinQueue
      <4> QED BY <1>0, <4>1, OutsideBulkhead
    <3>2. CASE JoinQueue(th) /\ agBulkhead.queued < QueueLimit
      <4>1. /\ AgentGoto(th, "waiting") /\ agPc[th] = "admitted"
            /\ Shifted(0, 1, 0)
        BY <1>0, <3>2, AgentAssumption DEF JoinQueue, Shifted
      <4> QED BY <3>2, <4>1, InsideBulkhead DEF Bit, AgentPCs
    <3>3. CASE AwaitPermit(th) /\ agBulkhead.permits > 0
      <4>1. /\ AgentGoto(th, "granted") /\ agPc[th] = "waiting"
            /\ Shifted(-1, 0, 0)
        BY <1>0, <3>3, AgentAssumption DEF AwaitPermit, Shifted
      <4> QED BY <3>3, <4>1, InsideBulkhead DEF Bit, AgentPCs
    <3>4. CASE AwaitPermit(th) /\ agBulkhead.permits = 0
      <4>1. /\ AgentGoto(th, "timed_out") /\ agPc[th] = "waiting" /\ UNCHANGED agBulkhead
        BY <1>0, <3>4, AgentAssumption DEF AwaitPermit, Shifted
      <4> QED BY <1>0, <3>0, <4>1, InsideBulkhead DEF Bit, AgentPCs
    <3>5. CASE LeaveQueue(th) /\ agPc[th] = "granted"
      <4>1. /\ AgentGoto(th, "running")
            /\ Shifted(0, -1, 1)
        <5>1. /\ agBulkhead' = [agBulkhead EXCEPT !.queued = @ - 1, !.active = @ + 1]
              /\ AgentGoto(th, "running")
          BY <3>5 DEF LeaveQueue
        <5>2. \A b \in [permits : Int, queued : Int, active : Int], q, a \in Int :
                LET r == [b EXCEPT !.queued = q, !.active = a]
                IN /\ r \in [permits : Int, queued : Int, active : Int]
                   /\ r.permits = b.permits /\ r.queued = q /\ r.active = a
          OBVIOUS
        <5>3. agBulkhead' = [agBulkhead EXCEPT !.queued = agBulkhead.queued - 1,
                                              !.active = agBulkhead.active + 1]
          BY <5>1
        <5>4. /\ agBulkhead \in [permits : Int, queued : Int, active : Int]
              /\ agBulkhead.queued - 1 \in Int /\ agBulkhead.active + 1 \in Int
          BY <1>0
        <5>5. /\ agBulkhead' \in [permits : Int, queued : Int, active : Int]
              /\ agBulkhead'.permits = agBulkhead.permits
              /\ agBulkhead'.queued = agBulkhead.queued - 1
              /\ agBulkhead'.active = agBulkhead.active + 1
          BY <5>2, <5>3, <5>4
        <5>6. agBulkhead.permits \in Int /\ agBulkhead.queued \in Int
          BY <5>4
        <5> QED BY <5>1, <5>5, <5>6 DEF Shifted
      <4> QED BY <3>5, <4>1, InsideBulkhead DEF Bit, AgentPCs
    <3>6. CASE LeaveQueue(th) /\ agPc[th] = "timed_out"
      <4>1. /\ AgentGoto(th, "report")
            /\ Shifted(0, -1, 0)
        BY <1>0, <3>6, AgentAssumption DEF LeaveQueue, Shifted
      <4> QED BY <3>6, <4>1, InsideBulkhead DEF Bit, AgentPCs
    <3>7. CASE ReleaseSlot(th) /\ agPc[th] = "ran"
      <4>1. agBulkhead.active > 0
        BY <1>0, <3>7, CountedIsPositive DEF SlotsAccounted
      <4>2. /\ AgentGoto(th, "freed")
            /\ Shifted(0, 0, -1)
        BY <1>0, <3>7, <4>1, AgentAssumption DEF ReleaseSlot, Shifted
      <4> QED BY <3>7, <4>2, InsideBulkhead DEF Bit, AgentPCs
    <3>8. CASE ReleaseSlot(th) /\ agPc[th] = "freed"
      <4>1. /\ AgentGoto(th, "record")
            /\ Shifted(1, 0, 0)
        BY <1>0, <3>8, AgentAssumption DEF ReleaseSlot, Shifted
      <4> QED BY <3>8, <4>1, InsideBulkhead DEF Bit, AgentPCs
    <3> QED BY <1>0, <1>5, <3>1, <3>2, <3>3, <3>4, <3>5, <3>6, <3>7, <3>8, AgentAssumption
            DEF JoinQueue, AwaitPermit, LeaveQueue, ReleaseSlot
  <2> QED BY <1>0, <2>1, <2>2, <2>3, <2>9 DEF AgentTypeOK
<1> QED BY <1>1, <1>2, <1>3, <1>4, <1>5 DEF AgentNext, AgentStep

LEMMA AgentInvHolds == AgentSpec => []SlotsInv
<1>1. SlotsInv /\ [AgentNext]_agVars => SlotsInv'
  BY AgentStepInv
<1> QED BY <1>1, AgentInitInv, PTL DEF AgentSpec

(* Every variable keeps its type: the semaphores, the queue counter and the *)
(* breaker of an agent stay in their ranges.                                *)
THEOREM AgentTypeCorrect == AgentSpec => []AgentTypeOK
<1>1. SlotsInv => AgentTypeOK
  BY DEF SlotsInv
<1> QED BY <1>1, AgentInvHolds, PTL

(* No call loses or duplicates a permit or a place in the queue, for every  *)
(* number of threads and every size of the bulkhead.                        *)
THEOREM SlotsStayAccounted == AgentSpec => []SlotsAccounted
<1>1. SlotsInv => SlotsAccounted
  BY DEF SlotsInv
<1> QED BY <1>1, AgentInvHolds, PTL

-----------------------------------------------------------------------------
(* SharedCircuit, for any number of processes and gateways. *)
(* No script leaves the range of the counters in the hash.                  *)
LEMMA CircuitTyped ==
  ASSUME NEW r \in ShCircuits
  PROVE  /\ NoCircuit \in ShCircuits
         /\ Checked(r) \in ShCircuits
         /\ Success(r) \in ShCircuits
         /\ Failure(r) \in ShCircuits
         /\ Kept(r) \in ShCircuits
         /\ [r EXCEPT !.state = "closed", !.failures = 0, !.successes = 0] \in ShCircuits
         /\ [r EXCEPT !.left = Later(@)] \in ShCircuits
         /\ r.ttl > 1 => [r EXCEPT !.ttl = @ - 1, !.left = Later(@)] \in ShCircuits
<1> USE DEF ShCircuits, CircuitStates, NoFailure
<1>0. /\ AgentThreshold \in Nat \ {0} /\ ProbeLimit \in Nat \ {0} /\ ProbeSuccesses \in Nat \ {0}
      /\ CooldownTicks \in Nat /\ KeyTicks \in Nat \ {0}
  BY BreakerAssumption, SharedAssumption
<1> USE <1>0
<1>1. NoCircuit \in ShCircuits
  BY DEF NoCircuit
<1>a. ASSUME NEW s \in CircuitStates, NEW f \in 0..AgentThreshold, NEW u \in 0..ProbeSuccesses
      PROVE  /\ [r EXCEPT !.state = s, !.failures = f, !.successes = u] \in ShCircuits
             /\ [r EXCEPT !.state = s, !.successes = u] \in ShCircuits
             /\ [r EXCEPT !.failures = f, !.successes = u] \in ShCircuits
             /\ [r EXCEPT !.successes = u] \in ShCircuits
  OBVIOUS
<1>b. 0 \in 0..AgentThreshold /\ 0 \in 0..ProbeSuccesses
      /\ "half_open" \in CircuitStates /\ "closed" \in CircuitStates
  OBVIOUS
<1>2. Checked(r) \in ShCircuits
  <2>1. [r EXCEPT !.state = "half_open", !.successes = 0] \in ShCircuits
    BY <1>a, <1>b
  <2> QED BY <2>1 DEF Checked
<1>3. [r EXCEPT !.state = "closed", !.failures = 0, !.successes = 0] \in ShCircuits
  BY <1>a, <1>b
<1>4. Success(r) \in ShCircuits
  <2>1. r.successes + 1 < ProbeSuccesses => r.successes + 1 \in 0..ProbeSuccesses
    OBVIOUS
  <2>2. r.successes + 1 < ProbeSuccesses => [r EXCEPT !.successes = @ + 1] \in ShCircuits
    BY <1>a, <1>b, <2>1
  <2>3. [r EXCEPT !.failures = 0, !.successes = 0] \in ShCircuits
    BY <1>a, <1>b
  <2>4. r.successes + 1 < ProbeSuccesses \/ r.successes + 1 >= ProbeSuccesses
    OBVIOUS
  <2>5. r.state \in {"closed", "open", "half_open"}
    OBVIOUS
  <2> HIDE DEF ShCircuits
  <2> QED BY <1>3, <2>2, <2>3, <2>4, <2>5 DEF Success
<1>5. Failure(r) \in ShCircuits
  <2> DEFINE f == IF r.failures < AgentThreshold THEN r.failures + 1 ELSE r.failures
             s == IF r.state # "closed" \/ f >= AgentThreshold THEN "open" ELSE r.state
             u == IF r.state = "half_open" THEN 0 ELSE r.successes
  <2>1. Failure(r) = [r EXCEPT !.failures = f, !.left = CooldownTicks, !.state = s, !.successes = u]
    BY DEF Failure
  <2>2. f \in 0..AgentThreshold /\ s \in CircuitStates /\ u \in 0..ProbeSuccesses
        /\ CooldownTicks \in NoFailure..CooldownTicks
    OBVIOUS
  <2> HIDE DEF f, s, u
  <2> QED BY <2>1, <2>2
<1>6. Kept(r) \in ShCircuits
  BY DEF Kept
<1>7. Later(r.left) \in NoFailure..CooldownTicks
  BY DEF Later
<1>8. [r EXCEPT !.left = Later(@)] \in ShCircuits
  BY <1>7
<1>9. ASSUME r.ttl > 1 PROVE [r EXCEPT !.ttl = @ - 1, !.left = Later(@)] \in ShCircuits
  <2>1. r.ttl - 1 \in 0..KeyTicks
    BY <1>9
  <2> QED BY <1>7, <2>1
<1> QED BY <1>1, <1>2, <1>3, <1>4, <1>5, <1>6, <1>8, <1>9

(* Steps on the hash, the breaker of a client and who has a call under way. *)
LEMMA SharedMoved ==
  ASSUME SharedTypeOK, NEW c \in ShClients,
         shCircuit' \in ShCircuits,
         shLocal' = shLocal \/ \E b : SetLocal(c, b) /\ (c \in PyClients => b \in AgentBreakers)
                                                     /\ (c \in GwClients => b \in ShCircuits),
         shReady' \subseteq ShClients, shBusy' \subseteq ShClients,
         shFailures' \in 0..MaxCallFailures, shErrors' \in 0..MaxRedisErrors
  PROVE  SharedTypeOK'
<1>1. CASE shLocal' = shLocal
  BY <1>1 DEF SharedTypeOK
<1>2. ASSUME NEW b, SetLocal(c, b), c \in PyClients => b \in AgentBreakers,
             c \in GwClients => b \in ShCircuits
      PROVE  SharedTypeOK'
  <2>1. b \in AgentBreakers \cup ShCircuits
    BY <1>2 DEF ShClients
  <2>2. shLocal' \in [ShClients -> AgentBreakers \cup ShCircuits]
    BY <1>2, <2>1 DEF SharedTypeOK, SetLocal
  <2>3. \A x \in ShClients : shLocal'[x] = IF x = c THEN b ELSE shLocal[x]
    BY <1>2 DEF SharedTypeOK, SetLocal
  <2>4. /\ \A x \in PyClients : shLocal'[x] \in AgentBreakers
        /\ \A x \in GwClients : shLocal'[x] \in ShCircuits
    BY <1>2, <2>3 DEF SharedTypeOK, ShClients
  <2> QED BY <2>2, <2>4 DEF SharedTypeOK
<1> QED BY <1>1, <1>2

LEMMA SharedInitType == SharedInit => SharedTypeOK
<1> SUFFICES ASSUME SharedInit PROVE SharedTypeOK
  OBVIOUS
<1>1. NoCircuit \in ShCircuits /\ NewBreaker \in AgentBreakers
  BY BreakerAssumption, SharedAssumption
  DEF NoCircuit, ShCircuits, NewBreaker, AgentBreakers, CircuitStates, NoFailure
<1>2. \A c \in PyClients : c \in ShClients /\ shLocal[c] = NewBreaker
  BY DEF SharedInit, ShClients
<1>3. \A c \in GwClients : c \in ShClients /\ shLocal[c] = NoCircuit
  BY SharedAssumption DEF SharedInit, ShClients
<1>4. shLocal \in [ShClients -> AgentBreakers \cup ShCircuits]
  BY <1>1 DEF SharedInit
<1>5. shFailures \in 0..MaxCallFailures /\ shErrors \in 0..MaxRedisErrors
  BY SharedAssumption DEF SharedInit
<1> QED BY <1>1, <1>2, <1>3, <1>4, <1>5 DEF SharedInit, SharedTypeOK

LEMMA SharedTypeStep ==
  ASSUME SharedTypeOK, [SharedNext]_shVars
  PROVE  SharedTypeOK'
<1>0. /\ MaxCallFailures \in Nat /\ MaxRedisErrors \in Nat /\ PyClients \cap GwClients = {}
      /\ shCircuit \in ShCircuits /\ shReady \subseteq ShClients /\ shBusy \subseteq ShClients
      /\ shFailures \in 0..MaxCallFailures /\ shErrors \in 0..MaxRedisErrors
      /\ NoCircuit \in ShCircuits
  BY SharedAssumption, CircuitTyped DEF SharedTypeOK
<1>a. ASSUME NEW c \in ShClients, Answered(c) \/ Unanswered(c) \/ UNCHANGED <<shReady, shErrors>>
      PROVE  shReady' \subseteq ShClients /\ shErrors' \in 0..MaxRedisErrors
  BY <1>0, <1>a DEF Answered, Unanswered
<1>b. \A c \in ShClients : /\ c \in PyClients => shLocal[c] \in AgentBreakers
                           /\ c \in GwClients => shLocal[c] \in ShCircuits
  BY DEF SharedTypeOK
<1>1. ASSUME NEW c \in ShClients, CheckShared(c) PROVE SharedTypeOK'
  <2> DEFINE r == Checked(shCircuit)
             written == IF r = shCircuit THEN r ELSE Kept(r)
  <2>1. r \in ShCircuits /\ written \in ShCircuits
    BY <1>0, CircuitTyped
  <2>2. /\ UNCHANGED shFailures
        /\ \/ /\ Answered(c) /\ shCircuit' = written /\ LetIn(c, r.state # "open")
              /\ IF c \in PyClients /\ r.state = "half_open" /\ shLocal[c].state = "open"
                   THEN SetLocal(c, Turned(shLocal[c], "half_open")) ELSE UNCHANGED shLocal
           \/ Unanswered(c) /\ shCircuit' \in {shCircuit, written} /\ LocalCheck(c)
           \/ LocalCheck(c) /\ UNCHANGED <<shCircuit, shReady, shErrors>>
    BY <1>1 DEF CheckShared
  <2> HIDE DEF r, written
  <2>3. shCircuit' \in ShCircuits
    BY <1>0, <2>1, <2>2
  <2>4. shBusy' \subseteq ShClients
    BY <1>0, <2>2 DEF LetIn, LocalCheck
  <2>5. shReady' \subseteq ShClients /\ shErrors' \in 0..MaxRedisErrors
    BY <1>a, <2>2
  <2>6. /\ c \in PyClients => /\ Turned(shLocal[c], "half_open") \in AgentBreakers
                              /\ Admitted(Settled(shLocal[c])) \in AgentBreakers
        /\ c \in GwClients => Checked(shLocal[c]) \in ShCircuits
    BY <1>b, BreakerTyped, CircuitTyped DEF CircuitStates
  <2>7. LocalCheck(c) => \E b : SetLocal(c, b) /\ (c \in PyClients => b \in AgentBreakers)
                                               /\ (c \in GwClients => b \in ShCircuits)
    <3>1. CASE c \in PyClients
      BY <1>0, <2>6, <3>1 DEF LocalCheck
    <3>2. CASE c \notin PyClients
      BY <1>0, <2>6, <3>2 DEF LocalCheck
    <3> QED BY <3>1, <3>2
  <2>8. shLocal' = shLocal \/ \E b : SetLocal(c, b) /\ (c \in PyClients => b \in AgentBreakers)
                                                    /\ (c \in GwClients => b \in ShCircuits)
    <3>1. CASE c \in PyClients /\ SetLocal(c, Turned(shLocal[c], "half_open"))
      BY <1>0, <2>6, <3>1
    <3> QED BY <2>2, <2>7, <3>1
  <2> QED BY <1>0, <2>2, <2>3, <2>4, <2>5, <2>8, SharedMoved
<1>2. ASSUME NEW c \in ShClients, NEW failed \in BOOLEAN, RecordShared(c, failed)
      PROVE  SharedTypeOK'
  <2> DEFINE r == Kept(IF failed THEN Failure(shCircuit) ELSE Success(shCircuit))
             b == IF c \in PyClients
                    THEN IF failed THEN AfterFailure(shLocal[c]) ELSE AfterSuccess(shLocal[c])
                    ELSE IF failed THEN Failure(shLocal[c]) ELSE Success(shLocal[c])
             moves == c \in PyClients /\ r.state = (IF failed THEN "open" ELSE "closed")
  <2>1. r \in ShCircuits
    BY <1>0, CircuitTyped
  <2>2. (c \in PyClients => b \in AgentBreakers) /\ (c \in GwClients => b \in ShCircuits)
    BY <1>0, <1>b, BreakerTyped, CircuitTyped
  <2>3. moves => Turned(b, r.state) \in AgentBreakers
    <3>1. moves => r.state \in CircuitStates
      BY DEF CircuitStates
    <3> QED BY <2>2, <3>1, BreakerTyped
  <2>4. /\ shBusy' = shBusy \ {c}
        /\ shFailures' \in 0..MaxCallFailures
    BY <1>0, <1>2 DEF RecordShared
  <2>5. \/ Answered(c) /\ shCircuit' = r /\ SetLocal(c, IF moves THEN Turned(b, r.state) ELSE b)
        \/ Unanswered(c) /\ shCircuit' \in {shCircuit, r} /\ SetLocal(c, b)
        \/ c \notin shReady /\ SetLocal(c, b) /\ UNCHANGED <<shCircuit, shReady, shErrors>>
    BY <1>2 DEF RecordShared
  <2>6. moves => c \in PyClients /\ c \notin GwClients
    BY <1>0
  <2> HIDE DEF r, b, moves
  <2>7. shCircuit' \in ShCircuits /\ shReady' \subseteq ShClients /\ shErrors' \in 0..MaxRedisErrors
    BY <1>0, <1>a, <2>1, <2>5
  <2>8. \E x : SetLocal(c, x) /\ (c \in PyClients => x \in AgentBreakers)
                              /\ (c \in GwClients => x \in ShCircuits)
    BY <2>2, <2>3, <2>5, <2>6
  <2>9. shBusy' \subseteq ShClients
    BY <1>0, <2>4
  <2> QED BY <2>4, <2>7, <2>8, <2>9, SharedMoved
<1>3. ASSUME NEW c \in ShClients, ResetShared(c) PROVE SharedTypeOK'
  <2> DEFINE b == IF c \in PyClients THEN Turned(shLocal[c], "closed")
                  ELSE [shLocal[c] EXCEPT !.state = "closed", !.failures = 0, !.successes = 0]
  <2>1. (c \in PyClients => b \in AgentBreakers) /\ (c \in GwClients => b \in ShCircuits)
    BY <1>0, <1>b, BreakerTyped, CircuitTyped DEF CircuitStates
  <2>2. /\ SetLocal(c, b) /\ UNCHANGED <<shBusy, shFailures>>
        /\ \/ Answered(c) /\ shCircuit' = NoCircuit
           \/ Unanswered(c) /\ shCircuit' \in {shCircuit, NoCircuit}
           \/ UNCHANGED <<shCircuit, shReady, shErrors>>
    BY <1>3 DEF ResetShared
  <2> HIDE DEF b
  <2>3. shCircuit' \in ShCircuits /\ shReady' \subseteq ShClients /\ shErrors' \in 0..MaxRedisErrors
    BY <1>0, <1>a, <2>2
  <2>4. shBusy' \subseteq ShClients /\ shFailures' \in 0..MaxCallFailures
    BY <1>0, <2>2
  <2> QED BY <2>1, <2>2, <2>3, <2>4, SharedMoved
<1>4. ASSUME NEW c \in ShClients, Reconnect(c) PROVE SharedTypeOK'
  BY <1>4 DEF Reconnect, SharedTypeOK, ShClients
<1>5. CASE SharedTick
  <2>1. shCircuit' \in ShCircuits
    <3>1. shCircuit.ttl \in Nat
      BY <1>0, SharedAssumption DEF ShCircuits
    <3>2. CASE shCircuit.ttl <= 1
      BY <1>0, <1>5, <3>2 DEF SharedTick
    <3>3. CASE shCircuit.ttl > 1
      <4>1. [shCircuit EXCEPT !.ttl = @ - 1, !.left = Later(@)] \in ShCircuits
        BY <1>0, <3>3, CircuitTyped
      <4>2. ~(shCircuit.ttl <= 1)
        BY <3>1, <3>3
      <4> QED BY <1>5, <4>1, <4>2 DEF SharedTick
    <3> QED BY <3>1, <3>2, <3>3
  <2>2. \A c \in ShClients : shLocal'[c] = [shLocal[c] EXCEPT !.left = Later(@)]
    BY <1>5 DEF SharedTick
  <2>3. /\ \A c \in PyClients : shLocal'[c] \in AgentBreakers
        /\ \A c \in GwClients : shLocal'[c] \in ShCircuits
    BY <1>b, <2>2, BreakerTyped, CircuitTyped DEF ShClients
  <2>4. shLocal' \in [ShClients -> AgentBreakers \cup ShCircuits]
    <3>1. \A c \in ShClients : shLocal'[c] \in AgentBreakers \cup ShCircuits
      BY <2>3 DEF ShClients
    <3> QED BY <1>5, <2>2, <3>1 DEF SharedTick
  <2> QED BY <1>0, <1>5, <2>1, <2>3, <2>4 DEF SharedTick, SharedTypeOK
<1>6. CASE UNCHANGED shVars
  BY <1>6 DEF shVars, SharedTypeOK
<1> QED BY <1>1, <1>2, <1>3, <1>4, <1>5, <1>6 DEF SharedNext, ClientStep

(* The hash in Redis and the breaker of every client stay circuits, whether *)
(* answers are lost, clients change to their own breakers or come back.     *)
THEOREM SharedTypeCorrect == SharedSpec => []SharedTypeOK
BY SharedInitType, SharedTypeStep, PTL DEF SharedSpec

=============================================================================
