----------------------------- MODULE AgentBreaker -----------------------------
(***************************************************************************)
(* AgentCircuitBreaker (src/core/agents/resilience/circuit_breaker.py) as  *)
(* a value: what each of its methods does to it under its lock.            *)
(*                                                                         *)
(* `left' is _last_failure_time + recovery_timeout - now, in ticks.        *)
(***************************************************************************)
EXTENDS Integers

CONSTANTS
  AgentThreshold,     \* failure_threshold
  ProbeLimit,         \* half_open_max_calls
  ProbeSuccesses,     \* success_threshold
  CooldownTicks       \* recovery_timeout

ASSUME BreakerAssumption ==
  /\ {AgentThreshold, ProbeLimit, ProbeSuccesses} \subseteq Nat \ {0}
  /\ CooldownTicks \in Nat

NoFailure == -1

CircuitStates == {"closed", "open", "half_open"}

AgentBreakers ==
  [state : CircuitStates, failures : 0..AgentThreshold, successes : 0..ProbeSuccesses,
   probes : 0..ProbeLimit, left : NoFailure..CooldownTicks]

NewBreaker ==
  [state |-> "closed", failures |-> 0, successes |-> 0, probes |-> 0, left |-> NoFailure]

(* _transition_to: the counters start again. *)
Turned(b, state) ==
  IF b.state = state THEN b
  ELSE [NewBreaker EXCEPT !.state = state,
                          !.left = IF state = "closed" THEN NoFailure ELSE b.left]

(* _maybe_transition_to_half_open *)
Settled(b) == IF b.state = "open" /\ b.left = 0 THEN Turned(b, "half_open") ELSE b

(* can_call, after that transition *)
LetsThrough(b) == b.state = "closed" \/ (b.state = "half_open" /\ b.probes < ProbeLimit)

Admitted(b) ==
  IF b.state = "half_open" /\ b.probes < ProbeLimit THEN [b EXCEPT !.probes = @ + 1] ELSE b

(* record_success *)
AfterSuccess(b) ==
  CASE b.state = "half_open" /\ b.successes + 1 >= ProbeSuccesses -> Turned(b, "closed")
    [] b.state = "half_open" /\ b.successes + 1 < ProbeSuccesses ->
         [b EXCEPT !.successes = @ + 1]
    [] b.state = "closed" -> [b EXCEPT !.failures = 0]
    [] b.state = "open" -> b

(* record_failure *)
AfterFailure(b) ==
  LET f == [b EXCEPT !.left = CooldownTicks] IN
  CASE b.state = "closed" /\ b.failures + 1 < AgentThreshold -> [f EXCEPT !.failures = @ + 1]
    [] b.state = "closed" /\ b.failures + 1 >= AgentThreshold -> Turned(f, "open")
    [] b.state # "closed" -> Turned(f, "open")

Later(ticks) == IF ticks > 0 THEN ticks - 1 ELSE ticks
=============================================================================
