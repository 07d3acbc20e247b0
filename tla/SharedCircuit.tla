---------------------------- MODULE SharedCircuit ----------------------------
(***************************************************************************)
(* The circuit that Python processes (redis_circuit_breaker.py) and        *)
(* gateways (unified-circuit-breaker.ts) share as a hash in Redis, and the *)
(* breaker each of them keeps for itself when Redis does not answer: an    *)
(* AgentCircuitBreaker in Python, a LocalCircuitBreaker in a gateway.      *)
(*                                                                         *)
(* A Lua script is one step.  Its answer may be lost.  The clocks of the   *)
(* clients, from which the scripts take `now', agree; a client has one     *)
(* call under way.                                                         *)
(***************************************************************************)
EXTENDS AgentBreaker

CONSTANTS
  PyClients, GwClients,
  KeyTicks,           \* key_ttl_ms, in ticks
  MaxCallFailures,    \* bound on calls of the clients that fail
  MaxRedisErrors      \* bound on scripts without an answer

ASSUME SharedAssumption ==
  /\ PyClients \cap GwClients = {}
  /\ KeyTicks \in Nat \ {0} /\ MaxCallFailures \in Nat /\ MaxRedisErrors \in Nat

ShClients == PyClients \cup GwClients

VARIABLES
  shCircuit,          \* the hash; `ttl' is 0 when there is none
  shLocal,            \* the breaker of each client
  shReady,            \* isRedisReady / is_redis_ready
  shBusy,             \* clients whose call was let through
  shFailures, shErrors

shVars == <<shCircuit, shLocal, shReady, shBusy, shFailures, shErrors>>

(* A LocalCircuitBreaker counts no probes. *)
ShCircuits ==
  [state : CircuitStates, failures : 0..AgentThreshold, successes : 0..ProbeSuccesses,
   left : NoFailure..CooldownTicks, ttl : 0..KeyTicks]

SharedTypeOK ==
  /\ shCircuit \in ShCircuits
  /\ shLocal \in [ShClients -> AgentBreakers \cup ShCircuits]
  /\ \A c \in PyClients : shLocal[c] \in AgentBreakers
  /\ \A c \in GwClients : shLocal[c] \in ShCircuits
  /\ shReady \subseteq ShClients
  /\ shBusy \subseteq ShClients
  /\ shFailures \in 0..MaxCallFailures
  /\ shErrors \in 0..MaxRedisErrors

(* The scripts and LocalCircuitBreaker take what they do not find for this. *)
NoCircuit ==
  [state |-> "closed", failures |-> 0, successes |-> 0, left |-> NoFailure, ttl |-> 0]

SharedInit ==
  /\ shCircuit = NoCircuit
  /\ shLocal = [c \in ShClients |-> IF c \in PyClients THEN NewBreaker ELSE NoCircuit]
  /\ shReady \in SUBSET ShClients     \* connect() may have failed
  /\ shBusy = {}
  /\ shFailures = 0
  /\ shErrors = 0

-----------------------------------------------------------------------------
(* The scripts, which LocalCircuitBreaker repeats without the expiry *)

(* Fault: every check of a half-open circuit starts the count of successes. *)
CheckedRestarts(r) ==
  IF r.state = "half_open" \/ (r.state = "open" /\ r.left = 0)
    THEN [r EXCEPT !.state = "half_open", !.successes = 0]
    ELSE r

(* CHECK_SCRIPT *)
Checked(r) ==
  IF r.state = "open" /\ r.left = 0
    THEN [r EXCEPT !.state = "half_open", !.successes = 0]
    ELSE r

(* RECORD_SUCCESS_SCRIPT *)
Success(r) ==
  CASE r.state = "half_open" /\ r.successes + 1 < ProbeSuccesses ->
         [r EXCEPT !.successes = @ + 1]
    [] r.state = "half_open" /\ r.successes + 1 >= ProbeSuccesses ->
         [r EXCEPT !.state = "closed", !.failures = 0, !.successes = 0]
    [] r.state = "closed" -> [r EXCEPT !.failures = 0, !.successes = 0]
    [] r.state = "open" -> r

(* RECORD_FAILURE_SCRIPT; failures above the threshold are not told apart. *)
Failure(r) ==
  LET failures == IF r.failures < AgentThreshold THEN r.failures + 1 ELSE r.failures
      opens == r.state # "closed" \/ failures >= AgentThreshold
  IN [r EXCEPT !.failures = failures, !.left = CooldownTicks,
               !.state = IF opens THEN "open" ELSE @,
               !.successes = IF r.state = "half_open" THEN 0 ELSE @]

Kept(r) == [r EXCEPT !.ttl = KeyTicks]

-----------------------------------------------------------------------------
(* A script has its effect and answers, or has it or not and does not       *)
(* answer, which turns the client to its own breaker.                       *)
Answered(c) == c \in shReady /\ UNCHANGED <<shReady, shErrors>>

Unanswered(c) ==
  /\ c \in shReady /\ shErrors < MaxRedisErrors
  /\ shErrors' = shErrors + 1
  /\ shReady' = shReady \ {c}

SetLocal(c, b) == shLocal' = [shLocal EXCEPT ![c] = b]

LetIn(c, allowed) == shBusy' = IF allowed THEN shBusy \cup {c} ELSE shBusy

LocalCheck(c) ==
  IF c \in PyClients
    THEN /\ SetLocal(c, Admitted(Settled(shLocal[c])))
         /\ LetIn(c, LetsThrough(Settled(shLocal[c])))
    ELSE /\ SetLocal(c, Checked(shLocal[c]))
         /\ LetIn(c, Checked(shLocal[c]).state # "open")

(* can_call and check; only the transition writes the hash.  In Python the  *)
(* answer half-opens an open local breaker.                                 *)
CheckShared(c) ==
  LET r == Checked(shCircuit)
      written == IF r = shCircuit THEN r ELSE Kept(r)
      b == shLocal[c]
  IN
  /\ c \notin shBusy
  /\ \/ /\ Answered(c)
        /\ shCircuit' = written
        /\ LetIn(c, r.state # "open")
        /\ IF c \in PyClients /\ r.state = "half_open" /\ b.state = "open"
             THEN SetLocal(c, Turned(b, "half_open")) ELSE UNCHANGED shLocal
     \/ Unanswered(c) /\ shCircuit' \in {shCircuit, written} /\ LocalCheck(c)
     \/ c \notin shReady /\ LocalCheck(c) /\ UNCHANGED <<shCircuit, shReady, shErrors>>
  /\ UNCHANGED shFailures

(* record_success and record_failure: the local breaker first, whether it   *)
(* let the call through or Redis did.  In Python the answer moves it.       *)
RecordShared(c, failed) ==
  LET r == Kept(IF failed THEN Failure(shCircuit) ELSE Success(shCircuit))
      b == IF c \in PyClients
             THEN IF failed THEN AfterFailure(shLocal[c]) ELSE AfterSuccess(shLocal[c])
             ELSE IF failed THEN Failure(shLocal[c]) ELSE Success(shLocal[c])
      moves == c \in PyClients /\ r.state = (IF failed THEN "open" ELSE "closed")
  IN
  /\ c \in shBusy
  /\ shBusy' = shBusy \ {c}
  /\ IF failed THEN shFailures < MaxCallFailures /\ shFailures' = shFailures + 1
     ELSE UNCHANGED shFailures
  /\ \/ Answered(c) /\ shCircuit' = r /\ SetLocal(c, IF moves THEN Turned(b, r.state) ELSE b)
     \/ Unanswered(c) /\ shCircuit' \in {shCircuit, r} /\ SetLocal(c, b)
     \/ c \notin shReady /\ SetLocal(c, b) /\ UNCHANGED <<shCircuit, shReady, shErrors>>

(* reset(), by an operator: the local breaker is closed, the hash deleted. *)
ResetShared(c) ==
  LET b == IF c \in PyClients THEN Turned(shLocal[c], "closed")
           ELSE [shLocal[c] EXCEPT !.state = "closed", !.failures = 0, !.successes = 0]
  IN
  /\ SetLocal(c, b)
  /\ \/ Answered(c) /\ shCircuit' = NoCircuit
     \/ Unanswered(c) /\ shCircuit' \in {shCircuit, NoCircuit}
     \/ c \notin shReady /\ UNCHANGED <<shCircuit, shReady, shErrors>>
  /\ UNCHANGED <<shBusy, shFailures>>

(* Only the connection of a gateway says that it is ready again. *)
Reconnect(c) ==
  /\ c \in GwClients \ shReady
  /\ shReady' = shReady \cup {c}
  /\ UNCHANGED <<shCircuit, shLocal, shBusy, shFailures, shErrors>>

(* Redis drops the hash when its time to live is over. *)
SharedTick ==
  /\ shCircuit' = IF shCircuit.ttl <= 1 THEN NoCircuit
                  ELSE [shCircuit EXCEPT !.ttl = @ - 1, !.left = Later(@)]
  /\ shLocal' = [c \in ShClients |-> [shLocal[c] EXCEPT !.left = Later(@)]]
  /\ UNCHANGED <<shReady, shBusy, shFailures, shErrors>>

-----------------------------------------------------------------------------
ClientStep(c) == CheckShared(c) \/ \E failed \in BOOLEAN : RecordShared(c, failed)

SharedNext ==
  \/ \E c \in ShClients : ClientStep(c) \/ ResetShared(c) \/ Reconnect(c)
  \/ SharedTick

SharedSpec == SharedInit /\ [][SharedNext]_shVars

(* Calls are made and end, and time passes. *)
SharedFairness ==
  WF_shVars(SharedTick) /\ \A c \in ShClients : WF_shVars(ClientStep(c))

SharedFairSpec == SharedSpec /\ SharedFairness

-----------------------------------------------------------------------------
(* Properties *)

(* Once calls fail no more the shared circuit closes, whoever half-opened   *)
(* it, although clients lose answers or turn to their own breakers with the *)
(* circuit open or half open: those that remain close it, or it expires.    *)
SharedCloses == shCircuit.state # "closed" ~> shCircuit.state = "closed"
=============================================================================
