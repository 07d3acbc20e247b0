--------------------------- MODULE CircuitBreaker ---------------------------
(***************************************************************************)
(* DistributedCircuitBreaker (src/core/distributed/                        *)
(* circuit_breaker_distributed): every node keeps a copy of the circuit,   *)
(* acts on it, writes it to the coord_circuits row with a version test,    *)
(* and replaces it by the row when it synchronises.                        *)
(*                                                                         *)
(* The threads of a node share its copy; what is done under _lock is one   *)
(* step, and so is every call of the backend.  Times are ticks left:       *)
(* `opened' is opened_at + recovery_timeout - now, NotOpened for None.     *)
(* Whether sync_interval has elapsed at a call is left open.               *)
(***************************************************************************)
EXTENDS Integers, FiniteSets

CONSTANTS
  Threads,          \* threads that call through a breaker
  Nodes,
  NodeOf,           \* the node each thread runs on
  FailureThreshold, SuccessThreshold, HalfOpenMaxCalls,
  RecoveryTicks,    \* recovery_timeout, in ticks
  Manual,           \* which of "open" and "close" operators may use
  MaxVersion,       \* bound on the version of the row
  MaxFaults         \* bound on backend calls that raise

ASSUME NodesAssumption == NodeOf \in [Threads -> Nodes] /\ IsFiniteSet(Threads)
ASSUME ThresholdAssumption ==
  {FailureThreshold, SuccessThreshold, HalfOpenMaxCalls} \subseteq Nat \ {0}
ASSUME TicksAssumption == RecoveryTicks \in Nat
ASSUME BoundsAssumption == MaxVersion \in Nat /\ MaxFaults \in Nat
ASSUME ManualAssumption == Manual \subseteq {"open", "close"}

NotOpened == -1

VARIABLES
  local,            \* _local_state of each node, with its version
  row,              \* coord_circuits; version 0 while there is no row
  pc,               \* each thread
  held,             \* what a thread carries from one step to the next: the
                    \* row it read, or the state it is about to write
  faults

vars == <<local, row, pc, held, faults>>

(* The counters above their thresholds are not told apart: half_open_call_  *)
(* count may exceed half_open_max_calls by the threads that were let in. *)
CallCap == HalfOpenMaxCalls + Cardinality(Threads)

Circuits ==
  [state : {"closed", "open", "half_open"}, failures : 0..FailureThreshold,
   successes : 0..SuccessThreshold, calls : 0..CallCap,
   opened : NotOpened..RecoveryTicks, version : 0..MaxVersion]

Fresh == [state |-> "closed", failures |-> 0, successes |-> 0, calls |-> 0,
          opened |-> NotOpened, version |-> 0]

PCs == {"idle", "sync", "checked", "call", "persist", "write"}

TypeOK ==
  /\ local \in [Nodes -> Circuits]
  /\ row \in Circuits
  /\ pc \in [Threads -> PCs]
  /\ held \in [Threads -> Circuits]
  /\ faults \in 0..MaxFaults

Init ==
  /\ local = [n \in Nodes |-> Fresh]
  /\ row = Fresh
  /\ pc = [th \in Threads |-> "idle"]
  /\ held = [th \in Threads |-> Fresh]
  /\ faults = 0

-----------------------------------------------------------------------------
Capped(k, cap) == IF k > cap THEN cap ELSE k

Goto(th, l) == pc' = [pc EXCEPT ![th] = l]

Hold(th, c) == held' = [held EXCEPT ![th] = c]

Fault == faults < MaxFaults /\ faults' = faults + 1

(* _maybe_sync, first part: the row is read. *)
SyncRead(th) ==
  /\ pc[th] = "idle"
  /\ \/ /\ row.version > 0
        /\ Hold(th, row) /\ Goto(th, "sync") /\ UNCHANGED faults
     \/ /\ row.version = 0
        /\ Goto(th, "checked") /\ UNCHANGED <<held, faults>>
     \/ /\ Fault
        /\ Goto(th, "checked") /\ UNCHANGED held
  /\ UNCHANGED <<local, row>>

(* Fault: recovery_timeout is not looked at. *)
HalfOpenedAtOnce(c) ==
  IF c.state = "open"
    THEN [c EXCEPT !.state = "half_open", !.failures = 0, !.successes = 0, !.calls = 0]
    ELSE c

(* The only place where an open circuit becomes half open. *)
HalfOpened(c) ==
  IF c.state = "open" /\ c.opened = 0
    THEN [c EXCEPT !.state = "half_open", !.failures = 0, !.successes = 0, !.calls = 0]
    ELSE c

(* Fault: a row of the version the copy has is not applied. *)
SyncApplyOnlyNewer(th) ==
  LET n == NodeOf[th] IN
  /\ pc[th] = "sync"
  /\ local' = [local EXCEPT ![n] =
                 IF held[th].version > @.version THEN HalfOpened(held[th]) ELSE @]
  /\ Hold(th, Fresh)
  /\ Goto(th, "checked")
  /\ UNCHANGED <<row, faults>>

(* _maybe_sync, second part: what was read replaces the copy, unless the    *)
(* copy is newer. *)
SyncApply(th) ==
  LET n == NodeOf[th] IN
  /\ pc[th] = "sync"
  /\ local' = [local EXCEPT ![n] =
                 IF held[th].version >= @.version THEN HalfOpened(held[th]) ELSE @]
  /\ Hold(th, Fresh)
  /\ Goto(th, "checked")
  /\ UNCHANGED <<row, faults>>

(* call and call_async: the state is looked at, then the call is made.      *)
(* Bound: no call is let through when the version may reach MaxVersion. *)
Decide(th) ==
  LET c == local[NodeOf[th]] IN
  /\ pc[th] \in {"idle", "checked"}
  /\ \/ /\ c.state = "open" \/ (c.state = "half_open" /\ c.calls >= HalfOpenMaxCalls)
        /\ Goto(th, "idle")
     \/ /\ row.version + Cardinality(Threads) <= MaxVersion
        /\ c.state = "closed" \/ (c.state = "half_open" /\ c.calls < HalfOpenMaxCalls)
        /\ Goto(th, "call")
  /\ UNCHANGED <<local, row, held, faults>>

Closed(c) == [Fresh EXCEPT !.version = c.version]

Opened(c) == [c EXCEPT !.state = "open", !.opened = RecoveryTicks]

OnSuccess(c) ==
  CASE c.state = "half_open" /\ c.successes + 1 >= SuccessThreshold -> Closed(c)
    [] c.state = "half_open" /\ c.successes + 1 < SuccessThreshold ->
         [c EXCEPT !.successes = @ + 1, !.calls = Capped(@ + 1, CallCap)]
    [] c.state = "closed" ->
         [c EXCEPT !.failures = 0, !.successes = Capped(@ + 1, SuccessThreshold)]
    [] c.state = "open" -> c

OnFailure(c) ==
  LET f == [c EXCEPT !.failures = Capped(@ + 1, FailureThreshold), !.successes = 0] IN
  CASE c.state = "half_open" ->
         [f EXCEPT !.state = "open", !.opened = RecoveryTicks, !.calls = Capped(@ + 1, CallCap)]
    [] c.state = "closed" /\ c.failures + 1 >= FailureThreshold ->
         [f EXCEPT !.state = "open", !.opened = RecoveryTicks]
    [] OTHER -> f

(* record_success and record_failure, up to _persist_state. *)
Record(th) ==
  LET n == NodeOf[th] IN
  /\ pc[th] = "call"
  /\ \E c \in {OnSuccess(local[n]), OnFailure(local[n])} : local' = [local EXCEPT ![n] = c]
  /\ Goto(th, "persist")
  /\ UNCHANGED <<row, held, faults>>

(* force_open, and force_close or reset. *)
ForceState(th) ==
  LET n == NodeOf[th] IN
  /\ pc[th] = "idle"
  /\ row.version + Cardinality(Threads) <= MaxVersion
  /\ \/ /\ "open" \in Manual
        /\ local' = [local EXCEPT ![n] = Opened(local[n])]
     \/ /\ "close" \in Manual
        /\ local' = [local EXCEPT ![n] = Closed(local[n])]
  /\ Goto(th, "persist")
  /\ UNCHANGED <<row, held, faults>>

(* _persist_state, first part: the copy is taken under the lock. *)
PersistRead(th) ==
  /\ pc[th] = "persist"
  /\ Hold(th, local[NodeOf[th]])
  /\ Goto(th, "write")
  /\ UNCHANGED <<local, row, faults>>

(* Fault: the upsert writes version 1 over an existing row. *)
UpdateCircuitStateResets(c) ==
  IF c.version = 0 THEN row' = [c EXCEPT !.version = 1]
  ELSE IF row.version = c.version THEN row' = [c EXCEPT !.version = @ + 1]
  ELSE UNCHANGED row

(* update_circuit_state: a copy that has never been synchronised is written *)
(* in any case, another one only over the version it is a copy of. *)
UpdateCircuitState(c) ==
  IF c.version = 0 \/ row.version = c.version
    THEN row' = [c EXCEPT !.version = row.version + 1]
    ELSE UNCHANGED row

(* _persist_state, second part: the answer is ignored and the version of    *)
(* the copy stays what it was. *)
PersistWrite(th) ==
  /\ pc[th] = "write"
  /\ \/ UpdateCircuitState(held[th]) /\ UNCHANGED faults
     \/ Fault /\ UNCHANGED row
  /\ Hold(th, Fresh)
  /\ Goto(th, "idle")
  /\ UNCHANGED local

(* Fault: the elapsed time is computed without an opened_at. *)
OlderUnopened(c) == [c EXCEPT !.opened = @ - 1]

(* A tick of time.monotonic() - opened_at. *)
Older(c) == IF c.opened > 0 THEN [c EXCEPT !.opened = @ - 1] ELSE c

Tick ==
  /\ local' = [n \in Nodes |-> Older(local[n])]
  /\ row' = Older(row)
  /\ held' = [th \in Threads |-> Older(held[th])]
  /\ UNCHANGED <<pc, faults>>

Sync(th) == SyncRead(th) \/ SyncApply(th)

Work(th) ==
  Sync(th) \/ Decide(th) \/ Record(th) \/ PersistRead(th) \/ PersistWrite(th)

Next == Tick \/ \E th \in Threads : Work(th) \/ ForceState(th)

Spec == Init /\ [][Next]_vars

(* Callers keep calling, calls return, and sync_interval elapses again and  *)
(* again. *)
Fairness ==
  /\ WF_vars(Tick)
  /\ \A th \in Threads : WF_vars(Work(th)) /\ SF_vars(SyncRead(th)) /\ WF_vars(SyncApply(th))

FairSpec == Spec /\ Fairness

-----------------------------------------------------------------------------
(* Properties *)

(* A copy is never ahead of the row, so that no synchronisation is refused  *)
(* and a write that loses the version test has really been overtaken.       *)
NeverAhead ==
  /\ \A n \in Nodes : local[n].version <= row.version
  /\ \A th \in Threads : held[th].version <= row.version

(* No copy, and no row, is half open before recovery_timeout has passed     *)
(* since the failure that opened the circuit.                               *)
NoEarlyProbe ==
  /\ \A n \in Nodes : local[n].state = "half_open" => local[n].opened = 0
  /\ row.state = "half_open" => row.opened = 0

(* As long as every call of the backend is answered, a circuit that opened  *)
(* on a node does not stay open there for ever, whatever the other nodes    *)
(* write and whoever loses the version test.                                *)
OpenEventuallyProbes ==
  [](faults = 0)
    => \A n \in Nodes : local[n].state = "open" ~> local[n].state # "open"

(* circuit_breaker_distributed/__init__.py:55-56: the breaker falls back "if *)
(* the backend is unavailable, ensuring graceful degradation": calls of the *)
(* backend that failed, a bounded number of times, keep no circuit open for *)
(* ever.                                                                    *)
OpenSurvivesFaults ==
  \A n \in Nodes : local[n].state = "open" ~> local[n].state # "open"
=============================================================================
