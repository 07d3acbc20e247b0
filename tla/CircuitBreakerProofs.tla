------------------------- MODULE CircuitBreakerProofs -------------------------
(* Theorems about CircuitBreaker, for any number of nodes and threads, any  *)
(* thresholds and any number of backend calls that fail.                    *)
EXTENDS CircuitBreaker, FiniteSetTheorems, TLAPS

(***************************************************************************)
(* A circuit may be in three places: in a node's copy, in the row, and in  *)
(* the hands of a thread between a read and a write.  NoEarlyProbe looks   *)
(* at the first two only and is not inductive: what a thread holds has to  *)
(* be neither early nor ahead of the row, because it is applied or written *)
(* after others have moved.                                                *)
(***************************************************************************)
Copies ==
  [state : {"closed", "open", "half_open"}, failures : Nat, successes : Nat, calls : Nat,
   opened : NotOpened..RecoveryTicks, version : Nat]

Waited(c) == c.state = "half_open" => c.opened = 0

BreakerInv ==
  /\ local \in [Nodes -> Copies] /\ row \in Copies /\ held \in [Threads -> Copies]
  /\ \A n \in Nodes : Waited(local[n]) /\ local[n].version <= row.version
  /\ \A th \in Threads : Waited(held[th]) /\ held[th].version <= row.version
  /\ Waited(row)

-----------------------------------------------------------------------------
(* What the operations make of a circuit. *)

LEMMA FreshCopy == Fresh \in Copies /\ Waited(Fresh) /\ Fresh.version = 0
  BY TicksAssumption DEF Fresh, Copies, Waited, NotOpened

LEMMA CallCapIsNat == CallCap \in Nat
  BY NodesAssumption, ThresholdAssumption, FS_CardinalityType DEF CallCap

LEMMA CappedIsNat == ASSUME NEW k \in Nat, NEW cap \in Nat PROVE Capped(k, cap) \in Nat
  BY DEF Capped

LEMMA HalfOpenedCopy ==
  ASSUME NEW c \in Copies, Waited(c)
  PROVE  HalfOpened(c) \in Copies /\ Waited(HalfOpened(c)) /\ HalfOpened(c).version = c.version
  BY DEF HalfOpened, Copies, Waited

LEMMA ClosedCopy ==
  ASSUME NEW c \in Copies
  PROVE  Closed(c) \in Copies /\ Waited(Closed(c)) /\ Closed(c).version = c.version
  BY TicksAssumption DEF Closed, Fresh, Copies, Waited, NotOpened

LEMMA OlderCopy ==
  ASSUME NEW c \in Copies, Waited(c)
  PROVE  Older(c) \in Copies /\ Waited(Older(c)) /\ Older(c).version = c.version
  BY TicksAssumption DEF Older, Copies, Waited, NotOpened

LEMMA SuccessCopy ==
  ASSUME NEW c \in Copies, Waited(c)
  PROVE  OnSuccess(c) \in Copies /\ Waited(OnSuccess(c)) /\ OnSuccess(c).version = c.version
<1>1. c.successes + 1 \in Nat /\ c.calls + 1 \in Nat
  BY DEF Copies
<1>2. Capped(c.successes + 1, SuccessThreshold) \in Nat /\ Capped(c.calls + 1, CallCap) \in Nat
  BY <1>1, CappedIsNat, CallCapIsNat, ThresholdAssumption
<1>3. CASE c.state = "half_open" /\ c.successes + 1 >= SuccessThreshold
  <2>1. OnSuccess(c) = Closed(c)
    BY <1>1, <1>3, ThresholdAssumption DEF OnSuccess
  <2> QED BY <2>1, ClosedCopy
<1>4. CASE c.state = "half_open" /\ c.successes + 1 < SuccessThreshold
  <2>1. ~(c.successes + 1 >= SuccessThreshold)
    BY <1>1, <1>4, ThresholdAssumption
  <2>2. OnSuccess(c) = [c EXCEPT !.successes = c.successes + 1,
                                 !.calls = Capped(c.calls + 1, CallCap)]
    BY <1>4, <2>1 DEF OnSuccess
  <2> QED BY <1>1, <1>2, <2>2 DEF Copies, Waited
<1>5. CASE c.state = "closed"
  <2> DEFINE k == Capped(c.successes + 1, SuccessThreshold)
             d == [c EXCEPT !.failures = 0, !.successes = k]
  <2>1. OnSuccess(c) = d
    BY <1>5 DEF OnSuccess
  <2>2. k \in Nat
    BY <1>2
  <2> HIDE DEF k
  <2>3. d \in Copies /\ d.version = c.version /\ d.state = "closed"
    BY <1>5, <2>2 DEF Copies
  <2> QED BY <2>1, <2>3 DEF Waited
<1>6. CASE c.state = "open"
  BY <1>6 DEF OnSuccess
<1> QED BY <1>1, <1>3, <1>4, <1>5, <1>6, ThresholdAssumption DEF Copies

LEMMA FailureCopy ==
  ASSUME NEW c \in Copies, Waited(c)
  PROVE  OnFailure(c) \in Copies /\ Waited(OnFailure(c)) /\ OnFailure(c).version = c.version
<1> DEFINE f == [c EXCEPT !.failures = Capped(c.failures + 1, FailureThreshold), !.successes = 0]
           o == [f EXCEPT !.state = "open", !.opened = RecoveryTicks]
           h == [f EXCEPT !.state = "open", !.opened = RecoveryTicks,
                          !.calls = Capped(f.calls + 1, CallCap)]
<1>0. c.failures + 1 \in Nat /\ c.calls + 1 \in Nat
  BY DEF Copies
<1>1. /\ Capped(c.failures + 1, FailureThreshold) \in Nat
      /\ Capped(c.calls + 1, CallCap) \in Nat
  BY <1>0, CappedIsNat, CallCapIsNat, ThresholdAssumption
<1>2. /\ f \in Copies /\ f.version = c.version /\ f.state = c.state
      /\ f.opened = c.opened /\ f.calls = c.calls
  BY <1>1 DEF Copies
<1>3. RecoveryTicks \in NotOpened..RecoveryTicks
  BY TicksAssumption DEF NotOpened
<1>4. /\ o \in Copies /\ o.version = c.version /\ o.state = "open"
      /\ h \in Copies /\ h.version = c.version /\ h.state = "open"
  BY <1>1, <1>2, <1>3 DEF Copies
<1>5. CASE c.state = "half_open"
  <2>1. OnFailure(c) = h
    BY <1>5 DEF OnFailure
  <2> QED BY <1>4, <2>1 DEF Waited
<1>6. CASE c.state = "closed" /\ c.failures + 1 >= FailureThreshold
  <2>1. OnFailure(c) = o
    BY <1>6 DEF OnFailure
  <2> QED BY <1>4, <2>1 DEF Waited
<1>7. CASE c.state # "half_open" /\ ~(c.state = "closed" /\ c.failures + 1 >= FailureThreshold)
  <2>1. OnFailure(c) = f
    BY <1>7 DEF OnFailure
  <2> QED BY <1>2, <1>7, <2>1 DEF Waited
<1> QED BY <1>5, <1>6, <1>7

-----------------------------------------------------------------------------
(* The invariant *)

LEMMA InitInv == Init => BreakerInv
  BY FreshCopy DEF Init, BreakerInv

(* Steps that move neither a copy, the row nor what a thread holds.         *)
LEMMA NothingMoved ==
  ASSUME BreakerInv, UNCHANGED <<local, row, held>>
  PROVE  BreakerInv'
  BY DEF BreakerInv

(* Steps of a node on its copy alone.                                       *)
LEMMA CopyMoved ==
  ASSUME BreakerInv, NEW n \in Nodes, NEW c \in Copies, Waited(c), c.version <= row.version,
         local' = [local EXCEPT ![n] = c], UNCHANGED row,
         held' \in [Threads -> Copies],
         \A th \in Threads : held'[th] = held[th] \/ held'[th] = Fresh
  PROVE  BreakerInv'
<1>1. /\ local' \in [Nodes -> Copies]
      /\ \A m \in Nodes : Waited(local'[m]) /\ local'[m].version <= row.version
  BY DEF BreakerInv
<1>2. row.version \in Nat
  BY DEF BreakerInv, Copies
<1>3. \A th \in Threads : Waited(held'[th]) /\ held'[th].version <= row.version
  BY <1>2, FreshCopy DEF BreakerInv
<1> QED BY <1>1, <1>3 DEF BreakerInv

(* Steps that a thread takes with a circuit in its hands.                   *)
LEMMA HeldMoved ==
  ASSUME BreakerInv, NEW th \in Threads, NEW c \in Copies, Waited(c), c.version <= row.version,
         Hold(th, c), UNCHANGED <<local, row>>
  PROVE  BreakerInv'
  BY DEF BreakerInv, Hold

LEMMA FreshHeld ==
  ASSUME BreakerInv, NEW th \in Threads, Hold(th, Fresh)
  PROVE  /\ held' \in [Threads -> Copies]
         /\ \A t \in Threads : held'[t] = held[t] \/ held'[t] = Fresh
  BY FreshCopy DEF BreakerInv, Hold

LEMMA SyncReadInv == ASSUME BreakerInv, NEW th \in Threads, SyncRead(th) PROVE BreakerInv'
<1>1. row \in Copies /\ Waited(row) /\ row.version <= row.version
  BY DEF BreakerInv, Copies
<1>2. CASE Hold(th, row)
  BY <1>1, <1>2, HeldMoved DEF SyncRead
<1> QED BY <1>2, NothingMoved DEF SyncRead

LEMMA SyncApplyInv == ASSUME BreakerInv, NEW th \in Threads, SyncApply(th) PROVE BreakerInv'
<1> DEFINE n == NodeOf[th]
           c == IF held[th].version >= local[n].version THEN HalfOpened(held[th]) ELSE local[n]
<1>1. n \in Nodes
  BY NodesAssumption
<1>2. c \in Copies /\ Waited(c) /\ c.version <= row.version
  BY <1>1, HalfOpenedCopy DEF BreakerInv
<1>3. local' = [local EXCEPT ![n] = c] /\ UNCHANGED row /\ Hold(th, Fresh)
  BY DEF SyncApply
<1> HIDE DEF n, c
<1> QED BY <1>1, <1>2, <1>3, FreshHeld, CopyMoved

LEMMA RecordInv == ASSUME BreakerInv, NEW th \in Threads, Record(th) PROVE BreakerInv'
<1> DEFINE n == NodeOf[th]
<1>1. n \in Nodes /\ local[n] \in Copies /\ Waited(local[n]) /\ local[n].version <= row.version
  BY NodesAssumption DEF BreakerInv
<1>2. PICK c \in {OnSuccess(local[n]), OnFailure(local[n])} : local' = [local EXCEPT ![n] = c]
  BY DEF Record
<1>3. c \in Copies /\ Waited(c) /\ c.version <= row.version
  BY <1>1, <1>2, SuccessCopy, FailureCopy
<1>4. UNCHANGED <<row, held>>
  BY DEF Record
<1>5. /\ held' \in [Threads -> Copies]
      /\ \A t \in Threads : held'[t] = held[t]
  BY <1>4 DEF BreakerInv
<1> QED BY <1>1, <1>2, <1>3, <1>4, <1>5, CopyMoved

LEMMA OpenedCopy ==
  ASSUME NEW c \in Copies
  PROVE  Opened(c) \in Copies /\ Waited(Opened(c)) /\ Opened(c).version = c.version
<1>1. RecoveryTicks \in NotOpened..RecoveryTicks
  BY TicksAssumption DEF NotOpened
<1> QED BY <1>1 DEF Opened, Copies, Waited

LEMMA ForceInv == ASSUME BreakerInv, NEW th \in Threads, ForceState(th) PROVE BreakerInv'
<1>1. PICK n \in Nodes : n = NodeOf[th]
  BY NodesAssumption
<1>2. local[n] \in Copies /\ local[n].version <= row.version
  BY DEF BreakerInv
<1>3. PICK c \in {Opened(local[n]), Closed(local[n])} : local' = [local EXCEPT ![n] = c]
  BY <1>1, <1>2 DEF ForceState, BreakerInv
<1>4. c \in Copies /\ Waited(c) /\ c.version <= row.version
  BY <1>2, <1>3, OpenedCopy, ClosedCopy
<1>5. UNCHANGED <<row, held>>
  BY DEF ForceState
<1>6. /\ held' \in [Threads -> Copies]
      /\ \A t \in Threads : held'[t] = held[t]
  BY <1>5 DEF BreakerInv
<1> QED BY <1>3, <1>4, <1>5, <1>6, CopyMoved

LEMMA PersistReadInv ==
  ASSUME BreakerInv, NEW th \in Threads, PersistRead(th) PROVE BreakerInv'
<1>1. NodeOf[th] \in Nodes
  BY NodesAssumption
<1>2. /\ local[NodeOf[th]] \in Copies /\ Waited(local[NodeOf[th]])
      /\ local[NodeOf[th]].version <= row.version
  BY <1>1 DEF BreakerInv
<1> QED BY <1>2, HeldMoved DEF PersistRead

(* The version of the row only grows, and what is written is not early.     *)
LEMMA PersistWriteInv ==
  ASSUME BreakerInv, NEW th \in Threads, PersistWrite(th) PROVE BreakerInv'
<1>1. /\ held[th] \in Copies /\ Waited(held[th])
      /\ row \in Copies /\ Waited(row) /\ row.version \in Nat
  BY DEF BreakerInv, Copies
<1>2. row' = row \/ row' = [held[th] EXCEPT !.version = row.version + 1]
  BY DEF PersistWrite, UpdateCircuitState
<1>3. row' \in Copies /\ Waited(row') /\ row.version <= row'.version /\ row'.version \in Nat
  BY <1>1, <1>2 DEF Copies, Waited
<1>4. UNCHANGED local /\ Hold(th, Fresh)
  BY DEF PersistWrite
<1>5. \A n \in Nodes : local'[n].version \in Nat /\ local'[n].version <= row'.version
  BY <1>1, <1>3, <1>4 DEF BreakerInv, Copies
<1>6. \A t \in Threads : Waited(held'[t]) /\ held'[t].version <= row'.version
  <2> TAKE t \in Threads
  <2>1. held'[t] = held[t] \/ held'[t] = Fresh
    BY <1>4, FreshHeld
  <2>2. held[t].version \in Nat /\ held[t].version <= row.version /\ Waited(held[t])
    BY DEF BreakerInv, Copies
  <2> QED BY <1>1, <1>3, <2>1, <2>2, FreshCopy
<1> QED BY <1>3, <1>4, <1>5, <1>6, FreshHeld DEF BreakerInv

LEMMA TickInv == ASSUME BreakerInv, Tick PROVE BreakerInv'
<1>1. \A n \in Nodes : /\ local'[n] = Older(local[n])
                       /\ local[n] \in Copies /\ Waited(local[n])
  BY DEF Tick, BreakerInv
<1>2. \A th \in Threads : /\ held'[th] = Older(held[th])
                          /\ held[th] \in Copies /\ Waited(held[th])
  BY DEF Tick, BreakerInv
<1>3. row' = Older(row) /\ row \in Copies /\ Waited(row)
  BY DEF Tick, BreakerInv
<1>4. local' \in [Nodes -> Copies] /\ held' \in [Threads -> Copies]
  BY <1>1, <1>2, OlderCopy DEF Tick
<1> QED BY <1>1, <1>2, <1>3, <1>4, OlderCopy DEF BreakerInv

LEMMA StepInv == BreakerInv /\ [Next]_vars => BreakerInv'
<1> SUFFICES ASSUME BreakerInv, [Next]_vars PROVE BreakerInv'
  OBVIOUS
<1>1. CASE UNCHANGED vars
  <2>1. UNCHANGED <<local, row, held>>
    BY <1>1 DEF vars
  <2> QED BY <2>1, NothingMoved
<1>2. CASE Tick
  BY <1>2, TickInv
<1>3. ASSUME NEW th \in Threads, Work(th) PROVE BreakerInv'
  <2>1. CASE Decide(th)
    <3>1. UNCHANGED <<local, row, held>>
      BY <2>1 DEF Decide
    <3> QED BY <3>1, NothingMoved
  <2>2. CASE SyncRead(th)
    BY <2>2, SyncReadInv
  <2>3. CASE SyncApply(th)
    BY <2>3, SyncApplyInv
  <2>4. CASE Record(th)
    BY <2>4, RecordInv
  <2>5. CASE PersistRead(th)
    BY <2>5, PersistReadInv
  <2>6. CASE PersistWrite(th)
    BY <2>6, PersistWriteInv
  <2> QED BY <1>3, <2>1, <2>2, <2>3, <2>4, <2>5, <2>6 DEF Work, Sync
<1>4. ASSUME NEW th \in Threads, ForceState(th) PROVE BreakerInv'
  BY <1>4, ForceInv
<1> QED BY <1>1, <1>2, <1>3, <1>4 DEF Next

LEMMA InvHolds == Spec => []BreakerInv
  BY InitInv, StepInv, PTL DEF Spec

-----------------------------------------------------------------------------
(* No node's copy is ahead of the row, on any number of nodes.              *)
THEOREM CopiesNeverAhead == Spec => []NeverAhead
<1>1. BreakerInv => NeverAhead
  BY DEF BreakerInv, NeverAhead
<1> QED BY <1>1, InvHolds, PTL

(* No circuit is half open before recovery_timeout has passed, whichever    *)
(* copy is applied or written last.                                         *)
THEOREM ProbesAreNotEarly == Spec => []NoEarlyProbe
<1>1. BreakerInv => NoEarlyProbe
  BY DEF BreakerInv, NoEarlyProbe, Waited
<1> QED BY <1>1, InvHolds, PTL

-----------------------------------------------------------------------------
(***************************************************************************)
(* The types, which bound the counters and the version.  The version is    *)
(* bounded because a call is only let through, and a state only forced,    *)
(* while every thread could still write once: what has to be counted is    *)
(* the threads that are about to.                                          *)
(***************************************************************************)
(* The counters stay at their caps.                                         *)
Bounded(c) ==
  c.failures <= FailureThreshold /\ c.successes <= SuccessThreshold /\ c.calls <= CallCap

(* The threads that are still to write, each of which may raise the version *)
(* of the row by one.                                                       *)
Writers == {th \in Threads : pc[th] \in {"call", "persist", "write"}}

BoundedInv ==
  /\ BreakerInv
  /\ \A n \in Nodes : Bounded(local[n])
  /\ Bounded(row)
  /\ \A th \in Threads : Bounded(held[th])
  /\ pc \in [Threads -> PCs] /\ faults \in 0..MaxFaults
  /\ row.version + Cardinality(Writers) <= MaxVersion

LEMMA CapsAreNat ==
  /\ FailureThreshold \in Nat \ {0} /\ SuccessThreshold \in Nat \ {0} /\ CallCap \in Nat
  /\ MaxVersion \in Nat /\ MaxFaults \in Nat
  BY ThresholdAssumption, CallCapIsNat, BoundsAssumption

LEMMA FreshBounded == Bounded(Fresh)
  BY CapsAreNat DEF Bounded, Fresh

LEMMA CappedBelow ==
  ASSUME NEW k \in Nat, NEW cap \in Nat
  PROVE  Capped(k, cap) \in Nat /\ Capped(k, cap) <= cap
  BY DEF Capped

LEMMA SuccessBounded ==
  ASSUME NEW c \in Copies, Bounded(c)
  PROVE  Bounded(OnSuccess(c))
<1>1. c.successes + 1 \in Nat /\ c.calls + 1 \in Nat
  BY DEF Copies
<1>2. /\ Capped(c.successes + 1, SuccessThreshold) <= SuccessThreshold
      /\ Capped(c.calls + 1, CallCap) <= CallCap
  BY <1>1, CappedBelow, CapsAreNat
<1>3. CASE c.state = "half_open" /\ c.successes + 1 >= SuccessThreshold
  <2>1. OnSuccess(c) = Closed(c)
    BY <1>1, <1>3, CapsAreNat DEF OnSuccess
  <2> QED BY <2>1, CapsAreNat DEF Closed, Bounded, Fresh
<1>4. CASE c.state = "half_open" /\ c.successes + 1 < SuccessThreshold
  <2>1. ~(c.successes + 1 >= SuccessThreshold)
    BY <1>1, <1>4, CapsAreNat
  <2>2. OnSuccess(c) = [c EXCEPT !.successes = c.successes + 1,
                                 !.calls = Capped(c.calls + 1, CallCap)]
    BY <1>4, <2>1 DEF OnSuccess
  <2> QED BY <1>1, <1>2, <1>4, <2>2, CapsAreNat DEF Copies, Bounded
<1>5. CASE c.state = "closed"
  <2> DEFINE k == Capped(c.successes + 1, SuccessThreshold)
             d == [c EXCEPT !.failures = 0, !.successes = k]
  <2>1. OnSuccess(c) = d
    BY <1>5 DEF OnSuccess
  <2>2. k <= SuccessThreshold
    BY <1>2
  <2> HIDE DEF k
  <2>3. Bounded(d)
    BY <2>2, CapsAreNat DEF Copies, Bounded
  <2> QED BY <2>1, <2>3
<1>6. CASE c.state = "open"
  BY <1>6 DEF OnSuccess
<1> QED BY <1>1, <1>3, <1>4, <1>5, <1>6, CapsAreNat DEF Copies

LEMMA FailureBounded ==
  ASSUME NEW c \in Copies, Bounded(c)
  PROVE  Bounded(OnFailure(c))
<1> DEFINE f == [c EXCEPT !.failures = Capped(c.failures + 1, FailureThreshold), !.successes = 0]
           o == [f EXCEPT !.state = "open", !.opened = RecoveryTicks]
           h == [f EXCEPT !.state = "open", !.opened = RecoveryTicks,
                          !.calls = Capped(f.calls + 1, CallCap)]
<1>0. c.failures + 1 \in Nat /\ c.calls + 1 \in Nat
  BY DEF Copies
<1>1. /\ Capped(c.failures + 1, FailureThreshold) <= FailureThreshold
      /\ Capped(c.calls + 1, CallCap) <= CallCap
  BY <1>0, CappedBelow, CapsAreNat
<1>2. /\ f.failures <= FailureThreshold /\ f.successes <= SuccessThreshold
      /\ f.calls = c.calls /\ f.calls <= CallCap
  BY <1>1, CapsAreNat DEF Copies, Bounded
<1>3. Bounded(f) /\ Bounded(o) /\ Bounded(h)
  BY <1>1, <1>2 DEF Copies, Bounded
<1>4. OnFailure(c) \in {f, o, h}
  BY DEF OnFailure
<1> QED BY <1>3, <1>4

LEMMA OthersBounded ==
  ASSUME NEW c \in Copies, Bounded(c)
  PROVE  /\ Bounded(HalfOpened(c)) /\ Bounded(Opened(c)) /\ Bounded(Closed(c)) /\ Bounded(Older(c))
         /\ \A v \in Nat : Bounded([c EXCEPT !.version = v])
<1>1. Bounded(HalfOpened(c))
  BY CapsAreNat DEF HalfOpened, Copies, Bounded
<1>2. Bounded(Opened(c)) /\ Bounded(Older(c)) /\ \A v \in Nat : Bounded([c EXCEPT !.version = v])
  BY DEF Opened, Older, Copies, Bounded
<1>3. Bounded(Closed(c))
  BY CapsAreNat DEF Closed, Fresh, Bounded
<1> QED BY <1>1, <1>2, <1>3

LEMMA WritersCounted ==
  ASSUME pc \in [Threads -> PCs]
  PROVE  IsFiniteSet(Writers) /\ Cardinality(Writers) \in Nat
         /\ Cardinality(Threads) \in Nat /\ Cardinality(Writers) <= Cardinality(Threads)
<1>1. Writers \subseteq Threads /\ IsFiniteSet(Threads)
  BY NodesAssumption DEF Writers
<1> QED BY <1>1, FS_Subset, FS_CardinalityType

LEMMA WritersMoved ==
  ASSUME pc \in [Threads -> PCs], NEW th \in Threads, NEW to \in PCs, Goto(th, to)
  PROVE  /\ pc' \in [Threads -> PCs]
         /\ (pc[th] \in {"call", "persist", "write"} <=> to \in {"call", "persist", "write"})
              => Writers' = Writers
         /\ pc[th] \in {"call", "persist", "write"} /\ to \notin {"call", "persist", "write"}
              => Cardinality(Writers') = Cardinality(Writers) - 1
<1>1. pc' \in [Threads -> PCs] /\ pc'[th] = to
      /\ \A x \in Threads : x # th => pc'[x] = pc[x]
  BY DEF Goto
<1>2. (pc[th] \in {"call", "persist", "write"} <=> to \in {"call", "persist", "write"})
         => Writers' = Writers
  BY <1>1 DEF Writers
<1>3. ASSUME pc[th] \in {"call", "persist", "write"}, to \notin {"call", "persist", "write"}
      PROVE  Cardinality(Writers') = Cardinality(Writers) - 1
  <2>1. Writers' = Writers \ {th} /\ th \in Writers
    BY <1>1, <1>3 DEF Writers
  <2> QED BY <2>1, WritersCounted, FS_RemoveElement
<1> QED BY <1>1, <1>2, <1>3

(* A step that changes one copy only, and no writer more.                   *)
LEMMA BoundedFrame ==
  ASSUME BoundedInv, BreakerInv', UNCHANGED <<row, faults>>,
         pc' \in [Threads -> PCs], Writers' = Writers,
         \A n \in Nodes : Bounded(local'[n]),
         \A th \in Threads : Bounded(held'[th])
  PROVE  BoundedInv'
  BY DEF BoundedInv, Bounded

LEMMA BoundedInit == Init => BoundedInv
<1> SUFFICES ASSUME Init PROVE BoundedInv
  OBVIOUS
<1>1. BreakerInv
  BY InitInv
<1>2. /\ \A n \in Nodes : Bounded(local[n])
      /\ Bounded(row)
      /\ \A th \in Threads : Bounded(held[th])
  BY FreshBounded DEF Init
<1>3. pc \in [Threads -> PCs] /\ faults \in 0..MaxFaults
  BY CapsAreNat DEF Init, PCs
<1>4. Writers = {}
  BY DEF Init, Writers
<1>5. row.version + Cardinality(Writers) <= MaxVersion
  BY <1>4, FreshCopy, CapsAreNat, FS_EmptySet DEF Init
<1> QED BY <1>1, <1>2, <1>3, <1>5 DEF BoundedInv

LEMMA BoundedWork ==
  ASSUME BoundedInv, BreakerInv', NEW th \in Threads, Work(th) \/ ForceState(th)
  PROVE  BoundedInv'
<1> DEFINE n == NodeOf[th]
<1>0. /\ n \in Nodes /\ local \in [Nodes -> Copies] /\ held \in [Threads -> Copies]
      /\ row \in Copies /\ row.version \in Nat
      /\ Bounded(local[n]) /\ Bounded(held[th]) /\ Bounded(row)
      /\ \A m \in Nodes : Bounded(local[m])
      /\ \A t \in Threads : Bounded(held[t])
      /\ pc \in [Threads -> PCs] /\ faults \in 0..MaxFaults
      /\ row.version + Cardinality(Writers) <= MaxVersion
  BY NodesAssumption DEF BoundedInv, BreakerInv, Copies
<1>a. /\ Cardinality(Writers) \in Nat /\ Cardinality(Threads) \in Nat
      /\ MaxVersion \in Nat /\ MaxFaults \in Nat
  BY <1>0, WritersCounted, CapsAreNat
<1>b. ASSUME NEW c \in Copies, Bounded(c), Hold(th, c)
      PROVE  \A t \in Threads : Bounded(held'[t])
  BY <1>0, <1>b DEF Hold
<1>c. ASSUME NEW c, Bounded(c), local' = [local EXCEPT ![n] = c]
      PROVE  \A m \in Nodes : Bounded(local'[m])
  BY <1>0, <1>c
<1>d. UNCHANGED held => \A t \in Threads : Bounded(held'[t])
  BY <1>0
<1>e. UNCHANGED local => \A m \in Nodes : Bounded(local'[m])
  BY <1>0
<1>f. ASSUME NEW to \in PCs, Goto(th, to), row.version + Cardinality(Threads) <= MaxVersion
      PROVE  row.version + Cardinality(Writers') <= MaxVersion
  <2>1. pc' \in [Threads -> PCs]
    BY <1>0, <1>f, WritersMoved
  <2>2. Cardinality(Writers)' \in Nat /\ Cardinality(Writers)' <= Cardinality(Threads)
    <3>1. Writers' \subseteq Threads /\ IsFiniteSet(Threads)
      BY NodesAssumption DEF Writers
    <3> QED BY <3>1, FS_Subset, FS_CardinalityType
  <2> QED BY <1>0, <1>a, <1>f, <2>2
<1> HIDE DEF n
<1>1. CASE SyncRead(th)
  <2>1. pc[th] = "idle" /\ (Goto(th, "sync") \/ Goto(th, "checked")) /\ UNCHANGED <<local, row>>
    BY <1>1 DEF SyncRead
  <2>2. pc' \in [Threads -> PCs] /\ Writers' = Writers
    BY <1>0, <2>1, WritersMoved DEF PCs
  <2>3. Hold(th, row) \/ UNCHANGED held
    BY <1>1 DEF SyncRead
  <2>4. faults' \in 0..MaxFaults
    BY <1>0, <1>1, <1>a DEF SyncRead, Fault
  <2>5. \A t \in Threads : Bounded(held'[t])
    BY <1>0, <1>b, <1>d, <2>3
  <2> QED BY <1>0, <1>e, <2>1, <2>2, <2>4, <2>5 DEF BoundedInv, Bounded
<1>2. CASE SyncApply(th)
  <2> DEFINE c == IF held[th].version >= local[n].version THEN HalfOpened(held[th]) ELSE local[n]
  <2>1. /\ pc[th] = "sync" /\ Goto(th, "checked") /\ UNCHANGED <<row, faults>>
        /\ Hold(th, Fresh) /\ local' = [local EXCEPT ![n] = c]
    BY <1>2 DEF SyncApply, n
  <2>2. Bounded(c)
    BY <1>0, OthersBounded
  <2> HIDE DEF c
  <2>3. pc' \in [Threads -> PCs] /\ Writers' = Writers
    BY <1>0, <2>1, WritersMoved DEF PCs
  <2>4. /\ \A m \in Nodes : Bounded(local'[m])
        /\ \A t \in Threads : Bounded(held'[t])
    BY <1>b, <1>c, <2>1, <2>2, FreshBounded, FreshCopy
  <2> QED BY <2>1, <2>3, <2>4, BoundedFrame
<1>3. CASE Decide(th)
  <2>1. UNCHANGED <<local, row, held, faults>> /\ pc[th] \in {"idle", "checked"}
    BY <1>3 DEF Decide
  <2>2. CASE Goto(th, "idle")
    <3>1. pc' \in [Threads -> PCs] /\ Writers' = Writers
      BY <1>0, <2>1, <2>2, WritersMoved DEF PCs
    <3> QED BY <1>d, <1>e, <2>1, <3>1, BoundedFrame
  <2>3. CASE Goto(th, "call") /\ row.version + Cardinality(Threads) <= MaxVersion
    <3>1. pc' \in [Threads -> PCs] /\ row.version + Cardinality(Writers') <= MaxVersion
      BY <1>0, <1>f, <2>3, WritersMoved DEF PCs
    <3> QED BY <1>0, <1>d, <1>e, <2>1, <3>1 DEF BoundedInv, Bounded
  <2> QED BY <1>3, <2>2, <2>3 DEF Decide
<1>4. CASE Record(th)
  <2>1. pc[th] = "call" /\ Goto(th, "persist") /\ UNCHANGED <<row, held, faults>>
    BY <1>4 DEF Record
  <2>2. PICK c \in {OnSuccess(local[n]), OnFailure(local[n])} : local' = [local EXCEPT ![n] = c]
    BY <1>4 DEF Record, n
  <2>3. Bounded(c)
    BY <1>0, <2>2, SuccessBounded, FailureBounded
  <2>4. pc' \in [Threads -> PCs] /\ Writers' = Writers
    BY <1>0, <2>1, WritersMoved DEF PCs
  <2> QED BY <1>c, <1>d, <2>1, <2>2, <2>3, <2>4, BoundedFrame
<1>5. CASE PersistRead(th)
  <2>1. pc[th] = "persist" /\ Goto(th, "write") /\ UNCHANGED <<local, row, faults>>
        /\ Hold(th, local[n])
    BY <1>5 DEF PersistRead, n
  <2>2. pc' \in [Threads -> PCs] /\ Writers' = Writers
    BY <1>0, <2>1, WritersMoved DEF PCs
  <2>3. \A t \in Threads : Bounded(held'[t])
    BY <1>0, <1>b, <2>1
  <2> QED BY <1>e, <2>1, <2>2, <2>3, BoundedFrame
<1>6. CASE PersistWrite(th)
  <2>1. pc[th] = "write" /\ Goto(th, "idle") /\ Hold(th, Fresh) /\ UNCHANGED local
    BY <1>6 DEF PersistWrite
  <2>2. row' = row \/ row' = [held[th] EXCEPT !.version = row.version + 1]
    BY <1>6 DEF PersistWrite, UpdateCircuitState
  <2>3. Bounded(row') /\ (row'.version = row.version \/ row'.version = row.version + 1)
    <3>1. row.version + 1 \in Nat /\ held[th] \in Copies
      BY <1>0
    <3>2. Bounded([held[th] EXCEPT !.version = row.version + 1])
      BY <1>0, <3>1, OthersBounded
    <3>3. [held[th] EXCEPT !.version = row.version + 1].version = row.version + 1
      BY <3>1 DEF Copies
    <3> QED BY <1>0, <2>2, <3>2, <3>3
  <2>4. pc' \in [Threads -> PCs] /\ Cardinality(Writers') = Cardinality(Writers) - 1
    BY <1>0, <2>1, WritersMoved DEF PCs
  <2>5. row'.version + Cardinality(Writers') <= MaxVersion
    BY <1>0, <1>a, <2>3, <2>4
  <2>6. faults' \in 0..MaxFaults
    BY <1>0, <1>6, <1>a DEF PersistWrite, Fault
  <2>7. \A t \in Threads : Bounded(held'[t])
    BY <1>b, <2>1, FreshBounded, FreshCopy
  <2> QED BY <1>e, <2>1, <2>3, <2>4, <2>5, <2>6, <2>7 DEF BoundedInv, Bounded
<1>7. CASE ForceState(th)
  <2>1. Goto(th, "persist") /\ UNCHANGED <<row, held, faults>>
        /\ row.version + Cardinality(Threads) <= MaxVersion
    BY <1>7 DEF ForceState
  <2>2. PICK c \in {Opened(local[n]), Closed(local[n])} : local' = [local EXCEPT ![n] = c]
    BY <1>7 DEF ForceState, n
  <2>3. Bounded(c)
    BY <1>0, <2>2, OthersBounded
  <2>4. pc' \in [Threads -> PCs] /\ row.version + Cardinality(Writers') <= MaxVersion
    BY <1>0, <1>f, <2>1, WritersMoved DEF PCs
  <2> QED BY <1>0, <1>c, <1>d, <2>1, <2>2, <2>3, <2>4 DEF BoundedInv, Bounded
<1> QED BY <1>1, <1>2, <1>3, <1>4, <1>5, <1>6, <1>7 DEF Work, Sync

LEMMA BoundedStep == BoundedInv /\ [Next]_vars => BoundedInv'
<1> SUFFICES ASSUME BoundedInv, [Next]_vars PROVE BoundedInv'
  OBVIOUS
<1>0. BreakerInv'
  BY StepInv DEF BoundedInv
<1>1. CASE Tick
  <2>1. /\ local \in [Nodes -> Copies] /\ held \in [Threads -> Copies] /\ row \in Copies
        /\ Bounded(row) /\ pc \in [Threads -> PCs]
        /\ \A n \in Nodes : Bounded(local[n])
        /\ \A t \in Threads : Bounded(held[t])
    BY DEF BoundedInv, BreakerInv
  <2>2. /\ \A n \in Nodes : Bounded(local'[n])
        /\ \A t \in Threads : Bounded(held'[t])
        /\ Bounded(row')
    BY <1>1, <2>1, OthersBounded DEF Tick
  <2>3. row'.version = row.version /\ UNCHANGED <<pc, faults>>
    BY <1>1, <2>1 DEF Tick, Older, Copies
  <2>4. Writers' = Writers
    BY <2>3 DEF Writers
  <2> QED BY <1>0, <2>1, <2>2, <2>3, <2>4 DEF BoundedInv, Bounded
<1>2. ASSUME NEW th \in Threads, Work(th) \/ ForceState(th) PROVE BoundedInv'
  BY <1>0, <1>2, BoundedWork
<1>3. CASE UNCHANGED vars
  BY <1>0, <1>3 DEF vars, BoundedInv, Bounded, Writers
<1> QED BY <1>1, <1>2, <1>3 DEF Next

(* No counter passes its cap and no version the bound of the model: a copy, *)
(* the row and what a thread carries stay circuits through every operation. *)
THEOREM BreakerTypeCorrect == Spec => []TypeOK
<1>1. BoundedInv => TypeOK
  <2> SUFFICES ASSUME BoundedInv PROVE TypeOK
    OBVIOUS
  <2>1. row.version \in Nat /\ row.version <= MaxVersion
    BY WritersCounted, CapsAreNat DEF BoundedInv, BreakerInv, Copies
  <2>2. ASSUME NEW c \in Copies, Bounded(c), c.version <= row.version
        PROVE  c \in Circuits
    BY <2>1, <2>2, CapsAreNat DEF Copies, Bounded, Circuits
  <2>3. local \in [Nodes -> Circuits]
    BY <2>2 DEF BoundedInv, BreakerInv
  <2>4. held \in [Threads -> Circuits]
    BY <2>2 DEF BoundedInv, BreakerInv
  <2>5. row \in Circuits
    BY <2>1, <2>2 DEF BoundedInv, BreakerInv
  <2> QED BY <2>3, <2>4, <2>5 DEF TypeOK, BoundedInv
<1> QED BY <1>1, BoundedInit, BoundedStep, PTL DEF Spec

=============================================================================
