--------------------------- MODULE ProcessesProofs ----------------------------
(***************************************************************************)
(* Theorems about the components that the Processes run checks, as far as  *)
(* they have no module of their own: the lock of a process' threads, the   *)
(* cluster, and the run itself.                                            *)
(***************************************************************************)
EXTENDS MCProcesses, BusinessProofs, AgentBreakerProofs, FiniteSetTheorems, TLAPS

-----------------------------------------------------------------------------
(* ReadWriteLock, for any number of callers, as long as no waiting writer   *)
(* can be cancelled.                                                        *)
Waiters == In("asleep_write") \cup In("awake_write")

(* The counters count. *)
CountsAreRight ==
  /\ rwReaders = Cardinality(In("reading"))
  /\ rwWriters = Cardinality(In("writing"))
  /\ rwWaiting = Cardinality(Waiters)

(***************************************************************************)
(* Why nobody is forgotten: a writer only goes to sleep while somebody is  *)
(* inside, whose departure wakes it; a reader that goes to sleep on a free *)
(* lock does so for a writer that is awake.                                *)
(***************************************************************************)
SleepersAreCared ==
  Idle => /\ In("asleep_write") = {}
          /\ In("asleep_read") # {} => In("awake_write") # {}

LockInv == LockTypeOK /\ CountsAreRight /\ WriterIsAlone /\ SleepersAreCared

LEMMA FiniteIn ==
  /\ \A s : IsFiniteSet(In(s))
  /\ IsFiniteSet(Waiters)
<1>1. \A s : In(s) \subseteq Callers
  BY DEF In
<1>2. Waiters \subseteq Callers
  BY <1>1 DEF Waiters
<1> QED BY <1>1, <1>2, CallersAssumption, FS_Subset

LEMMA CountZero ==
  ASSUME LockTypeOK, CountsAreRight
  PROVE  /\ rwReaders = 0 <=> In("reading") = {}
         /\ rwWriters = 0 <=> In("writing") = {}
         /\ rwWaiting = 0 <=> Waiters = {}
BY FiniteIn, FS_EmptySet DEF CountsAreRight

(* One caller moves from one state to another.                              *)
LEMMA Moved ==
  ASSUME LockTypeOK, NEW c \in Callers, NEW to \in States,
         rwState' = [rwState EXCEPT ![c] = to]
  PROVE  /\ rwState' \in [Callers -> States]
         /\ \A s : In(s)' = IF s = to THEN In(s) \cup {c} ELSE In(s) \ {c}
BY DEF LockTypeOK, In

(* One caller leaves and everyone who sleeps is woken.                      *)
LEMMA Notified ==
  ASSUME LockTypeOK, NEW c \in Callers, rwState[c] \in {"reading", "writing"},
         LeaveAndNotify(c)
  PROVE  /\ rwState' \in [Callers -> States]
         /\ In("reading")' = In("reading") \ {c}
         /\ In("writing")' = In("writing") \ {c}
         /\ Waiters' = Waiters
         /\ In("asleep_read")' = {}
         /\ In("asleep_write")' = {}
<1>1. \A d \in Callers : rwState'[d] = IF d = c THEN "out" ELSE Awoken(rwState[d])
  BY DEF LeaveAndNotify
<1>2. \A s \in States : Awoken(s) \in States \ {"asleep_read", "asleep_write"}
  BY DEF Awoken, States
<1>3. \A s \in States : /\ Awoken(s) = "reading" <=> s = "reading"
                        /\ Awoken(s) = "writing" <=> s = "writing"
                        /\ Awoken(s) = "awake_write" <=> s \in {"asleep_write", "awake_write"}
  BY DEF Awoken, States
<1>4. rwState \in [Callers -> States]
  BY DEF LockTypeOK
<1>5. rwState' \in [Callers -> States]
  BY <1>1, <1>2, <1>4 DEF LeaveAndNotify, States
<1>6. In("asleep_read")' = {} /\ In("asleep_write")' = {}
  BY <1>1, <1>2, <1>4 DEF In
<1>7. In("reading")' = In("reading") \ {c} /\ In("writing")' = In("writing") \ {c}
  BY <1>1, <1>3, <1>4 DEF In
<1>8. In("awake_write")' = Waiters
  BY <1>1, <1>3, <1>4 DEF In, Waiters
<1> QED BY <1>5, <1>6, <1>7, <1>8 DEF Waiters

LEMMA LockInitInv == LockInit => LockInv
<1> SUFFICES ASSUME LockInit PROVE LockInv
  OBVIOUS
<1>1. \A s : s # "out" => In(s) = {}
  BY DEF LockInit, In
<1>2. Waiters = {}
  BY <1>1 DEF Waiters
<1>3. LockTypeOK
  BY DEF LockInit, LockTypeOK, States
<1>4. CountsAreRight
  BY <1>1, <1>2, FS_EmptySet DEF LockInit, CountsAreRight
<1> QED BY <1>1, <1>3, <1>4 DEF LockInv, WriterIsAlone, SleepersAreCared, LockInit

(* A caller goes to sleep as a reader, at first or again.                   *)
LEMMA ReaderSleeps ==
  ASSUME LockInv, NEW c \in Callers, rwState[c] \in {"out", "awake_read"}, ReadBlocked,
         rwState' = [rwState EXCEPT ![c] = "asleep_read"],
         UNCHANGED <<rwReaders, rwWriters, rwWaiting>>
  PROVE  LockInv'
<1> USE DEF LockInv
<1>1. /\ rwState' \in [Callers -> States]
      /\ \A s : In(s)' = IF s = "asleep_read" THEN In(s) \cup {c} ELSE In(s) \ {c}
  BY Moved DEF States
<1>2. \A s : s \notin {"out", "awake_read", "asleep_read"} => In(s)' = In(s)
  BY <1>1 DEF In
<1>3. CountsAreRight' /\ Waiters' = Waiters
  BY <1>2 DEF CountsAreRight, Waiters
<1>4. WriterIsAlone'
  BY <1>1 DEF WriterIsAlone, LockTypeOK
<1>5. SleepersAreCared'
  <2> SUFFICES ASSUME Idle' PROVE In("asleep_write")' = {} /\ In("awake_write")' # {}
    BY DEF SleepersAreCared
  <2>1. Idle
    BY <1>2 DEF Idle
  <2>2. Waiters # {}
    BY <2>1, CountZero DEF Idle, ReadBlocked, LockTypeOK
  <2> QED BY <1>2, <2>1, <2>2 DEF SleepersAreCared, Waiters
<1> QED BY <1>1, <1>3, <1>4, <1>5 DEF LockTypeOK

(* A reader enters.                                                         *)
LEMMA ReaderEnters ==
  ASSUME LockInv, NEW c \in Callers, rwState[c] \in {"out", "awake_read"}, ~ReadBlocked,
         rwState' = [rwState EXCEPT ![c] = "reading"],
         rwReaders' = rwReaders + 1, UNCHANGED <<rwWriters, rwWaiting>>
  PROVE  LockInv'
<1> USE DEF LockInv
<1>1. /\ rwState' \in [Callers -> States]
      /\ \A s : In(s)' = IF s = "reading" THEN In(s) \cup {c} ELSE In(s) \ {c}
  BY Moved DEF States
<1>2. \A s : s \notin {"out", "awake_read", "reading"} => In(s)' = In(s)
  BY <1>1 DEF In
<1>3. c \notin In("reading") /\ In("reading")' = In("reading") \cup {c}
  BY <1>1 DEF In
<1>4. CountsAreRight'
  BY <1>2, <1>3, FiniteIn, FS_AddElement DEF CountsAreRight, Waiters
<1>5. In("writing") = {}
  BY CountZero DEF ReadBlocked, LockTypeOK
<1>6. WriterIsAlone'
  BY <1>2, <1>5 DEF WriterIsAlone, In
<1>7. ~Idle'
  BY <1>3 DEF Idle
<1> QED BY <1>1, <1>4, <1>6, <1>7 DEF LockTypeOK, SleepersAreCared

(* A writer enters.                                                         *)
LEMMA WriterEnters ==
  ASSUME LockInv, NEW c \in Callers, ~WriteBlocked,
         \/ rwState[c] = "out" /\ rwWaiting' = rwWaiting
         \/ rwState[c] = "awake_write" /\ rwWaiting' = rwWaiting - 1,
         rwState' = [rwState EXCEPT ![c] = "writing"],
         rwWriters' = rwWriters + 1, UNCHANGED rwReaders
  PROVE  LockInv'
<1> USE DEF LockInv
<1>1. /\ rwState' \in [Callers -> States]
      /\ \A s : In(s)' = IF s = "writing" THEN In(s) \cup {c} ELSE In(s) \ {c}
  BY Moved DEF States
<1>2. In("reading") = {} /\ In("writing") = {}
  BY CountZero DEF WriteBlocked, LockTypeOK
<1>3. In("reading")' = {} /\ In("writing")' = {c}
  BY <1>1, <1>2
<1>4. rwReaders' = Cardinality(In("reading")') /\ rwWriters' = Cardinality(In("writing")')
  <2>1. rwWriters = 0 /\ Cardinality({c}) = 1
    <3>1. rwWriters = 0
      BY <1>2, CountZero
    <3>2. Cardinality({c}) = 1
      BY FS_Singleton
    <3> QED BY <3>1, <3>2
  <2>2. rwReaders = Cardinality({})
    BY <1>2 DEF CountsAreRight
  <2> QED BY <1>3, <2>1, <2>2
<1>5. rwWaiting' = Cardinality(Waiters') /\ rwWaiting' \in Nat
  <2>1. CASE rwState[c] = "out" /\ rwWaiting' = rwWaiting
    <3>1. Waiters' = Waiters
      BY <1>1, <2>1 DEF Waiters, In
    <3> QED BY <2>1, <3>1 DEF CountsAreRight, LockTypeOK
  <2>2. CASE rwState[c] = "awake_write" /\ rwWaiting' = rwWaiting - 1
    <3>1. c \in Waiters /\ Waiters' = Waiters \ {c}
      BY <1>1, <2>2 DEF Waiters, In
    <3>2. Cardinality(Waiters \ {c}) = Cardinality(Waiters) - 1 /\ Cardinality(Waiters \ {c}) \in Nat
      BY <3>1, FiniteIn, FS_RemoveElement, FS_CardinalityType
    <3> QED BY <2>2, <3>1, <3>2 DEF CountsAreRight
  <2> QED BY <2>1, <2>2
<1>6. WriterIsAlone'
  BY <1>3 DEF WriterIsAlone, In
<1>7. ~Idle'
  BY <1>3 DEF Idle
<1> QED BY <1>1, <1>4, <1>5, <1>6, <1>7 DEF LockTypeOK, CountsAreRight, SleepersAreCared

(* A caller goes to sleep as a writer, at first or again.                   *)
LEMMA WriterSleeps ==
  ASSUME LockInv, NEW c \in Callers, WriteBlocked,
         \/ rwState[c] = "out" /\ rwWaiting' = rwWaiting + 1
         \/ rwState[c] = "awake_write" /\ rwWaiting' = rwWaiting,
         rwState' = [rwState EXCEPT ![c] = "asleep_write"],
         UNCHANGED <<rwReaders, rwWriters>>
  PROVE  LockInv'
<1> USE DEF LockInv
<1>1. /\ rwState' \in [Callers -> States]
      /\ \A s : In(s)' = IF s = "asleep_write" THEN In(s) \cup {c} ELSE In(s) \ {c}
  BY Moved DEF States
<1>2. In("reading")' = In("reading") /\ In("writing")' = In("writing")
  BY <1>1 DEF In
<1>3. rwWaiting' = Cardinality(Waiters') /\ rwWaiting' \in Nat
  <2>1. CASE rwState[c] = "out" /\ rwWaiting' = rwWaiting + 1
    <3>1. c \notin Waiters /\ Waiters' = Waiters \cup {c}
      BY <1>1, <2>1 DEF Waiters, In
    <3>2. Cardinality(Waiters \cup {c}) = Cardinality(Waiters) + 1
      BY <3>1, FiniteIn, FS_AddElement
    <3> QED BY <2>1, <3>1, <3>2 DEF CountsAreRight, LockTypeOK
  <2>2. CASE rwState[c] = "awake_write" /\ rwWaiting' = rwWaiting
    <3>1. Waiters' = Waiters
      BY <1>1, <2>2 DEF Waiters, In
    <3> QED BY <2>2, <3>1 DEF CountsAreRight, LockTypeOK
  <2> QED BY <2>1, <2>2
<1>4. WriterIsAlone'
  BY <1>1 DEF WriterIsAlone, LockTypeOK
<1>5. ~Idle'
  BY <1>2, CountZero DEF Idle, WriteBlocked, LockTypeOK
<1> QED BY <1>1, <1>2, <1>3, <1>4, <1>5 DEF LockTypeOK, CountsAreRight, SleepersAreCared

LEMMA LockStepInv ==
  ASSUME "write" \notin Cancellable, LockInv, [LockNext]_rwVars
  PROVE  LockInv'
<1> USE DEF LockInv
<1>0. CASE UNCHANGED rwVars
  BY <1>0 DEF rwVars, LockTypeOK, CountsAreRight, WriterIsAlone, SleepersAreCared, Idle, In,
              Waiters
<1> SUFFICES ASSUME NEW c \in Callers, CallerStep(c) PROVE LockInv'
  BY <1>0 DEF LockNext
<1>1. CASE AcquireRead(c)
  BY <1>1, ReaderSleeps, ReaderEnters DEF AcquireRead
<1>2. CASE AcquireWrite(c)
  BY <1>2, WriterSleeps, WriterEnters DEF AcquireWrite
<1>3. CASE ReaderRetries(c)
  BY <1>3, ReaderSleeps, ReaderEnters DEF ReaderRetries
<1>4. CASE WriterRetries(c)
  BY <1>4, WriterSleeps, WriterEnters DEF WriterRetries
<1>5. CASE ReleaseRead(c)
  <2>1. c \in In("reading") /\ In("writing") = {}
    BY <1>5 DEF ReleaseRead, In, WriterIsAlone
  <2>2. /\ Cardinality(In("reading") \ {c}) = rwReaders - 1
        /\ rwReaders' = rwReaders - 1
        /\ rwReaders' \in Nat
    <3>1. Cardinality(In("reading") \ {c}) = Cardinality(In("reading")) - 1
      BY <2>1, FiniteIn, FS_RemoveElement
    <3>2. Cardinality(In("reading") \ {c}) \in Nat
      BY FiniteIn, FS_RemoveElement, FS_CardinalityType
    <3> QED BY <1>5, <3>1, <3>2 DEF ReleaseRead, CountsAreRight
  <2>3. CASE rwReaders = 1 /\ LeaveAndNotify(c)
    <3>1. /\ rwState' \in [Callers -> States]
          /\ In("reading")' = In("reading") \ {c}
          /\ In("writing")' = In("writing") \ {c}
          /\ Waiters' = Waiters
          /\ In("asleep_read")' = {}
          /\ In("asleep_write")' = {}
      BY <1>5, <2>3, Notified DEF ReleaseRead
    <3>2. CountsAreRight'
      BY <1>5, <2>1, <2>2, <3>1 DEF ReleaseRead, CountsAreRight
    <3>3. In("writing")' = {}
      BY <2>1, <3>1
    <3>4. WriterIsAlone'
      BY <3>3 DEF WriterIsAlone, In
    <3> QED BY <1>5, <2>2, <3>1, <3>2, <3>4 DEF ReleaseRead, LockTypeOK, SleepersAreCared
  <2>4. CASE rwReaders # 1 /\ LeaveQuietly(c)
    <3>1. /\ rwState' \in [Callers -> States]
          /\ \A s : In(s)' = IF s = "out" THEN In(s) \cup {c} ELSE In(s) \ {c}
      BY <2>4, Moved DEF LeaveQuietly, States
    <3>2. \A s : s \notin {"out", "reading"} => In(s)' = In(s)
      BY <1>5, <3>1 DEF ReleaseRead, In
    <3>3. CountsAreRight'
      BY <1>5, <2>2, <3>1, <3>2 DEF ReleaseRead, CountsAreRight, Waiters
    <3>4. WriterIsAlone'
      BY <2>1, <3>2 DEF WriterIsAlone, In
    <3>5. In("reading")' # {}
      BY <2>2, <2>4, <3>1, FS_EmptySet DEF LockTypeOK
    <3> QED BY <1>5, <2>2, <3>1, <3>3, <3>4, <3>5
            DEF ReleaseRead, LockTypeOK, SleepersAreCared, Idle
  <2> QED BY <1>5, <2>3, <2>4 DEF ReleaseRead
<1>6. CASE ReleaseWrite(c)
  <2>1. c \in In("writing")
    BY <1>6 DEF ReleaseWrite, In
  <2>2. /\ rwState' \in [Callers -> States]
        /\ In("reading")' = In("reading") \ {c}
        /\ In("writing")' = In("writing") \ {c}
        /\ Waiters' = Waiters
        /\ In("asleep_read")' = {}
        /\ In("asleep_write")' = {}
    BY <1>6, Notified DEF ReleaseWrite
  <2>3. /\ rwWriters' = Cardinality(In("writing") \ {c})
        /\ rwWriters' \in Nat
    <3>1. Cardinality(In("writing") \ {c}) = Cardinality(In("writing")) - 1
      BY <2>1, FiniteIn, FS_RemoveElement
    <3>2. Cardinality(In("writing") \ {c}) \in Nat
      BY FiniteIn, FS_RemoveElement, FS_CardinalityType
    <3> QED BY <1>6, <3>1, <3>2 DEF ReleaseWrite, CountsAreRight
  <2>4. In("reading") \ {c} = In("reading")
    BY <1>6 DEF ReleaseWrite, In
  <2>5. CountsAreRight'
    BY <1>6, <2>2, <2>3, <2>4 DEF ReleaseWrite, CountsAreRight
  <2>6. WriterIsAlone'
    <3>1. \A d \in Callers : rwState'[d] = "writing" => rwState[d] = "writing" /\ d # c
      BY <2>2 DEF In
    <3> QED BY <1>6, <3>1 DEF ReleaseWrite, WriterIsAlone
  <2> QED BY <1>6, <2>2, <2>3, <2>5, <2>6 DEF ReleaseWrite, LockTypeOK, SleepersAreCared
<1>7. CASE Cancel(c)
  <2>1. rwState[c] \in {"asleep_read", "awake_read"}
    BY <1>7, CancellableAssumption DEF Cancel, WaitsFor
  <2>2. /\ rwState' \in [Callers -> States]
        /\ \A s : In(s)' = IF s = "out" THEN In(s) \cup {c} ELSE In(s) \ {c}
    BY <1>7, Moved DEF Cancel, LeaveQuietly, States
  <2>3. \A s : s \notin {"out", "asleep_read", "awake_read"} => In(s)' = In(s)
    BY <2>1, <2>2 DEF In
  <2>4. CountsAreRight'
    <3>1. /\ In("reading")' = In("reading")
          /\ In("writing")' = In("writing")
          /\ Waiters' = Waiters
      BY <2>3 DEF Waiters
    <3> QED BY <1>7, <3>1 DEF Cancel, CountsAreRight
  <2>5. WriterIsAlone'
    BY <2>2 DEF WriterIsAlone, In
  <2>6. SleepersAreCared'
    BY <2>2, <2>3 DEF SleepersAreCared, Idle
  <2> QED BY <1>7, <2>2, <2>4, <2>5, <2>6 DEF Cancel, LockTypeOK
<1> QED BY <1>1, <1>2, <1>3, <1>4, <1>5, <1>6, <1>7 DEF CallerStep

LEMMA LockInvHolds ==
  ASSUME "write" \notin Cancellable
  PROVE  LockSpec => []LockInv
<1>1. LockInv /\ [LockNext]_rwVars => LockInv'
  BY LockStepInv
<1> QED BY LockInitInv, <1>1, PTL DEF LockSpec

(* The counters of the lock are never negative: no release and no departure *)
(* of a waiting caller takes one off twice.                                 *)
THEOREM LockTypeCorrect ==
  ASSUME "write" \notin Cancellable
  PROVE  LockSpec => []LockTypeOK
<1>1. LockInv => LockTypeOK
  BY DEF LockInv
<1> QED BY LockInvHolds, <1>1, PTL

(* The lock excludes and nobody sleeps on a free lock, for every number of  *)
(* threads and every order in which they are woken; in the async half, as   *)
(* long as no waiting writer is cancelled.                                  *)
THEOREM LockIsSound ==
  ASSUME "write" \notin Cancellable
  PROVE  LockSpec => []LockSound
<1>1. LockInv => LockSound
  <2> SUFFICES ASSUME LockInv PROVE NoLostWakeup
    BY DEF LockInv, LockSound
  <2> QED BY DEF LockInv, NoLostWakeup, SleepersAreCared
<1> QED BY LockInvHolds, <1>1, PTL

-----------------------------------------------------------------------------
(* ClusterTopology, for any number of nodes and any heartbeat interval. *)
LEMMA TopologyInitType == TopologyInit => TopologyTypeOK
BY IntervalAssumption, TopologyBounds
   DEF TopologyInit, TopologyTypeOK, NodePCs, NoRow, Dead, HeartbeatThreads

(* What the steps have in common, for the types. *)
LEMMA RowTypes ==
  ASSUME TopologyTypeOK
  PROVE  /\ \A n \in Nodes : SetRow(n, 0) \/ SetRow(n, NoRow) \/ UNCHANGED tpRow
                               => tpRow' \in [Nodes -> NoRow..(Dead + 1)]
         /\ Trouble \/ UNCHANGED tpTroubles => tpTroubles' \in 0..MaxTroubles
BY IntervalAssumption, TopologyBounds
   DEF TopologyTypeOK, SetRow, NoRow, Dead, Trouble

LEMMA TopologyTypeStep ==
  ASSUME TopologyTypeOK, [TopologyNext]_tpVars
  PROVE  TopologyTypeOK'
<1> USE IntervalAssumption, TopologyBounds DEF TopologyTypeOK
<1>0. CASE UNCHANGED tpVars
  BY <1>0 DEF tpVars
<1>1. CASE \E n \in Nodes : Join(n)
  BY <1>1, RowTypes DEF Join, NodeGoto, NodePCs
<1>2. CASE \E n \in Nodes : StartHeartbeat(n)
  BY <1>2 DEF StartHeartbeat, NodeGoto, NodePCs, StartThread, HeartbeatThreads
<1>3. CASE \E n \in Nodes : RegisterInTopology(n)
  BY <1>3, RowTypes DEF RegisterInTopology, NodeGoto, NodePCs
<1>4. CASE \E n \in Nodes : StartWorker(n)
  BY <1>4 DEF StartWorker, NodeGoto, NodePCs, StartThread, HeartbeatThreads
<1>5. CASE \E n \in Nodes : StopWorker(n)
  BY <1>5 DEF StopWorker, NodeGoto, NodePCs
<1>6. CASE \E n \in Nodes : DeregisterFromTopology(n)
  BY <1>6, RowTypes DEF DeregisterFromTopology, NodeGoto, NodePCs
<1>7. CASE \E n \in Nodes : Leave(n)
  BY <1>7, RowTypes DEF Leave, NodeGoto, NodePCs
<1>8. CASE \E n \in Nodes, h \in HeartbeatThreads : Beat(n, h)
  <2> PICK n \in Nodes, h \in HeartbeatThreads : Beat(n, h)
    BY <1>8
  <2>1. tpRow' \in [Nodes -> NoRow..(Dead + 1)] /\ tpTroubles' \in 0..MaxTroubles
    BY RowTypes DEF Beat
  <2>2. tpDue' \in [Nodes -> [HeartbeatThreads -> 0..Interval]]
    BY DEF Beat
  <2> QED BY <2>1, <2>2 DEF Beat
<1>9. CASE \E n \in Nodes, h \in HeartbeatThreads : BeatExit(n, h)
  BY <1>9 DEF BeatExit
<1>10. CASE \E n \in Nodes : NodeCrash(n)
  BY <1>10 DEF NodeCrash, NodeGoto, NodePCs, Trouble
<1>11. CASE \E n \in Nodes : Remove(n)
  BY <1>11, RowTypes DEF Remove
<1>12. CASE DetectDead
  BY <1>12 DEF DetectDead
<1>13. CASE TopologyTick
  <2>1. tpRow' \in [Nodes -> NoRow..(Dead + 1)]
    BY <1>13 DEF TopologyTick, Older, Dead, NoRow
  <2>2. tpDue' \in [Nodes -> [HeartbeatThreads -> 0..Interval]]
    BY <1>13 DEF TopologyTick, OnTime
  <2> QED BY <1>13, <2>1, <2>2 DEF TopologyTick
<1> QED BY <1>0, <1>1, <1>2, <1>3, <1>4, <1>5, <1>6, <1>7, <1>8, <1>9, <1>10, <1>11,
           <1>12, <1>13 DEF TopologyNext

(* Every variable keeps its type: the age of a row and what is due stay in  *)
(* their ranges.                                                            *)
THEOREM TopologyTypeCorrect == TopologySpec => []TopologyTypeOK
BY TopologyInitType, TopologyTypeStep, PTL DEF TopologySpec

LEMMA LeftStep ==
  ASSUME TopologyTypeOK, LeftIsGone, [TopologyNext]_tpVars
  PROVE  LeftIsGone'
<1> USE DEF TopologyTypeOK, LeftIsGone, SetRow, NodeGoto
<1>0. CASE UNCHANGED tpVars
  BY <1>0 DEF tpVars
<1>1. CASE \E n \in Nodes : Join(n)
  BY <1>1 DEF Join
<1>2. CASE \E n \in Nodes : StartHeartbeat(n)
  BY <1>2 DEF StartHeartbeat
<1>3. CASE \E n \in Nodes : RegisterInTopology(n)
  BY <1>3 DEF RegisterInTopology
<1>4. CASE \E n \in Nodes : StartWorker(n)
  BY <1>4 DEF StartWorker
<1>5. CASE \E n \in Nodes : StopWorker(n)
  BY <1>5 DEF StopWorker
<1>6. CASE \E n \in Nodes : DeregisterFromTopology(n)
  BY <1>6 DEF DeregisterFromTopology
<1>7. CASE \E n \in Nodes : Leave(n)
  BY <1>7 DEF Leave
<1>8. CASE \E n \in Nodes, h \in HeartbeatThreads : Beat(n, h)
  BY <1>8 DEF Beat
<1>9. CASE \E n \in Nodes, h \in HeartbeatThreads : BeatExit(n, h)
  BY <1>9 DEF BeatExit
<1>10. CASE \E n \in Nodes : NodeCrash(n)
  BY <1>10 DEF NodeCrash
<1>11. CASE \E n \in Nodes : Remove(n)
  BY <1>11 DEF Remove
<1>12. CASE DetectDead
  BY <1>12 DEF DetectDead
<1>13. CASE TopologyTick
  BY <1>13 DEF TopologyTick, Older
<1> QED BY <1>0, <1>1, <1>2, <1>3, <1>4, <1>5, <1>6, <1>7, <1>8, <1>9, <1>10, <1>11,
           <1>12, <1>13 DEF TopologyNext

(* A node that has left has no row, whatever thread wrote last: no          *)
(* heartbeat of a node brings its row back after Leave deleted it.          *)
THEOREM LeftStaysGone == TopologySpec => []LeftIsGone
<1>1. TopologyInit => LeftIsGone
  BY DEF TopologyInit, LeftIsGone
<1>2. TopologyTypeOK /\ LeftIsGone /\ [TopologyNext]_tpVars => LeftIsGone'
  BY LeftStep
<1> QED BY <1>1, <1>2, TopologyTypeCorrect, PTL DEF TopologySpec

(***************************************************************************)
(* How old the row of a running node can be, with at most two troubles so  *)
(* far: which of the heartbeats that were due since the row was written    *)
(* can have been lost, or are due now (a thread whose tpDue is Interval).  *)
(***************************************************************************)
ThreadsRun ==
  \A n \in Nodes :
    /\ tpPc[n] \in {"heart", "registered", "up"} => "topology" \in tpBeating[n]
    /\ tpPc[n] = "up" => "worker" \in tpBeating[n]

Watched(n, age, t, w) ==
  LET tSoon == age <= t + Interval \/ t = Interval
      wSoon == age <= w \/ w = Interval
  IN
  /\ tpPc[n] = "heart" /\ tpTroubles = 0 => age <= t \/ t = Interval
  /\ tpPc[n] = "registered" => /\ tpTroubles = 0 => age <= t
                               /\ tpTroubles = 1 => tSoon
  /\ tpPc[n] = "up" => /\ tpTroubles = 0 => age <= t /\ wSoon
                       /\ tpTroubles = 1 => age <= t \/ (tSoon /\ wSoon)
                       /\ tpTroubles = 2 => tSoon \/ wSoon

AllWatched ==
  \A n \in Nodes : Watched(n, tpRow[n], tpDue[n]["topology"], tpDue[n]["worker"])

WatchInv == TopologyTypeOK /\ ThreadsRun /\ AllWatched

LEMMA ThreadsStep ==
  ASSUME TopologyTypeOK, ThreadsRun, [TopologyNext]_tpVars
  PROVE  ThreadsRun'
<1> USE DEF TopologyTypeOK, ThreadsRun, NodeGoto
<1>0. CASE UNCHANGED tpVars
  BY <1>0 DEF tpVars
<1>1. CASE \E n \in Nodes : Join(n)
  BY <1>1 DEF Join, Trouble
<1>2. CASE \E n \in Nodes : StartHeartbeat(n)
  BY <1>2 DEF StartHeartbeat, StartThread, HeartbeatThreads
<1>3. CASE \E n \in Nodes : RegisterInTopology(n)
  BY <1>3 DEF RegisterInTopology, Trouble
<1>4. CASE \E n \in Nodes : StartWorker(n)
  BY <1>4 DEF StartWorker, StartThread, HeartbeatThreads
<1>5. CASE \E n \in Nodes : StopWorker(n)
  BY <1>5 DEF StopWorker
<1>6. CASE \E n \in Nodes : DeregisterFromTopology(n)
  BY <1>6 DEF DeregisterFromTopology, Trouble
<1>7. CASE \E n \in Nodes : Leave(n)
  BY <1>7 DEF Leave, Trouble
<1>8. CASE \E n \in Nodes, h \in HeartbeatThreads : Beat(n, h)
  BY <1>8 DEF Beat, Trouble, HeartbeatThreads, NoRow
<1>9. CASE \E n \in Nodes, h \in HeartbeatThreads : BeatExit(n, h)
  BY <1>9 DEF BeatExit, HeartbeatThreads
<1>10. CASE \E n \in Nodes : NodeCrash(n)
  BY <1>10 DEF NodeCrash, Trouble
<1>11. CASE \E n \in Nodes : Remove(n)
  BY <1>11 DEF Remove, Trouble, NoRow
<1>12. CASE DetectDead
  BY <1>12 DEF DetectDead
<1>13. CASE TopologyTick
  BY <1>13 DEF TopologyTick, Older, OnTime, HeartbeatThreads
<1> QED BY <1>0, <1>1, <1>2, <1>3, <1>4, <1>5, <1>6, <1>7, <1>8, <1>9, <1>10, <1>11,
           <1>12, <1>13 DEF TopologyNext

LEMMA WatchStep ==
  ASSUME WatchInv, [TopologyNext]_tpVars
  PROVE  AllWatched'
<1> USE IntervalAssumption, TopologyBounds
    DEF WatchInv, TopologyTypeOK, ThreadsRun, AllWatched, Watched, NodeGoto, SetRow
<1>0. CASE UNCHANGED tpVars
  BY <1>0 DEF tpVars
<1>1. CASE \E n \in Nodes : Join(n)
  BY <1>1 DEF Join, Trouble
<1>2. CASE \E n \in Nodes : StartHeartbeat(n)
  BY <1>2 DEF StartHeartbeat, StartThread, HeartbeatThreads
<1>3. CASE \E n \in Nodes : RegisterInTopology(n)
  BY <1>3 DEF RegisterInTopology, Trouble
<1>4. CASE \E n \in Nodes : StartWorker(n)
  BY <1>4 DEF StartWorker, StartThread, HeartbeatThreads
<1>5. CASE \E n \in Nodes : StopWorker(n)
  BY <1>5 DEF StopWorker
<1>6. CASE \E n \in Nodes : DeregisterFromTopology(n)
  BY <1>6 DEF DeregisterFromTopology, Trouble
<1>7. CASE \E n \in Nodes : Leave(n)
  BY <1>7 DEF Leave, Trouble
<1>8. CASE \E n \in Nodes, h \in HeartbeatThreads : Beat(n, h)
  BY <1>8 DEF Beat, Trouble, HeartbeatThreads, NoRow
<1>9. CASE \E n \in Nodes, h \in HeartbeatThreads : BeatExit(n, h)
  BY <1>9 DEF BeatExit, HeartbeatThreads
<1>10. CASE \E n \in Nodes : NodeCrash(n)
  BY <1>10 DEF NodeCrash, Trouble
<1>11. CASE \E n \in Nodes : Remove(n)
  BY <1>11 DEF Remove, Trouble, NoRow
<1>12. CASE DetectDead
  BY <1>12 DEF DetectDead
<1>13. CASE TopologyTick
  BY <1>13 DEF TopologyTick, Older, OnTime, HeartbeatThreads
<1> QED BY <1>0, <1>1, <1>2, <1>3, <1>4, <1>5, <1>6, <1>7, <1>8, <1>9, <1>10, <1>11,
           <1>12, <1>13 DEF TopologyNext

LEMMA TopologyWatched == TopologySpec => []WatchInv
<1>1. TopologyInit => WatchInv
  <2> SUFFICES ASSUME TopologyInit PROVE ThreadsRun /\ AllWatched
    BY TopologyInitType DEF WatchInv
  <2> QED BY DEF TopologyInit, ThreadsRun, AllWatched, Watched
<1>2. WatchInv /\ [TopologyNext]_tpVars => WatchInv'
  BY TopologyTypeStep, ThreadsStep, WatchStep DEF WatchInv
<1> QED BY <1>1, <1>2, PTL DEF TopologySpec

(* One step, with at most two troubles: only the clock can take a running  *)
(* node off the list, and it does not get that far while the heartbeats of *)
(* its two threads are on time.                                            *)
LEMMA ActiveStep ==
  ASSUME MaxTroubles <= 2, WatchInv, [TopologyNext]_tpVars,
         NEW n \in Nodes, tpPc[n] = "up", n \in Active, tpPc'[n] = "up", tpRow'[n] # NoRow
  PROVE  n \in Active'
<1> USE IntervalAssumption, TopologyBounds
    DEF WatchInv, TopologyTypeOK, Active, Dead, NoRow, SetRow, NodeGoto
<1>1. CASE TopologyTick
  <2>1. tpDue[n]["topology"] < Interval /\ tpDue[n]["worker"] < Interval
    BY <1>1 DEF TopologyTick, OnTime, ThreadsRun, HeartbeatThreads
  <2>2. tpRow[n] < 2 * Interval
    BY <2>1 DEF AllWatched, Watched, HeartbeatThreads
  <2> QED BY <1>1, <2>2 DEF TopologyTick, Older
<1>2. CASE ~TopologyTick
  <2>1. tpRow'[n] \in {tpRow[n], 0, NoRow}
    BY <1>2 DEF TopologyNext, tpVars, Join, StartHeartbeat, RegisterInTopology, StartWorker,
                StopWorker, DeregisterFromTopology, Leave, Beat, BeatExit, NodeCrash, Remove,
                DetectDead
  <2> QED BY <2>1
<1> QED BY <1>1, <1>2

(* A running node that is listed as active stays on the list, whatever the  *)
(* other nodes do, as long as at most two calls of the backend raised or    *)
(* processes died: two threads write the row of a node, and the three       *)
(* intervals after which it counts as dead leave room for what one missed.  *)
THEOREM RunningStaysActive ==
  ASSUME MaxTroubles <= 2
  PROVE  TopologySpec => StaysActive
<1>1. WatchInv /\ [TopologyNext]_tpVars =>
        \A n \in Nodes : /\ tpPc[n] = "up" /\ n \in Active
                         /\ tpPc'[n] = "up" /\ tpRow'[n] # NoRow
                         => n \in Active'
  BY ActiveStep
<1> QED BY <1>1, TopologyWatched, PTL DEF TopologySpec, StaysActive

-----------------------------------------------------------------------------
(* The run: a behaviour of MCProcesses is one of each component. *)

LEMMA RunsSaga == MCSpec => Spec
<1>1. MCInit => Init
  BY DEF MCInit
<1>2. [MCNext]_mcVars => [Next]_vars
  BY DEF MCNext, mcVars, vars
<1> QED BY <1>1, <1>2, PTL DEF MCSpec, Spec

LEMMA RunsWorkflow == MCSpec => WorkflowSpec
<1>1. MCInit => WorkflowInit
  BY DEF MCInit
<1>2. [MCNext]_mcVars => [WorkflowNext]_wfVars
  BY DEF MCNext, mcVars, wfVars
<1> QED BY <1>1, <1>2, PTL DEF MCSpec, WorkflowSpec

LEMMA RunsBilling == MCSpec => BillingSpec
<1>1. MCInit => BillingInit
  BY DEF MCInit
<1>2. [MCNext]_mcVars => [BillingNext]_blVars
  BY DEF MCNext, mcVars, blVars
<1> QED BY <1>1, <1>2, PTL DEF MCSpec, BillingSpec

LEMMA RunsApproval == MCSpec => ApprovalSpec
<1>1. MCInit => ApprovalInit
  BY DEF MCInit
<1>2. [MCNext]_mcVars => [ApprovalNext]_apVars
  BY DEF MCNext, mcVars, apVars
<1> QED BY <1>1, <1>2, PTL DEF MCSpec, ApprovalSpec

LEMMA RunsShared == MCSpec => SharedSpec
<1>1. MCInit => SharedInit
  BY DEF MCInit
<1>2. [MCNext]_mcVars => [SharedNext]_shVars
  BY DEF MCNext, mcVars, shVars
<1> QED BY <1>1, <1>2, PTL DEF MCSpec, SharedSpec

LEMMA RunsLock == MCSpec => LockSpec
<1>1. MCInit => LockInit
  BY DEF MCInit
<1>2. [MCNext]_mcVars => [LockNext]_rwVars
  BY DEF MCNext, mcVars, rwVars
<1> QED BY <1>1, <1>2, PTL DEF MCSpec, LockSpec

LEMMA RunsTopology == MCSpec => TopologySpec
<1>1. MCInit => TopologyInit
  BY DEF MCInit
<1>2. [MCNext]_mcVars => [TopologyNext]_tpVars
  BY DEF MCNext, mcVars, tpVars
<1> QED BY <1>1, <1>2, PTL DEF MCSpec, TopologySpec

(* Every variable of the run has its type, for every value of the constants *)
(* of its components, as long as no waiting writer can be cancelled (as in  *)
(* the run).                                                                *)
THEOREM ProcessesTypesCorrect ==
  ASSUME "write" \notin Cancellable
  PROVE  MCSpec => []TypesOK
BY RunsSaga, SagaTypeCorrect, RunsWorkflow, WorkflowTypeCorrect, RunsBilling,
   BillingTypeCorrect, RunsApproval, ApprovalTypeCorrect, RunsShared, SharedTypeCorrect,
   RunsLock, LockTypeCorrect, RunsTopology, TopologyTypeCorrect, PTL DEF TypesOK

=============================================================================
