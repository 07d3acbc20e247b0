---------------------------- MODULE ReadWriteLock ----------------------------
(***************************************************************************)
(* ReadWriteLock (src/core/patterns/concurrency/read_write_lock.py):       *)
(* threads that read or write under a lock with writer preference.  It     *)
(* counts readers, writers and waiting writers under one mutex, so what a  *)
(* thread does between two waits is one step.                              *)
(*                                                                         *)
(* The async half has the same tests and the same notifications, spread    *)
(* over two conditions of one asyncio.Lock.  There a task that waits may   *)
(* be cancelled, and Cancellable says which ones.                          *)
(***************************************************************************)
EXTENDS Integers, FiniteSets

CONSTANTS
  Callers,        \* threads, or tasks
  Cancellable     \* which waits may be cancelled: of "read", of "write"

ASSUME CallersAssumption == IsFiniteSet(Callers)
ASSUME CancellableAssumption == Cancellable \subseteq {"read", "write"}

VARIABLES
  rwState,        \* what each caller does; "asleep" in wait(), "awake" once
                  \* it was notified and has yet to test again
  rwReaders,      \* _active_readers
  rwWriters,      \* _active_writers
  rwWaiting       \* _waiting_writers; _waiting_readers is tested nowhere

rwVars == <<rwState, rwReaders, rwWriters, rwWaiting>>

States == {"out", "reading", "writing", "asleep_read", "awake_read", "asleep_write",
           "awake_write"}

LockTypeOK ==
  /\ rwState \in [Callers -> States]
  /\ rwReaders \in Nat
  /\ rwWriters \in Nat
  /\ rwWaiting \in Nat

LockInit ==
  /\ rwState = [c \in Callers |-> "out"]
  /\ rwReaders = 0
  /\ rwWriters = 0
  /\ rwWaiting = 0

In(s) == {c \in Callers : rwState[c] = s}

-----------------------------------------------------------------------------
(* Fault: readers do not look at the writers that wait. *)
ReadBlockedUnfair == rwWriters > 0

(* The tests before wait(). *)
ReadBlocked == rwWriters > 0 \/ rwWaiting > 0

WriteBlocked == rwReaders > 0 \/ rwWriters > 0

(* acquire_read, up to its first wait(). *)
AcquireRead(c) ==
  /\ rwState[c] = "out"
  /\ IF ReadBlocked
       THEN /\ rwState' = [rwState EXCEPT ![c] = "asleep_read"]
            /\ UNCHANGED rwReaders
       ELSE /\ rwState' = [rwState EXCEPT ![c] = "reading"]
            /\ rwReaders' = rwReaders + 1
  /\ UNCHANGED <<rwWriters, rwWaiting>>

(* acquire_write *)
AcquireWrite(c) ==
  /\ rwState[c] = "out"
  /\ IF WriteBlocked
       THEN /\ rwState' = [rwState EXCEPT ![c] = "asleep_write"]
            /\ rwWaiting' = rwWaiting + 1
            /\ UNCHANGED rwWriters
       ELSE /\ rwState' = [rwState EXCEPT ![c] = "writing"]
            /\ rwWriters' = rwWriters + 1
            /\ UNCHANGED rwWaiting
  /\ UNCHANGED rwReaders

(* A reader that was notified tests again. *)
ReaderRetries(c) ==
  /\ rwState[c] = "awake_read"
  /\ IF ReadBlocked
       THEN /\ rwState' = [rwState EXCEPT ![c] = "asleep_read"]
            /\ UNCHANGED rwReaders
       ELSE /\ rwState' = [rwState EXCEPT ![c] = "reading"]
            /\ rwReaders' = rwReaders + 1
  /\ UNCHANGED <<rwWriters, rwWaiting>>

WriterRetries(c) ==
  /\ rwState[c] = "awake_write"
  /\ IF WriteBlocked
       THEN /\ rwState' = [rwState EXCEPT ![c] = "asleep_write"]
            /\ UNCHANGED <<rwWriters, rwWaiting>>
       ELSE /\ rwState' = [rwState EXCEPT ![c] = "writing"]
            /\ rwWriters' = rwWriters + 1
            /\ rwWaiting' = rwWaiting - 1
  /\ UNCHANGED rwReaders

Awoken(s) ==
  CASE s = "asleep_read" -> "awake_read"
    [] s = "asleep_write" -> "awake_write"
    [] OTHER -> s

(* The caller leaves, and notify_all wakes everyone who waits. *)
LeaveAndNotify(c) == rwState' = [d \in Callers |-> IF d = c THEN "out" ELSE Awoken(rwState[d])]

LeaveQuietly(c) == rwState' = [rwState EXCEPT ![c] = "out"]

(* Fault: the count is tested before it is decreased. *)
ReleaseReadOffByOne(c) ==
  /\ rwState[c] = "reading"
  /\ rwReaders' = rwReaders - 1
  /\ IF rwReaders = 0 THEN LeaveAndNotify(c) ELSE LeaveQuietly(c)
  /\ UNCHANGED <<rwWriters, rwWaiting>>

(* Only the last reader notifies. *)
ReleaseRead(c) ==
  /\ rwState[c] = "reading"
  /\ rwReaders' = rwReaders - 1
  /\ IF rwReaders = 1 THEN LeaveAndNotify(c) ELSE LeaveQuietly(c)
  /\ UNCHANGED <<rwWriters, rwWaiting>>

ReleaseWrite(c) ==
  /\ rwState[c] = "writing"
  /\ rwWriters' = rwWriters - 1
  /\ LeaveAndNotify(c)
  /\ UNCHANGED <<rwReaders, rwWaiting>>

WaitsFor(kind) ==
  IF kind = "read" THEN {"asleep_read", "awake_read"} ELSE {"asleep_write", "awake_write"}

(* CancelledError leaves the loop of acquire_read_async or                  *)
(* acquire_write_async before the caller is taken off the waiting count. *)
Cancel(c) ==
  /\ \E kind \in Cancellable : rwState[c] \in WaitsFor(kind)
  /\ LeaveQuietly(c)
  /\ UNCHANGED <<rwReaders, rwWriters, rwWaiting>>

CallerStep(c) ==
  \/ AcquireRead(c) \/ AcquireWrite(c)
  \/ ReaderRetries(c) \/ WriterRetries(c)
  \/ ReleaseRead(c) \/ ReleaseWrite(c)
  \/ Cancel(c)

LockNext == \E c \in Callers : CallerStep(c)

LockSpec == LockInit /\ [][LockNext]_rwVars

(* Who is inside leaves, and who was notified tests again. *)
Proceeds(c) == ReaderRetries(c) \/ WriterRetries(c) \/ ReleaseRead(c) \/ ReleaseWrite(c)

LockFairness == \A c \in Callers : WF_rwVars(Proceeds(c))

-----------------------------------------------------------------------------
(* Properties *)

(* A writer is alone; so the counters never lose track of who is inside.    *)
WriterIsAlone ==
  \A c, d \in Callers :
    rwState[c] = "writing" /\ rwState[d] \in {"reading", "writing"} => c = d

Idle == In("reading") = {} /\ In("writing") = {}

(* Nobody sleeps on a free lock unless someone who was notified is about to *)
(* take it: the last reader's notification and a writer's reach everyone    *)
(* they have to, in whatever order the threads come back.                   *)
NoLostWakeup ==
  Idle /\ In("asleep_read") \cup In("asleep_write") # {}
    => In("awake_read") \cup In("awake_write") # {}

(* The lock excludes, and nobody waits for a lock that is free.             *)
LockSound == WriterIsAlone /\ NoLostWakeup

(* Readers that come and go do not keep writers out: while one waits, one   *)
(* of them gets in.  (Which one is left to the scheduler.)                  *)
WritersGetIn == rwWaiting > 0 ~> In("writing") # {}
=============================================================================
