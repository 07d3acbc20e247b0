---------------------------- MODULE LockManager ----------------------------
(***************************************************************************)
(* src/core/distributed/lock_manager: DistributedLockManager and the       *)
(* DistributedLock objects it hands out, over the coord_locks row of one   *)
(* lock name (pg_backend/_lock_election_mixin.py and                       *)
(* memory_backend/_task_lock_mixin.py).                                    *)
(*                                                                         *)
(* A handle is a place in a process that acquires the lock: it owns one    *)
(* DistributedLock at a time.  Handles of one manager share its holder_id. *)
(* Two threads use a handle: its caller and the auto-extension thread.     *)
(* Times are ticks left, as in ExclusiveLease; hosts share a clock.        *)
(***************************************************************************)
EXTENDS Integers

CONSTANTS
  Managers,       \* holder ids
  Handles,        \* places that acquire the lock
  ManagerOf,      \* the manager of each handle
  NoOne,          \* no row for this lock
  NoHandle,       \* _held_locks has no entry
  TTL,            \* ttl_seconds of acquire, in ticks
  Extra           \* additional_seconds of a caller's extend, in ticks

ASSUME ManagersAssumption == NoOne \notin Managers
ASSUME HandlesAssumption == NoHandle \notin Handles
ASSUME ManagerOfAssumption == ManagerOf \in [Handles -> Managers]
ASSUME TimesAssumption == TTL \in Nat /\ Extra \in Nat

VARIABLES
  backend,    \* PgBackend or MemoryBackend, chosen at start-up
  holder,     \* the row's holder_id, NoOne when there is no row
  left,       \* the row's expires_at - now, -1 once it has run out
  acquired,   \* _acquired of each handle's object
  held,       \* _held_locks of each manager: the last object it made
  stop,       \* _stop_extension of each handle's object
  pc,         \* where the caller and the extension thread of a handle are
  granted     \* history: time left of the lock each manager last obtained

vars == <<backend, holder, left, acquired, held, stop, pc, granted>>

Threads == {"caller", "extender"}

PCs == {"off", "idle", "won", "extending", "releasing", "deleted"}

(* The caller of a handle is "off" while it has no object; the extension *)
(* thread is "off" before start_auto_extension and after its loop ended. *)
TypeOK ==
  /\ backend \in {"pg", "memory"}
  /\ holder \in Managers \cup {NoOne}
  /\ left \in -1..(TTL + Extra)
  /\ acquired \in [Handles -> BOOLEAN]
  /\ held \in [Managers -> Handles \cup {NoHandle}]
  /\ stop \in [Handles -> BOOLEAN]
  /\ pc \in [Threads -> [Handles -> PCs]]
  /\ granted \in [Managers -> -1..(TTL + Extra)]

Init ==
  /\ backend \in {"pg", "memory"}
  /\ holder = NoOne
  /\ left = -1
  /\ acquired = [h \in Handles |-> FALSE]
  /\ held = [m \in Managers |-> NoHandle]
  /\ stop = [h \in Handles |-> FALSE]
  /\ pc = [th \in Threads |-> [h \in Handles |-> "off"]]
  /\ granted = [m \in Managers |-> -1]

Goto(th, h, l) == pc' = [pc EXCEPT ![th][h] = l]

-----------------------------------------------------------------------------
(* The backend's row. *)

(* Fault: expires_at <= now, the lock is taken in its last tick. *)
CanTakeTooEarly(m) == holder \in {NoOne, m} \/ left <= 0

(* No row, expires_at < now, or the row is the holder's own. *)
CanTake(m) == holder \in {NoOne, m} \/ left < 0

SetRow(m, d) ==
  /\ holder' = m
  /\ left' = d
  /\ granted' = [granted EXCEPT ![m] = d]

RemoveRow ==
  /\ holder' = NoOne
  /\ left' = -1
  /\ granted' = [granted EXCEPT ![holder] = -1]

RowUnchanged == UNCHANGED <<holder, left, granted>>

(* PgBackend answers False to any exception, before or after the commit. *)
AnswerLost(effect) == backend = "pg" /\ (effect \/ RowUnchanged)

-----------------------------------------------------------------------------
(* acquire() *)

(* Tried again every 100 ms until timeout_seconds have passed: a try that   *)
(* fails changes nothing.  A lost answer ends the call with None.  A handle *)
(* is used again once the extension thread of its old object has ended;     *)
(* until then another handle of the same manager can stand for the caller.  *)
AcquireCall(h) ==
  LET m == ManagerOf[h] IN
  /\ pc["caller"][h] = "off"
  /\ pc["extender"][h] = "off"
  /\ CanTake(m)
  /\ SetRow(m, TTL)
  /\ \/ Goto("caller", h, "won")
     \/ backend = "pg" /\ UNCHANGED pc
  /\ UNCHANGED <<backend, acquired, held, stop>>

(* A new object is made and registered under the lock's name. *)
AcquireReturn(h) ==
  /\ pc["caller"][h] = "won"
  /\ acquired' = [acquired EXCEPT ![h] = TRUE]
  /\ held' = [held EXCEPT ![ManagerOf[h]] = h]
  /\ stop' = [stop EXCEPT ![h] = FALSE]
  /\ Goto("caller", h, "idle")
  /\ RowUnchanged
  /\ UNCHANGED backend

-----------------------------------------------------------------------------
(* release() *)

(* An object that is not acquired answers False; its caller drops it. *)
ReleaseStart(h) ==
  /\ pc["caller"][h] = "idle"
  /\ \/ /\ acquired[h]
        /\ stop' = [stop EXCEPT ![h] = TRUE]
        /\ Goto("caller", h, "releasing")
     \/ /\ ~acquired[h]
        /\ Goto("caller", h, "off")
        /\ UNCHANGED stop
  /\ UNCHANGED <<backend, holder, left, granted, acquired, held>>

(* Fault: the DELETE lost its AND holder_id = %s. *)
ReleaseCallAnyRow(h) ==
  /\ pc["caller"][h] = "releasing"
  /\ holder # NoOne
  /\ RemoveRow
  /\ Goto("caller", h, "deleted")
  /\ UNCHANGED <<backend, acquired, held, stop>>

(* The row is deleted if the holder matches, run out or not; otherwise the  *)
(* object stays acquired. *)
ReleaseCall(h) ==
  LET own == holder = ManagerOf[h] IN
  /\ pc["caller"][h] = "releasing"
  /\ \/ own /\ RemoveRow /\ Goto("caller", h, "deleted")
     \/ ~own /\ RowUnchanged /\ Goto("caller", h, "idle")
     \/ AnswerLost(own /\ RemoveRow) /\ Goto("caller", h, "idle")
  /\ UNCHANGED <<backend, acquired, held, stop>>

ReleaseReturn(h) ==
  /\ pc["caller"][h] = "deleted"
  /\ acquired' = [acquired EXCEPT ![h] = FALSE]
  /\ Goto("caller", h, "off")
  /\ UNCHANGED <<backend, holder, left, granted, held, stop>>

(* release_all(): the object registered last is released, the registry is   *)
(* emptied either way.  The manager's lock is held throughout. *)
ReleaseAll(m) ==
  LET h == held[m] IN
  /\ h # NoHandle
  /\ held' = [held EXCEPT ![m] = NoHandle]
  /\ \/ ~acquired[h] /\ RowUnchanged /\ UNCHANGED <<acquired, stop>>
     \/ /\ acquired[h]
        /\ stop' = [stop EXCEPT ![h] = TRUE]
        /\ \/ /\ holder = m /\ RemoveRow
              /\ acquired' = [acquired EXCEPT ![h] = FALSE]
           \/ holder # m /\ RowUnchanged /\ UNCHANGED acquired
           \/ AnswerLost(holder = m /\ RemoveRow) /\ UNCHANGED acquired
  /\ UNCHANGED <<backend, pc>>

-----------------------------------------------------------------------------
(* extend(), called by the caller or by the extension thread *)

ExtendCheck(th, h) ==
  /\ pc[th][h] = "idle"
  /\ th = "extender" => ~stop[h]
  /\ acquired[h]
  /\ Goto(th, h, "extending")
  /\ UNCHANGED <<backend, holder, left, granted, acquired, held, stop>>

(* The thread asks for half the TTL. *)
ExtendBy(th) == IF th = "extender" THEN TTL \div 2 ELSE Extra

(* Fault: the time is added to the old expires_at instead of to now. *)
ExtendCallAccumulates(th, h) ==
  LET m == ManagerOf[h] IN
  /\ pc[th][h] = "extending"
  /\ \/ holder = m /\ SetRow(m, left + ExtendBy(th))
     \/ holder # m /\ RowUnchanged
  /\ Goto(th, h, "idle")
  /\ UNCHANGED <<backend, acquired, held, stop>>

(* Fault: the UPDATE became the upsert of acquire_lock. *)
ExtendCallUpserts(th, h) ==
  LET m == ManagerOf[h] IN
  /\ pc[th][h] = "extending"
  /\ \/ CanTake(m) /\ SetRow(m, ExtendBy(th))
     \/ ~CanTake(m) /\ RowUnchanged
  /\ Goto(th, h, "idle")
  /\ UNCHANGED <<backend, acquired, held, stop>>

(* expires_at becomes now + additional_seconds if the holder matches, run   *)
(* out or not; the answer is not looked at by the thread. *)
ExtendCall(th, h) ==
  LET m == ManagerOf[h] IN
  /\ pc[th][h] = "extending"
  /\ \/ holder = m /\ SetRow(m, ExtendBy(th))
     \/ holder # m /\ RowUnchanged
     \/ AnswerLost(FALSE)
  /\ Goto(th, h, "idle")
  /\ UNCHANGED <<backend, acquired, held, stop>>

(* start_auto_extension(): nothing happens while the old thread is alive. *)
StartAutoExtension(h) ==
  /\ pc["caller"][h] = "idle"
  /\ pc["extender"][h] = "off"
  /\ stop' = [stop EXCEPT ![h] = FALSE]
  /\ Goto("extender", h, "idle")
  /\ UNCHANGED <<backend, holder, left, granted, acquired, held>>

ExtenderExit(h) ==
  /\ pc["extender"][h] = "idle"
  /\ stop[h]
  /\ Goto("extender", h, "off")
  /\ UNCHANGED <<backend, holder, left, granted, acquired, held, stop>>

-----------------------------------------------------------------------------
(* The environment *)

(* is_locked() on MemoryBackend deletes a row that has run out. *)
IsLocked ==
  /\ backend = "memory"
  /\ holder # NoOne
  /\ left < 0
  /\ RemoveRow
  /\ UNCHANGED <<backend, acquired, held, stop, pc>>

Tick ==
  /\ left' = IF left < 0 THEN -1 ELSE left - 1
  /\ granted' = [m \in Managers |-> IF granted[m] < 0 THEN -1 ELSE granted[m] - 1]
  /\ UNCHANGED <<backend, holder, acquired, held, stop, pc>>

(* The process of a manager dies; a new one uses the same holder_id.  With   *)
(* MemoryBackend the rows die with the one process there is. *)
Crash(m) ==
  LET mine == {h \in Handles : ManagerOf[h] = m} IN
  /\ backend = "pg"
  /\ acquired' = [h \in Handles |-> h \notin mine /\ acquired[h]]
  /\ held' = [held EXCEPT ![m] = NoHandle]
  /\ stop' = [h \in Handles |-> h \notin mine /\ stop[h]]
  /\ pc' = [th \in Threads |->
              [h \in Handles |-> IF h \in mine THEN "off" ELSE pc[th][h]]]
  /\ RowUnchanged
  /\ UNCHANGED backend

ExtendSteps(th, h) == ExtendCheck(th, h) \/ ExtendCall(th, h)

Next ==
  \/ \E h \in Handles :
       \/ AcquireCall(h)
       \/ AcquireReturn(h)
       \/ ReleaseStart(h)
       \/ ReleaseCall(h)
       \/ ReleaseReturn(h)
       \/ StartAutoExtension(h)
       \/ \E th \in Threads : ExtendSteps(th, h)
       \/ ExtenderExit(h)
  \/ \E m \in Managers : ReleaseAll(m) \/ Crash(m)
  \/ IsLocked
  \/ Tick

Spec == Init /\ [][Next]_vars

-----------------------------------------------------------------------------
(* Properties *)

(* No two managers are inside a lock that acquire() or extend() obtained    *)
(* and that has not run out.                                                *)
LockExclusion ==
  \A m, k \in Managers : granted[m] >= 0 /\ granted[k] >= 0 => m = k

(* The history variable and the row agree; makes LockExclusion inductive.   *)
GrantedMatchesRow ==
  \A m \in Managers : granted[m] = IF holder = m THEN left ELSE -1

(* A lock that has not run out leaves its manager only through release() or *)
(* release_all() of that manager: a late release by the handle of another   *)
(* manager, whose lock ran out, does not free it.                           *)
OnlyOwnerReleases ==
  [][\A m \in Managers :
       holder = m /\ left >= 0 /\ holder' # m
         => \/ ReleaseAll(m)
            \/ \E h \in Handles : ManagerOf[h] = m /\ ReleaseCall(h)]_vars

(* The row is an exclusive lease in the sense of ExclusiveLease. *)
Lease == INSTANCE ExclusiveLease
  WITH Clients <- Managers, MaxLease <- TTL + Extra, owner <- holder

ImplementsLease == Lease!LeaseSpec

(* A manager comes to hold the lock by acquire() alone: an extension that   *)
(* was under way when the lock was released, ran out or went to another     *)
(* manager does not bring it back.                                          *)
OnlyAcquireTakes ==
  [][\A m \in Managers :
       holder # m /\ holder' = m
         => \E h \in Handles : ManagerOf[h] = m /\ AcquireCall(h)]_vars
=============================================================================
