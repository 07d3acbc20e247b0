------------------------- MODULE LockManagerProofs -------------------------
(***************************************************************************)
(* Proofs about LockManager, for every set of managers and handles, every  *)
(* TTL and extension, and both backends.  As for LeaderElection the        *)
(* inductive invariant says that the lock a manager last obtained is still *)
(* running exactly when the row is its own.                                *)
(***************************************************************************)
EXTENDS LockManager, TLAPS

IInv == TypeOK /\ GrantedMatchesRow

(* The initial state: no row, no lock, no object. *)
LEMMA InitIInv == Init => IInv
  BY ManagersAssumption, TimesAssumption
  DEF Init, IInv, TypeOK, GrantedMatchesRow, Threads, PCs

RowInv ==
  /\ holder \in Managers \cup {NoOne}
  /\ left \in -1..(TTL + Extra)
  /\ granted \in [Managers -> -1..(TTL + Extra)]
  /\ GrantedMatchesRow

Durations == 0..(TTL + Extra)

(* Both the caller and the thread ask for a time within the model's range. *)
LEMMA ExtendByInRange ==
  ASSUME NEW th \in Threads PROVE ExtendBy(th) \in Durations /\ TTL \in Durations
  BY TimesAssumption DEF ExtendBy, Durations, Threads

(* What a backend call can do to the row: set it, delete it, leave it. *)
LEMMA SetRowRow ==
  ASSUME RowInv, NEW m \in Managers, NEW d \in Durations, CanTake(m), SetRow(m, d)
  PROVE  RowInv'
  BY ManagersAssumption, TimesAssumption
  DEF RowInv, GrantedMatchesRow, CanTake, SetRow, Durations

LEMMA RemoveRowRow ==
  ASSUME RowInv, holder \in Managers, RemoveRow
  PROVE  RowInv'
  BY ManagersAssumption, TimesAssumption
  DEF RowInv, GrantedMatchesRow, RemoveRow

LEMMA UnchangedRow ==
  ASSUME RowInv, RowUnchanged
  PROVE  RowInv'
  BY DEF RowInv, GrantedMatchesRow, RowUnchanged

LEMMA TickRow ==
  ASSUME RowInv, Tick
  PROVE  RowInv'
  BY ManagersAssumption, TimesAssumption
  DEF RowInv, GrantedMatchesRow, Tick

(* The steps that do not touch the row. *)
LocalStep(h) ==
  \/ AcquireReturn(h) \/ ReleaseStart(h) \/ ReleaseReturn(h)
  \/ StartAutoExtension(h) \/ ExtenderExit(h)
  \/ \E th \in Threads : ExtendCheck(th, h)

LEMMA LocalStepKeepsRow ==
  ASSUME NEW h \in Handles, LocalStep(h) PROVE RowUnchanged
  BY DEF LocalStep, RowUnchanged, AcquireReturn, ReleaseStart, ReleaseReturn,
     StartAutoExtension, ExtenderExit, ExtendCheck

(* Every step is one of those, a call of the backend, or time passing. *)
LEMMA NextSplit ==
  ASSUME [Next]_vars
  PROVE  \/ \E h \in Handles : LocalStep(h) \/ AcquireCall(h) \/ ReleaseCall(h)
         \/ \E h \in Handles, th \in Threads : ExtendCall(th, h)
         \/ \E m \in Managers : ReleaseAll(m) \/ Crash(m)
         \/ IsLocked \/ Tick \/ UNCHANGED vars
  BY DEF Next, LocalStep, ExtendSteps, Threads

(* Every step keeps the row's part of the invariant. *)
LEMMA RowStep == RowInv /\ [Next]_vars => RowInv'
<1> SUFFICES ASSUME RowInv, [Next]_vars PROVE RowInv'
  OBVIOUS
<1> USE ManagerOfAssumption
<1>1. ASSUME NEW h \in Handles, LocalStep(h) PROVE RowInv'
  BY <1>1, LocalStepKeepsRow, UnchangedRow
<1>2. ASSUME NEW h \in Handles, AcquireCall(h) PROVE RowInv'
  <2>1. TTL \in Durations
    BY TimesAssumption DEF Durations
  <2> QED
    BY <1>2, <2>1, SetRowRow DEF AcquireCall
<1>3. ASSUME NEW h \in Handles, ReleaseCall(h) PROVE RowInv'
  BY <1>3, RemoveRowRow, UnchangedRow DEF ReleaseCall, AnswerLost
<1>4. ASSUME NEW h \in Handles, NEW th \in Threads, ExtendCall(th, h) PROVE RowInv'
  <2>1. holder = ManagerOf[h] => CanTake(ManagerOf[h])
    BY DEF CanTake
  <2> QED
    BY <1>4, <2>1, ExtendByInRange, SetRowRow, UnchangedRow
    DEF ExtendCall, AnswerLost
<1>5. ASSUME NEW m \in Managers, ReleaseAll(m) PROVE RowInv'
  BY <1>5, RemoveRowRow, UnchangedRow DEF ReleaseAll, AnswerLost
<1>6. ASSUME NEW m \in Managers, Crash(m) PROVE RowInv'
  BY <1>6, UnchangedRow DEF Crash
<1>7. CASE IsLocked
  BY <1>7, RemoveRowRow DEF IsLocked, RowInv
<1>8. CASE Tick
  BY <1>8, TickRow
<1>9. CASE UNCHANGED vars
  BY <1>9, UnchangedRow DEF vars, RowUnchanged
<1> QED
  BY NextSplit, <1>1, <1>2, <1>3, <1>4, <1>5, <1>6, <1>7, <1>8, <1>9

(* The types of what the processes keep. *)
ObjectsOK ==
  /\ acquired \in [Handles -> BOOLEAN]
  /\ held \in [Managers -> Handles \cup {NoHandle}]
  /\ stop \in [Handles -> BOOLEAN]

PcOK == pc \in [Threads -> [Handles -> PCs]]

(* Every step keeps the types of the objects. *)
LEMMA ObjectsStep == ObjectsOK /\ [Next]_vars => ObjectsOK'
<1> SUFFICES ASSUME ObjectsOK, [Next]_vars PROVE ObjectsOK'
  OBVIOUS
<1> USE ManagerOfAssumption, HandlesAssumption DEF ObjectsOK
<1>1. ASSUME NEW h \in Handles, AcquireReturn(h) PROVE ObjectsOK'
  BY <1>1, Zenon DEF AcquireReturn
<1>2. ASSUME NEW h \in Handles, ReleaseStart(h) PROVE ObjectsOK'
  BY <1>2, Zenon DEF ReleaseStart
<1>3. ASSUME NEW h \in Handles, ReleaseReturn(h) PROVE ObjectsOK'
  BY <1>3, Zenon DEF ReleaseReturn
<1>4. ASSUME NEW h \in Handles, StartAutoExtension(h) PROVE ObjectsOK'
  BY <1>4, Zenon DEF StartAutoExtension
<1>5. ASSUME NEW h \in Handles,
             \/ ExtenderExit(h) \/ AcquireCall(h) \/ ReleaseCall(h)
             \/ \E th \in Threads : ExtendCheck(th, h) \/ ExtendCall(th, h)
      PROVE ObjectsOK'
  <2>1. UNCHANGED <<acquired, held, stop>>
    BY <1>5, Zenon DEF ExtenderExit, ExtendCheck, AcquireCall, ReleaseCall, ExtendCall
  <2> QED
    BY <2>1, Zenon
<1>6. ASSUME NEW m \in Managers, ReleaseAll(m) PROVE ObjectsOK'
  <2>1. held' \in [Managers -> Handles \cup {NoHandle}]
    BY <1>6, Zenon DEF ReleaseAll
  <2>2. acquired' \in [Handles -> BOOLEAN]
    BY <1>6, Zenon DEF ReleaseAll
  <2>3. stop' \in [Handles -> BOOLEAN]
    BY <1>6, Zenon DEF ReleaseAll
  <2> QED
    BY <2>1, <2>2, <2>3
<1>7. ASSUME NEW m \in Managers, Crash(m) PROVE ObjectsOK'
  BY <1>7, Zenon DEF Crash
<1>8. ASSUME IsLocked \/ Tick \/ UNCHANGED vars PROVE ObjectsOK'
  <2>1. UNCHANGED <<acquired, held, stop>>
    BY <1>8, Zenon DEF IsLocked, Tick, vars
  <2> QED
    BY <2>1, Zenon
<1> QED
  BY NextSplit, <1>1, <1>2, <1>3, <1>4, <1>5, <1>6, <1>7, <1>8 DEF LocalStep

(* Every step keeps the program counters in their range. *)
LEMMA PcStep == PcOK /\ [Next]_vars => PcOK'
<1> SUFFICES ASSUME PcOK, [Next]_vars PROVE PcOK'
  OBVIOUS
<1>1. ASSUME NEW h \in Handles, NEW th \in Threads, NEW l \in PCs, Goto(th, h, l)
      PROVE  PcOK'
  BY <1>1 DEF PcOK, Goto
<1>2. ASSUME UNCHANGED pc PROVE PcOK'
  BY <1>2 DEF PcOK
<1>3. {"caller", "extender"} \subseteq Threads
      /\ {"off", "idle", "won", "extending", "releasing", "deleted"} \subseteq PCs
  BY DEF Threads, PCs
<1>4. ASSUME NEW h \in Handles, LocalStep(h) PROVE PcOK'
  BY <1>1, <1>3, <1>4 DEF LocalStep, AcquireReturn, ReleaseStart, ReleaseReturn,
     StartAutoExtension, ExtenderExit, ExtendCheck
<1>5. ASSUME NEW h \in Handles, AcquireCall(h) \/ ReleaseCall(h) PROVE PcOK'
  BY <1>1, <1>2, <1>3, <1>5 DEF AcquireCall, ReleaseCall
<1>6. ASSUME NEW h \in Handles, NEW th \in Threads, ExtendCall(th, h) PROVE PcOK'
  BY <1>1, <1>3, <1>6 DEF ExtendCall
<1>7. ASSUME NEW m \in Managers, Crash(m) PROVE PcOK'
  BY <1>3, <1>7 DEF Crash, PcOK
<1>8. ASSUME \/ \E m \in Managers : ReleaseAll(m)
             \/ IsLocked \/ Tick \/ UNCHANGED vars
      PROVE  PcOK'
  BY <1>2, <1>8 DEF ReleaseAll, IsLocked, Tick, vars
<1> QED
  BY NextSplit, <1>4, <1>5, <1>6, <1>7, <1>8

(* The backend is chosen once. *)
BackendOK == backend \in {"pg", "memory"}

LEMMA BackendStep == BackendOK /\ [Next]_vars => BackendOK'
<1> SUFFICES ASSUME [Next]_vars PROVE backend' = backend
  BY DEF BackendOK
<1> QED
  BY NextSplit DEF LocalStep, AcquireReturn, ReleaseStart, ReleaseReturn, StartAutoExtension,
     ExtenderExit, ExtendCheck, AcquireCall, ReleaseCall, ExtendCall, ReleaseAll, Crash,
     IsLocked, Tick, vars

(* The types and the agreement of the row with the history hold always. *)
LEMMA InductiveInvariant == Spec => []IInv
<1>1. IInv <=> RowInv /\ ObjectsOK /\ PcOK /\ BackendOK
  BY DEF IInv, TypeOK, RowInv, ObjectsOK, PcOK, BackendOK
<1>2. IInv /\ [Next]_vars => IInv'
  <2>1. IInv' <=> RowInv' /\ ObjectsOK' /\ PcOK' /\ BackendOK'
    BY DEF IInv, TypeOK, RowInv, ObjectsOK, PcOK, BackendOK
  <2> QED
    BY <1>1, <2>1, RowStep, ObjectsStep, PcStep, BackendStep
<1> QED
  BY InitIInv, <1>2, PTL DEF Spec

(* Type correctness of the model of the lock manager and its row. *)
THEOREM TypeCorrect == Spec => []TypeOK
  BY InductiveInvariant, PTL DEF IInv

(* The row and the locks handed out by acquire() and extend() agree. *)
THEOREM RowAgrees == Spec => []GrantedMatchesRow
  BY InductiveInvariant, PTL DEF IInv

(* No two managers are inside an unexpired lock, for any number of managers *)
(* and handles and any times.                                               *)
THEOREM Exclusion == Spec => []LockExclusion
<1>1. IInv => LockExclusion
  BY DEF IInv, TypeOK, GrantedMatchesRow, LockExclusion
<1> QED
  BY <1>1, InductiveInvariant, PTL

(* A lock that has not run out is ended by nobody but a release of its own  *)
(* manager: late releases and extensions by others cannot touch it.         *)
THEOREM OwnerReleases == Spec => OnlyOwnerReleases
<1> USE ManagerOfAssumption, ManagersAssumption
<1>1. ASSUME IInv, [Next]_vars, NEW m \in Managers,
             holder = m, left >= 0, holder' # m
      PROVE  \/ ReleaseAll(m)
             \/ \E h \in Handles : ManagerOf[h] = m /\ ReleaseCall(h)
  <2> USE DEF IInv, TypeOK
  <2>1. ASSUME NEW h \in Handles, LocalStep(h) PROVE FALSE
    BY <1>1, <2>1, LocalStepKeepsRow DEF RowUnchanged
  <2>2. ASSUME NEW h \in Handles, AcquireCall(h) PROVE FALSE
    BY <1>1, <2>2 DEF AcquireCall, CanTake, SetRow
  <2>3. ASSUME NEW h \in Handles, ReleaseCall(h) PROVE ManagerOf[h] = m
    BY <1>1, <2>3 DEF ReleaseCall, AnswerLost, RowUnchanged
  <2>4. ASSUME NEW h \in Handles, NEW th \in Threads, ExtendCall(th, h) PROVE FALSE
    BY <1>1, <2>4 DEF ExtendCall, AnswerLost, SetRow, RowUnchanged
  <2>5. ASSUME NEW k \in Managers, ReleaseAll(k) PROVE k = m
    BY <1>1, <2>5 DEF ReleaseAll, AnswerLost, RowUnchanged
  <2>6. ASSUME \/ \E k \in Managers : Crash(k)
               \/ IsLocked \/ Tick \/ UNCHANGED vars
        PROVE  FALSE
    BY <1>1, <2>6 DEF Crash, IsLocked, Tick, RowUnchanged, vars
  <2> QED
    BY <1>1, NextSplit, <2>1, <2>2, <2>3, <2>4, <2>5, <2>6
<1>2. IInv /\ [Next]_vars
      => [\A m \in Managers :
            holder = m /\ left >= 0 /\ holder' # m
              => \/ ReleaseAll(m)
                 \/ \E h \in Handles : ManagerOf[h] = m /\ ReleaseCall(h)]_vars
  BY <1>1
<1> QED
  BY <1>2, InductiveInvariant, PTL DEF Spec, OnlyOwnerReleases

(* A manager comes to hold the lock through its own acquire() alone: no     *)
(* extension, however late, brings a lock back that was released or lost.   *)
THEOREM AcquireTakes == Spec => OnlyAcquireTakes
<1> USE ManagerOfAssumption, ManagersAssumption
<1>1. ASSUME IInv, [Next]_vars, NEW m \in Managers, holder # m, holder' = m
      PROVE  \E h \in Handles : ManagerOf[h] = m /\ AcquireCall(h)
  <2>1. ASSUME NEW h \in Handles, LocalStep(h) PROVE FALSE
    BY <1>1, <2>1, LocalStepKeepsRow DEF RowUnchanged
  <2>2. ASSUME NEW h \in Handles, AcquireCall(h) PROVE ManagerOf[h] = m
    BY <1>1, <2>2 DEF AcquireCall, SetRow
  <2>3. ASSUME NEW h \in Handles, ReleaseCall(h) PROVE FALSE
    BY <1>1, <2>3 DEF ReleaseCall, AnswerLost, RemoveRow, RowUnchanged
  <2>4. ASSUME NEW h \in Handles, NEW th \in Threads, ExtendCall(th, h) PROVE FALSE
    BY <1>1, <2>4 DEF ExtendCall, AnswerLost, SetRow, RowUnchanged
  <2>5. ASSUME NEW k \in Managers, ReleaseAll(k) PROVE FALSE
    BY <1>1, <2>5 DEF ReleaseAll, AnswerLost, RemoveRow, RowUnchanged
  <2>6. ASSUME \/ \E k \in Managers : Crash(k)
               \/ IsLocked \/ Tick \/ UNCHANGED vars
        PROVE  FALSE
    BY <1>1, <2>6 DEF Crash, IsLocked, Tick, RemoveRow, RowUnchanged, vars
  <2> QED
    BY <1>1, NextSplit, <2>1, <2>2, <2>3, <2>4, <2>5, <2>6
<1>2. IInv /\ [Next]_vars
      => [\A m \in Managers :
            holder # m /\ holder' = m
              => \E h \in Handles : ManagerOf[h] = m /\ AcquireCall(h)]_vars
  BY <1>1
<1> QED
  BY <1>2, InductiveInvariant, PTL DEF Spec, OnlyAcquireTakes

(* The row of coord_locks implements ExclusiveLease. *)
THEOREM Refinement == Spec => ImplementsLease
<1>1. Init => Lease!LeaseInit
  BY DEF Init, Lease!LeaseInit
<1>2. ASSUME IInv, [Next]_vars PROVE [Lease!LeaseNext]_(Lease!leaseVars)
  <2> USE ManagerOfAssumption, ManagersAssumption, TimesAssumption
  <2>1. ASSUME NEW m \in Managers, NEW d \in Durations, CanTake(m), SetRow(m, d)
        PROVE  Lease!LeaseNext
    BY <2>1 DEF CanTake, SetRow, Durations, Lease!LeaseNext, Lease!Take
  <2>2. ASSUME holder # NoOne, RemoveRow PROVE Lease!LeaseNext
    BY <2>2 DEF RemoveRow, Lease!LeaseNext, Lease!Drop
  <2>3. ASSUME RowUnchanged PROVE UNCHANGED Lease!leaseVars
    BY <2>3 DEF RowUnchanged, Lease!leaseVars
  <2>4. ASSUME NEW h \in Handles, AcquireCall(h) PROVE Lease!LeaseNext
    <3>1. TTL \in Durations
      BY DEF Durations
    <3> QED
      BY <2>1, <2>4, <3>1 DEF AcquireCall
  <2>5. ASSUME NEW h \in Handles, ReleaseCall(h)
        PROVE  [Lease!LeaseNext]_(Lease!leaseVars)
    BY <2>2, <2>3, <2>5 DEF ReleaseCall, AnswerLost
  <2>6. ASSUME NEW h \in Handles, NEW th \in Threads, ExtendCall(th, h)
        PROVE  [Lease!LeaseNext]_(Lease!leaseVars)
    BY <2>1, <2>3, <2>6, ExtendByInRange DEF ExtendCall, AnswerLost, CanTake
  <2>7. ASSUME NEW m \in Managers, ReleaseAll(m)
        PROVE  [Lease!LeaseNext]_(Lease!leaseVars)
    BY <2>2, <2>3, <2>7 DEF ReleaseAll, AnswerLost
  <2>8. CASE IsLocked
    BY <2>2, <2>8 DEF IsLocked
  <2>9. CASE Tick
    BY <2>9 DEF Tick, Lease!LeaseNext, Lease!LeaseTick, Lease!Pass
  <2>10. ASSUME NEW h \in Handles, LocalStep(h) PROVE UNCHANGED Lease!leaseVars
    BY <2>3, <2>10, LocalStepKeepsRow
  <2>11. ASSUME NEW m \in Managers, Crash(m) PROVE UNCHANGED Lease!leaseVars
    BY <2>3, <2>11 DEF Crash
  <2>12. CASE UNCHANGED vars
    BY <2>12 DEF vars, Lease!leaseVars
  <2> QED
    BY <1>2, NextSplit, <2>4, <2>5, <2>6, <2>7, <2>8, <2>9, <2>10, <2>11, <2>12
<1> QED
  BY <1>1, <1>2, InductiveInvariant, PTL
  DEF Spec, ImplementsLease, Lease!LeaseSpec
=============================================================================
