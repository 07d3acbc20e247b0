------------------------ MODULE LeaderElectionProofs ------------------------
(***************************************************************************)
(* Proofs about LeaderElection, for every set of nodes, every TTL and both *)
(* backends.  The inductive invariant is TypeOK /\ GrantedMatchesRow: the  *)
(* lease a node last obtained is still running exactly when the row is its *)
(* own.  LeaseExclusion follows from it at once, since a row has one       *)
(* leader_id; by itself LeaseExclusion is not inductive, because a         *)
(* campaign could take a row that has run out while another node's lease   *)
(* is still running.                                                       *)
(***************************************************************************)
EXTENDS LeaderElection, TLAPS

IInv == TypeOK /\ GrantedMatchesRow

(* The initial state: no row, no lease, every object a follower. *)
LEMMA InitIInv == Init => IInv
  BY NodesAssumption, TTLAssumption, MaxTokenAssumption
  DEF Init, IInv, TypeOK, GrantedMatchesRow, Threads, PCs

(* The three things a backend call can do to the row keep the types and the *)
(* agreement of the row with the history.                                   *)
RowInv ==
  /\ leader_id \in Nodes \cup {NoOne}
  /\ left \in -1..TTL
  /\ granted \in [Nodes -> -1..TTL]
  /\ GrantedMatchesRow

LEMMA GrantRow ==
  ASSUME RowInv, NEW n \in Nodes, CanTake(n), Grant(n)
  PROVE  RowInv'
  BY NodesAssumption, TTLAssumption
  DEF RowInv, GrantedMatchesRow, CanTake, Grant

LEMMA RemoveRowRow ==
  ASSUME RowInv, leader_id \in Nodes, RemoveRow
  PROVE  RowInv'
  BY NodesAssumption, TTLAssumption
  DEF RowInv, GrantedMatchesRow, RemoveRow

LEMMA UnchangedRow ==
  ASSUME RowInv, RowUnchanged
  PROVE  RowInv'
  BY DEF RowInv, GrantedMatchesRow, RowUnchanged

LEMMA TickRow ==
  ASSUME RowInv, Tick
  PROVE  RowInv'
  BY NodesAssumption, TTLAssumption
  DEF RowInv, GrantedMatchesRow, Tick

(* Every step keeps the row's part of the invariant. *)
LEMMA RowStep == RowInv /\ [Next]_vars => RowInv'
<1> SUFFICES ASSUME RowInv, [Next]_vars PROVE RowInv'
  OBVIOUS
<1>1. ASSUME NEW n \in Nodes, CampaignCall(n) PROVE RowInv'
  BY <1>1, GrantRow, UnchangedRow DEF CampaignCall, AnswerLost
<1>2. ASSUME NEW n \in Nodes, AbdicateCall(n) PROVE RowInv'
  BY <1>2, RemoveRowRow, UnchangedRow DEF AbdicateCall, AnswerLost
<1>3. ASSUME NEW n \in Nodes, NEW th \in Threads, RenewCall(th, n) PROVE RowInv'
  <2>1. leader_id = n => CanTake(n)
    BY DEF CanTake
  <2> QED
    BY <1>3, <2>1, GrantRow, UnchangedRow DEF RenewCall, AnswerLost
<1>4. CASE GetLeader
  BY <1>4, RemoveRowRow DEF GetLeader, RowInv
<1>5. CASE Tick
  BY <1>5, TickRow
<1>6. ASSUME NEW n \in Nodes,
             \/ CampaignWon(n) \/ CampaignLost(n) \/ OnElected(n)
             \/ Abdicated(n) \/ StartRenewal(n) \/ StopRenewal(n)
             \/ RenewerExit(n) \/ Crash(n)
             \/ \E th \in Threads :
                  RenewCheck(th, n) \/ RenewFailed(th, n) \/ OnDeposed(th, n)
      PROVE  RowInv'
  <2>1. RowUnchanged
    BY <1>6 DEF RowUnchanged, CampaignWon, CampaignLost, OnElected, Abdicated,
       StartRenewal, StopRenewal, RenewerExit, Crash, RenewCheck, RenewFailed,
       OnDeposed
  <2> QED
    BY <2>1, UnchangedRow
<1>7. CASE UNCHANGED vars
  BY <1>7, UnchangedRow DEF vars, RowUnchanged
<1> QED
  BY <1>1, <1>2, <1>3, <1>4, <1>5, <1>6, <1>7 DEF Next, RenewSteps

(* Every step keeps the types of the objects' own state. *)
LEMMA TypeStep == TypeOK /\ RowInv' /\ [Next]_vars => TypeOK'
<1> SUFFICES ASSUME TypeOK, RowInv', [Next]_vars PROVE TypeOK'
  OBVIOUS
<1> USE NodesAssumption, TTLAssumption, MaxTokenAssumption
        DEF TypeOK, RowInv, Threads, PCs, Goto
<1>1. ASSUME NEW n \in Nodes, CampaignCall(n) PROVE TypeOK'
  BY <1>1 DEF CampaignCall
<1>2. ASSUME NEW n \in Nodes, CampaignWon(n) PROVE TypeOK'
  BY <1>2 DEF CampaignWon, NextToken
<1>3. ASSUME NEW n \in Nodes, CampaignLost(n) PROVE TypeOK'
  BY <1>3 DEF CampaignLost
<1>4. ASSUME NEW n \in Nodes, OnElected(n) PROVE TypeOK'
  BY <1>4 DEF OnElected
<1>5. ASSUME NEW n \in Nodes, AbdicateCall(n) PROVE TypeOK'
  BY <1>5 DEF AbdicateCall
<1>6. ASSUME NEW n \in Nodes, Abdicated(n) PROVE TypeOK'
  BY <1>6 DEF Abdicated
<1>7. ASSUME NEW n \in Nodes, NEW th \in Threads, RenewSteps(th, n) PROVE TypeOK'
  <2>1. CASE RenewCheck(th, n)
    <3>1. Goto(th, n, "renewing")
          /\ UNCHANGED <<backend, leader_id, left, granted, state, fencing_token, working, stop>>
      BY <2>1, Zenon DEF RenewCheck
    <3> QED
      BY <3>1
  <2>2. CASE RenewCall(th, n)
    BY <2>2 DEF RenewCall
  <2>3. CASE RenewFailed(th, n)
    BY <2>3 DEF RenewFailed
  <2>4. CASE OnDeposed(th, n)
    BY <2>4 DEF OnDeposed
  <2> QED
    BY <1>7, <2>1, <2>2, <2>3, <2>4 DEF RenewSteps
<1>8. ASSUME NEW n \in Nodes, StartRenewal(n) PROVE TypeOK'
  <2>1. stop' \in [Nodes -> BOOLEAN]
    BY <1>8, Zenon DEF StartRenewal
  <2>2. pc' \in [Threads -> [Nodes -> PCs]]
    BY <1>8 DEF StartRenewal
  <2> QED
    BY <1>8, <2>1, <2>2 DEF StartRenewal
<1>9. ASSUME NEW n \in Nodes, StopRenewal(n) \/ RenewerExit(n) PROVE TypeOK'
  <2>1. stop' \in [Nodes -> BOOLEAN]
    BY <1>9, Zenon DEF StopRenewal, RenewerExit
  <2>2. pc' \in [Threads -> [Nodes -> PCs]]
    BY <1>9 DEF StopRenewal, RenewerExit
  <2> QED
    BY <1>9, <2>1, <2>2 DEF StopRenewal, RenewerExit
<1>10. ASSUME NEW n \in Nodes, Crash(n) PROVE TypeOK'
  BY <1>10 DEF Crash
<1>11. CASE GetLeader \/ Tick
  BY <1>11 DEF GetLeader, Tick
<1>12. CASE UNCHANGED vars
  BY <1>12 DEF vars
<1> QED
  BY <1>1, <1>2, <1>3, <1>4, <1>5, <1>6, <1>7, <1>8, <1>9, <1>10, <1>11, <1>12
  DEF Next

(* The types and the agreement of the row with the history hold always. *)
LEMMA InductiveInvariant == Spec => []IInv
<1>1. IInv => RowInv
  BY DEF IInv, TypeOK, RowInv
<1>2. IInv /\ [Next]_vars => IInv'
  BY <1>1, RowStep, TypeStep DEF IInv, RowInv
<1> QED
  BY InitIInv, <1>2, PTL DEF Spec

(* Type correctness of the model of LeaderElection and its backend row. *)
THEOREM TypeCorrect == Spec => []TypeOK
  BY InductiveInvariant, PTL DEF IInv

(* The row and the leases handed out by campaign() and renew() agree. *)
THEOREM RowAgrees == Spec => []GrantedMatchesRow
  BY InductiveInvariant, PTL DEF IInv

(* No two nodes are inside an unexpired lease obtained from campaign() or   *)
(* renew(), for any number of nodes, any TTL and either backend.            *)
THEOREM Exclusion == Spec => []LeaseExclusion
<1>1. IInv => LeaseExclusion
  BY DEF IInv, TypeOK, GrantedMatchesRow, LeaseExclusion
<1> QED
  BY <1>1, InductiveInvariant, PTL

(* A lease that has not run out is ended by nobody but its own node, which  *)
(* must call abdicate().                                                    *)
THEOREM OwnerEnds == Spec => OnlyOwnerEndsLease
<1>1. ASSUME IInv, [Next]_vars, NEW n \in Nodes,
             leader_id = n, left >= 0, leader_id' # n
      PROVE  AbdicateCall(n)
  <2> USE NodesAssumption DEF IInv, TypeOK
  <2>1. ASSUME NEW m \in Nodes, CampaignCall(m) PROVE FALSE
    BY <1>1, <2>1 DEF CampaignCall, AnswerLost, CanTake, Grant, RowUnchanged
  <2>2. ASSUME NEW m \in Nodes, AbdicateCall(m) PROVE m = n
    BY <1>1, <2>2 DEF AbdicateCall
  <2>3. ASSUME NEW m \in Nodes, NEW th \in Threads, RenewCall(th, m) PROVE FALSE
    BY <1>1, <2>3 DEF RenewCall, AnswerLost, Grant, RowUnchanged
  <2>4. ASSUME NEW m \in Nodes,
               \/ CampaignWon(m) \/ CampaignLost(m) \/ OnElected(m)
               \/ Abdicated(m) \/ StartRenewal(m) \/ StopRenewal(m)
               \/ RenewerExit(m) \/ Crash(m)
               \/ \E th \in Threads :
                    RenewCheck(th, m) \/ RenewFailed(th, m) \/ OnDeposed(th, m)
        PROVE  FALSE
    BY <1>1, <2>4 DEF CampaignWon, CampaignLost, OnElected, Abdicated,
       StartRenewal, StopRenewal, RenewerExit, Crash, RenewCheck, RenewFailed,
       OnDeposed
  <2>5. ASSUME GetLeader \/ Tick \/ UNCHANGED vars PROVE FALSE
    BY <1>1, <2>5 DEF GetLeader, Tick, vars
  <2> QED
    BY <1>1, <2>1, <2>2, <2>3, <2>4, <2>5 DEF Next, RenewSteps
<1>2. IInv /\ [Next]_vars
      => [\A n \in Nodes :
            leader_id = n /\ left >= 0 /\ leader_id' # n => AbdicateCall(n)]_vars
  BY <1>1
<1> QED
  BY <1>2, InductiveInvariant, PTL DEF Spec, OnlyOwnerEndsLease

(* The row of coord_elections implements ExclusiveLease. *)
THEOREM Refinement == Spec => ImplementsLease
<1>1. Init => Lease!LeaseInit
  BY DEF Init, Lease!LeaseInit
<1>2. ASSUME IInv, [Next]_vars PROVE [Lease!LeaseNext]_(Lease!leaseVars)
  <2> USE NodesAssumption, TTLAssumption DEF IInv, TypeOK
  <2>1. ASSUME NEW n \in Nodes, CanTake(n), Grant(n) PROVE Lease!LeaseNext
    BY <2>1 DEF CanTake, Grant, Lease!LeaseNext, Lease!Take
  <2>2. ASSUME leader_id # NoOne, RemoveRow PROVE Lease!LeaseNext
    BY <2>2 DEF RemoveRow, Lease!LeaseNext, Lease!Drop
  <2>3. ASSUME RowUnchanged PROVE UNCHANGED Lease!leaseVars
    BY <2>3 DEF RowUnchanged, Lease!leaseVars
  <2>4. ASSUME NEW n \in Nodes, CampaignCall(n)
        PROVE  [Lease!LeaseNext]_(Lease!leaseVars)
    BY <2>1, <2>3, <2>4 DEF CampaignCall, AnswerLost
  <2>5. ASSUME NEW n \in Nodes, AbdicateCall(n)
        PROVE  [Lease!LeaseNext]_(Lease!leaseVars)
    BY <2>2, <2>3, <2>5 DEF AbdicateCall, AnswerLost
  <2>6. ASSUME NEW n \in Nodes, NEW th \in Threads, RenewCall(th, n)
        PROVE  [Lease!LeaseNext]_(Lease!leaseVars)
    BY <2>1, <2>3, <2>6 DEF RenewCall, AnswerLost, CanTake
  <2>7. CASE GetLeader
    BY <2>2, <2>7 DEF GetLeader
  <2>8. CASE Tick
    BY <2>8 DEF Tick, Lease!LeaseNext, Lease!LeaseTick, Lease!Pass
  <2>9. ASSUME NEW n \in Nodes,
               \/ CampaignWon(n) \/ CampaignLost(n) \/ OnElected(n)
               \/ Abdicated(n) \/ StartRenewal(n) \/ StopRenewal(n)
               \/ RenewerExit(n) \/ Crash(n)
               \/ \E th \in Threads :
                    RenewCheck(th, n) \/ RenewFailed(th, n) \/ OnDeposed(th, n)
        PROVE  RowUnchanged
    BY <2>9 DEF RowUnchanged, CampaignWon, CampaignLost, OnElected, Abdicated,
       StartRenewal, StopRenewal, RenewerExit, Crash, RenewCheck, RenewFailed,
       OnDeposed
  <2>10. CASE UNCHANGED vars
    BY <2>10 DEF vars, Lease!leaseVars
  <2> QED
    BY <1>2, <2>3, <2>4, <2>5, <2>6, <2>7, <2>8, <2>9, <2>10 DEF Next, RenewSteps
<1> QED
  BY <1>1, <1>2, InductiveInvariant, PTL
  DEF Spec, ImplementsLease, Lease!LeaseSpec
=============================================================================
