--------------------------- MODULE LeaderElection ---------------------------
(***************************************************************************)
(* src/core/distributed/leader_election.py over the coord_elections row of *)
(* the coordination backend (pg_backend/_lock_election_mixin.py and        *)
(* memory_backend/_coord_mixin.py).                                        *)
(*                                                                         *)
(* Every node runs one LeaderElection object.  Two threads of the node use *)
(* it: the caller ("main") and the background renewal thread ("renewer").  *)
(* A method is a call of the backend, which is atomic, followed by an      *)
(* update of the object's own state, followed by a callback; between those *)
(* steps every other thread and node may move, time may pass and a node    *)
(* may crash.                                                              *)
(*                                                                         *)
(* Times are ticks left (see ExclusiveLease).  All hosts are assumed to    *)
(* read the same clock: the code compares time.time() of different hosts.  *)
(***************************************************************************)
EXTENDS Integers

CONSTANTS
  Nodes,          \* candidate ids
  NoOne,          \* no row for this election
  TTL,            \* ttl_seconds, in ticks
  MaxToken        \* bound on the campaigns one process wins

ASSUME NodesAssumption == NoOne \notin Nodes
ASSUME TTLAssumption == TTL \in Nat
ASSUME MaxTokenAssumption == MaxToken \in Nat

VARIABLES
  backend,        \* PgBackend or MemoryBackend, chosen at start-up
  leader_id,      \* the row's leader_id, NoOne when there is no row
  left,           \* the row's expires_at - now, -1 once it has run out
  state,          \* _state of each node's object: "follower" or "leader"
  fencing_token,  \* _fencing_token: the generator's counter (see NextToken)
  working,        \* what on_elected started and on_deposed has not stopped
  pc,             \* where each thread of each node is
  stop,           \* _stop_renewal_event
  granted         \* history: time left of the lease each node last obtained

vars == <<backend, leader_id, left, state, fencing_token, working, pc, stop, granted>>

Threads == {"main", "renewer"}

(* "off" is the renewal thread before start_renewal and after its loop ended. *)
PCs == {"off", "idle", "renewing", "renew_failed", "on_deposed",
        "won", "lost", "on_elected", "abdicated"}

TypeOK ==
  /\ backend \in {"pg", "memory"}
  /\ leader_id \in Nodes \cup {NoOne}
  /\ left \in -1..TTL
  /\ state \in [Nodes -> {"follower", "leader"}]
  /\ fencing_token \in [Nodes -> Nat]
  /\ working \in [Nodes -> BOOLEAN]
  /\ pc \in [Threads -> [Nodes -> PCs]]
  /\ stop \in [Nodes -> BOOLEAN]
  /\ granted \in [Nodes -> -1..TTL]

Init ==
  /\ backend \in {"pg", "memory"}
  /\ leader_id = NoOne
  /\ left = -1
  /\ state = [n \in Nodes |-> "follower"]
  /\ fencing_token = [n \in Nodes |-> 0]
  /\ working = [n \in Nodes |-> FALSE]
  /\ pc = [th \in Threads |->
             [n \in Nodes |-> IF th = "main" THEN "idle" ELSE "off"]]
  /\ stop = [n \in Nodes |-> FALSE]
  /\ granted = [n \in Nodes |-> -1]

Goto(th, n, l) == pc' = [pc EXCEPT ![th][n] = l]

-----------------------------------------------------------------------------
(* The backend's row. *)

(* Fault: expires_at <= now, a lease is taken in its last tick. *)
CanTakeTooEarly(n) == leader_id \in {NoOne, n} \/ left <= 0

(* No row, expires_at < now, or the row is the candidate's own. *)
CanTake(n) == leader_id \in {NoOne, n} \/ left < 0

(* Fault: the TTL is added to the old expires_at instead of to now. *)
GrantAccumulates(n) ==
  /\ leader_id' = n
  /\ left' = left + TTL
  /\ granted' = [granted EXCEPT ![n] = left + TTL]

Grant(n) ==
  /\ leader_id' = n
  /\ left' = TTL
  /\ granted' = [granted EXCEPT ![n] = TTL]

RemoveRow ==
  /\ leader_id' = NoOne
  /\ left' = -1
  /\ granted' = [granted EXCEPT ![leader_id] = -1]

RowUnchanged == UNCHANGED <<leader_id, left, granted>>

(* PgBackend answers False to any exception, before or after the commit. *)
AnswerLost(effect) == backend = "pg" /\ (effect \/ RowUnchanged)

-----------------------------------------------------------------------------
(* campaign() *)

CampaignCall(n) ==
  /\ pc["main"][n] = "idle"
  /\ fencing_token[n] < MaxToken
  /\ \/ CanTake(n) /\ Grant(n) /\ Goto("main", n, "won")
     \/ ~CanTake(n) /\ RowUnchanged /\ Goto("main", n, "lost")
     \/ AnswerLost(CanTake(n) /\ Grant(n)) /\ Goto("main", n, "lost")
  /\ UNCHANGED <<backend, state, fencing_token, working, stop>>

(* FencingTokenGenerator.next() is seed + counter.  Every process derives   *)
(* the same seed from the election's name, and a new object starts counting *)
(* at 0, so the token is told apart by the counter alone.                   *)
NextToken(n) == fencing_token[n] + 1

CampaignWon(n) ==
  /\ pc["main"][n] = "won"
  /\ state' = [state EXCEPT ![n] = "leader"]
  /\ fencing_token' = [fencing_token EXCEPT ![n] = NextToken(n)]
  /\ Goto("main", n, IF state[n] = "leader" THEN "idle" ELSE "on_elected")
  /\ UNCHANGED <<backend, leader_id, left, granted, working, stop>>

OnElected(n) ==
  /\ pc["main"][n] = "on_elected"
  /\ working' = [working EXCEPT ![n] = TRUE]
  /\ Goto("main", n, "idle")
  /\ UNCHANGED <<backend, leader_id, left, granted, state, fencing_token, stop>>

(* A lost campaign makes a follower, without calling on_deposed. *)
CampaignLost(n) ==
  /\ pc["main"][n] = "lost"
  /\ state' = [state EXCEPT ![n] = "follower"]
  /\ Goto("main", n, "idle")
  /\ UNCHANGED <<backend, leader_id, left, granted, fencing_token, working, stop>>

-----------------------------------------------------------------------------
(* abdicate() *)

(* Fault: the DELETE lost its AND leader_id = %s. *)
AbdicateCallAnyRow(n) ==
  /\ pc["main"][n] = "idle"
  /\ leader_id # NoOne
  /\ \/ RemoveRow /\ Goto("main", n, "abdicated")
     \/ AnswerLost(RemoveRow) /\ UNCHANGED pc
  /\ UNCHANGED <<backend, state, fencing_token, working, stop>>

(* Deletes the row if it is this node's own; otherwise nothing happens, and *)
(* the object stays what it was. *)
AbdicateCall(n) ==
  /\ pc["main"][n] = "idle"
  /\ leader_id = n
  /\ \/ RemoveRow /\ Goto("main", n, "abdicated")
     \/ AnswerLost(RemoveRow) /\ UNCHANGED pc
  /\ UNCHANGED <<backend, state, fencing_token, working, stop>>

Abdicated(n) ==
  /\ pc["main"][n] = "abdicated"
  /\ state' = [state EXCEPT ![n] = "follower"]
  /\ Goto("main", n, "on_deposed")
  /\ UNCHANGED <<backend, leader_id, left, granted, fencing_token, working, stop>>

-----------------------------------------------------------------------------
(* renew(), called by the caller or by the renewal thread *)

RenewCheck(th, n) ==
  /\ pc[th][n] = "idle"
  /\ th = "renewer" => ~stop[n]
  /\ state[n] = "leader"
  /\ Goto(th, n, "renewing")
  /\ UNCHANGED <<backend, leader_id, left, granted, state, fencing_token, working, stop>>

(* Fault: the UPDATE lost its AND leader_id = %s. *)
RenewCallAnyRow(th, n) ==
  /\ pc[th][n] = "renewing"
  /\ Grant(n) /\ Goto(th, n, "idle")
  /\ UNCHANGED <<backend, state, fencing_token, working, stop>>

(* The row is extended when its leader_id matches, run out or not. *)
RenewCall(th, n) ==
  /\ pc[th][n] = "renewing"
  /\ \/ leader_id = n /\ Grant(n) /\ Goto(th, n, "idle")
     \/ leader_id # n /\ RowUnchanged /\ Goto(th, n, "renew_failed")
     \/ AnswerLost(leader_id = n /\ Grant(n)) /\ Goto(th, n, "renew_failed")
  /\ UNCHANGED <<backend, state, fencing_token, working, stop>>

(* Fault: a failed renewal is only logged. *)
RenewFailedIgnored(th, n) ==
  /\ pc[th][n] = "renew_failed"
  /\ Goto(th, n, "idle")
  /\ UNCHANGED <<backend, leader_id, left, granted, state, fencing_token, working, stop>>

RenewFailed(th, n) ==
  /\ pc[th][n] = "renew_failed"
  /\ state' = [state EXCEPT ![n] = "follower"]
  /\ Goto(th, n, "on_deposed")
  /\ UNCHANGED <<backend, leader_id, left, granted, fencing_token, working, stop>>

OnDeposed(th, n) ==
  /\ pc[th][n] = "on_deposed"
  /\ working' = [working EXCEPT ![n] = FALSE]
  /\ Goto(th, n, "idle")
  /\ UNCHANGED <<backend, leader_id, left, granted, state, fencing_token, stop>>

-----------------------------------------------------------------------------
(* The renewal thread *)

(* Nothing happens while the old thread is alive, even if it was told to stop. *)
StartRenewal(n) ==
  /\ pc["main"][n] = "idle"
  /\ pc["renewer"][n] = "off"
  /\ stop' = [stop EXCEPT ![n] = FALSE]
  /\ Goto("renewer", n, "idle")
  /\ UNCHANGED <<backend, leader_id, left, granted, state, fencing_token, working>>

(* join() gives up after 5 s: the caller goes on whether the thread ended or not. *)
StopRenewal(n) ==
  /\ pc["main"][n] = "idle"
  /\ ~stop[n]
  /\ stop' = [stop EXCEPT ![n] = TRUE]
  /\ UNCHANGED <<backend, leader_id, left, granted, state, fencing_token, working, pc>>

RenewerExit(n) ==
  /\ pc["renewer"][n] = "idle"
  /\ stop[n]
  /\ Goto("renewer", n, "off")
  /\ UNCHANGED <<backend, leader_id, left, granted, state, fencing_token, working, stop>>

-----------------------------------------------------------------------------
(* The environment *)

(* get_leader() on MemoryBackend deletes a row that has run out. *)
GetLeader ==
  /\ backend = "memory"
  /\ leader_id # NoOne
  /\ left < 0
  /\ RemoveRow
  /\ UNCHANGED <<backend, state, fencing_token, working, pc, stop>>

Tick ==
  /\ left' = IF left < 0 THEN -1 ELSE left - 1
  /\ granted' = [n \in Nodes |-> IF granted[n] < 0 THEN -1 ELSE granted[n] - 1]
  /\ UNCHANGED <<backend, leader_id, state, fencing_token, working, pc, stop>>

(* The process dies and a new one is built with the same candidate_id.  With   *)
(* MemoryBackend the rows die with the one process there is. *)
Crash(n) ==
  /\ backend = "pg"
  /\ state' = [state EXCEPT ![n] = "follower"]
  /\ fencing_token' = [fencing_token EXCEPT ![n] = 0]
  /\ working' = [working EXCEPT ![n] = FALSE]
  /\ pc' = [pc EXCEPT !["main"][n] = "idle", !["renewer"][n] = "off"]
  /\ stop' = [stop EXCEPT ![n] = FALSE]
  /\ UNCHANGED <<backend, leader_id, left, granted>>

RenewSteps(th, n) ==
  \/ RenewCheck(th, n)
  \/ RenewCall(th, n)
  \/ RenewFailed(th, n)
  \/ OnDeposed(th, n)

RenewerStep(n) == RenewSteps("renewer", n) \/ RenewerExit(n)

Next ==
  \/ \E n \in Nodes :
       \/ CampaignCall(n)
       \/ CampaignWon(n)
       \/ CampaignLost(n)
       \/ OnElected(n)
       \/ AbdicateCall(n)
       \/ Abdicated(n)
       \/ \E th \in Threads : RenewSteps(th, n)
       \/ StartRenewal(n)
       \/ StopRenewal(n)
       \/ RenewerExit(n)
       \/ Crash(n)
  \/ GetLeader
  \/ Tick

Spec == Init /\ [][Next]_vars

(* The renewal thread is an ordinary thread in a loop with a bounded wait: *)
(* the interpreter schedules it, and the backend answers or raises.        *)
FairSpec == Spec /\ \A n \in Nodes : WF_vars(RenewerStep(n))

-----------------------------------------------------------------------------
(* Properties *)

(* However calls, answers and crashes interleave, no two nodes are inside   *)
(* a lease that campaign() or renew() obtained and that has not run out.    *)
LeaseExclusion ==
  \A n, m \in Nodes : granted[n] >= 0 /\ granted[m] >= 0 => n = m

(* The history variable and the row agree: a node has a running lease       *)
(* exactly when the row is its own.  This makes LeaseExclusion inductive.   *)
GrantedMatchesRow ==
  \A n \in Nodes : granted[n] = IF leader_id = n THEN left ELSE -1

(* A lease that has not run out leaves its node only because that node      *)
(* itself called abdicate(): nobody else's campaign, renewal, query or      *)
(* crash ends it.                                                           *)
OnlyOwnerEndsLease ==
  [][\A n \in Nodes :
       leader_id = n /\ left >= 0 /\ leader_id' # n
         => AbdicateCall(n)]_vars

(* The row is an exclusive lease in the sense of ExclusiveLease. *)
Lease == INSTANCE ExclusiveLease
  WITH Clients <- Nodes, MaxLease <- TTL, owner <- leader_id

ImplementsLease == Lease!LeaseSpec

(* A node whose renewal thread runs does not go on for ever believing that  *)
(* it leads after the row went to another node or disappeared.              *)
RenewerLearns ==
  \A n \in Nodes :
    (state[n] = "leader" /\ leader_id # n /\ pc["renewer"][n] # "off" /\ ~stop[n])
      ~> (state[n] = "follower" \/ leader_id = n \/ stop[n])

(* leader_election.py:163: "If leadership changes, the new leader gets a    *)
(* higher fencing token": higher than the token of every other node.        *)
NewLeaderHasHigherToken ==
  [][\A n, m \in Nodes :
       n # m /\ fencing_token'[n] > fencing_token[n]
         => fencing_token'[n] > fencing_token[m]]_vars
=============================================================================
