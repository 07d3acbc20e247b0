-------------------------- MODULE ClusterTopology --------------------------
(***************************************************************************)
(* The coord_nodes table, ClusterTopology (src/core/distributed/topology)  *)
(* and the worker processes that register in it, in the order of           *)
(* worker_entrypoint.py: join, heartbeat, worker.start; worker.stop,       *)
(* leave.  Somebody calls cleanup_dead_nodes now and then.                 *)
(*                                                                         *)
(* A node that is restarted has the node_id it had before (ZENIC_NODE_ID). *)
(* A row is the number of ticks since its last_heartbeat.                  *)
(***************************************************************************)
EXTENDS Integers

CONSTANTS
  Nodes,
  Interval,       \* heartbeat_interval, in ticks
  MaxTroubles     \* bound on backend calls that raise and deaths of processes

ASSUME IntervalAssumption == Interval \in Nat \ {0}
ASSUME TopologyBounds == MaxTroubles \in Nat

NoRow == -1
Dead == 3 * Interval    \* DEAD_THRESHOLD_MULTIPLIER heartbeats

VARIABLES
  tpRow,          \* the age of last_heartbeat, NoRow when there is no row
  tpPc,           \* where each process is in worker_entrypoint.py
  tpJoined,       \* _joined
  tpBeating,      \* the heartbeat threads of the process that are alive
  tpDue,          \* ticks since each of them last called heartbeat()
  tpVictims,      \* the nodes cleanup_dead_nodes has yet to remove
  tpTroubles

tpVars == <<tpRow, tpPc, tpJoined, tpBeating, tpDue, tpVictims, tpTroubles>>

NodePCs == {"down", "joined", "heart", "registered", "up", "stopping", "leaving", "left"}

(* ClusterTopology._heartbeat_loop and DistributedWorker._heartbeat_loop *)
HeartbeatThreads == {"topology", "worker"}

TopologyTypeOK ==
  /\ tpRow \in [Nodes -> NoRow..(Dead + 1)]
  /\ tpPc \in [Nodes -> NodePCs]
  /\ tpJoined \in [Nodes -> BOOLEAN]
  /\ tpBeating \in [Nodes -> SUBSET HeartbeatThreads]
  /\ tpDue \in [Nodes -> [HeartbeatThreads -> 0..Interval]]
  /\ tpVictims \subseteq Nodes
  /\ tpTroubles \in 0..MaxTroubles

TopologyInit ==
  /\ tpRow = [n \in Nodes |-> NoRow]
  /\ tpPc = [n \in Nodes |-> "down"]
  /\ tpJoined = [n \in Nodes |-> FALSE]
  /\ tpBeating = [n \in Nodes |-> {}]
  /\ tpDue = [n \in Nodes |-> [h \in HeartbeatThreads |-> 0]]
  /\ tpVictims = {}
  /\ tpTroubles = 0

-----------------------------------------------------------------------------
Trouble == tpTroubles < MaxTroubles /\ tpTroubles' = tpTroubles + 1

NodeGoto(n, l) == tpPc' = [tpPc EXCEPT ![n] = l]

SetRow(n, age) == tpRow' = [tpRow EXCEPT ![n] = age]

(* A heartbeat loop calls heartbeat() before it waits for the first time. *)
StartThread(n, h) ==
  /\ tpBeating' = [tpBeating EXCEPT ![n] = @ \cup {h}]
  /\ tpDue' = [tpDue EXCEPT ![n][h] = Interval]

(* join(): register_node inserts or refreshes the row. *)
Join(n) ==
  /\ tpPc[n] \in {"down", "left"} /\ tpBeating[n] = {}
  /\ \/ SetRow(n, 0) /\ tpJoined' = [tpJoined EXCEPT ![n] = TRUE] /\ UNCHANGED tpTroubles
     \/ Trouble /\ UNCHANGED tpRow /\ tpJoined' = [tpJoined EXCEPT ![n] = FALSE]
  /\ NodeGoto(n, "joined")
  /\ UNCHANGED <<tpBeating, tpDue, tpVictims>>

StartHeartbeat(n) ==
  /\ tpPc[n] = "joined"
  /\ StartThread(n, "topology")
  /\ NodeGoto(n, "heart")
  /\ UNCHANGED <<tpRow, tpJoined, tpVictims, tpTroubles>>

(* worker.start(): _register_in_topology... *)
RegisterInTopology(n) ==
  /\ tpPc[n] = "heart"
  /\ \/ SetRow(n, 0) /\ UNCHANGED tpTroubles
     \/ Trouble /\ UNCHANGED tpRow
  /\ NodeGoto(n, "registered")
  /\ UNCHANGED <<tpJoined, tpBeating, tpDue, tpVictims>>

(* ... and the worker's own threads. *)
StartWorker(n) ==
  /\ tpPc[n] = "registered"
  /\ StartThread(n, "worker")
  /\ NodeGoto(n, "up")
  /\ UNCHANGED <<tpRow, tpJoined, tpVictims, tpTroubles>>

(* Fault: heartbeat() inserts the row when it is missing. *)
BeatUpserts(n, h) ==
  /\ h \in tpBeating[n]
  /\ SetRow(n, 0)
  /\ tpDue' = [tpDue EXCEPT ![n][h] = 0]
  /\ UNCHANGED <<tpPc, tpJoined, tpBeating, tpVictims, tpTroubles>>

(* heartbeat(): an UPDATE; that it found no row is not looked at. *)
Beat(n, h) ==
  /\ h \in tpBeating[n]
  /\ \/ tpRow[n] # NoRow /\ SetRow(n, 0) /\ UNCHANGED tpTroubles
     \/ tpRow[n] = NoRow /\ UNCHANGED <<tpRow, tpTroubles>>
     \/ Trouble /\ UNCHANGED tpRow
  /\ tpDue' = [tpDue EXCEPT ![n][h] = 0]
  /\ UNCHANGED <<tpPc, tpJoined, tpBeating, tpVictims>>

(* The signal handler calls worker.stop(), which sets the worker's stop     *)
(* event and waits for its main thread...                                   *)
StopWorker(n) ==
  /\ tpPc[n] \in {"heart", "registered", "up"}
  /\ NodeGoto(n, "stopping")
  /\ UNCHANGED <<tpRow, tpJoined, tpBeating, tpDue, tpVictims, tpTroubles>>

(* ... and deletes the row; its heartbeat thread is not waited for.  Then   *)
(* leave() sets the other stop event.                                       *)
DeregisterFromTopology(n) ==
  /\ tpPc[n] = "stopping"
  /\ \/ SetRow(n, NoRow) /\ UNCHANGED tpTroubles
     \/ Trouble /\ UNCHANGED tpRow
  /\ NodeGoto(n, "leaving")
  /\ UNCHANGED <<tpJoined, tpBeating, tpDue, tpVictims>>

(* leave(), after a wait of at most 5 s for the thread: _joined is cleared  *)
(* only if there was a row to delete.  A node whose row could not be        *)
(* deleted goes down like one that died.                                    *)
Leave(n) ==
  /\ tpPc[n] = "leaving"
  /\ \/ /\ SetRow(n, NoRow)
        /\ tpJoined' = [tpJoined EXCEPT ![n] = @ /\ tpRow[n] = NoRow]
        /\ NodeGoto(n, "left")
        /\ UNCHANGED tpTroubles
     \/ /\ Trouble
        /\ NodeGoto(n, "down")
        /\ UNCHANGED <<tpRow, tpJoined>>
  /\ UNCHANGED <<tpBeating, tpDue, tpVictims>>

(* A heartbeat thread sees its stop event or ends with its process. *)
BeatExit(n, h) ==
  /\ h \in tpBeating[n]
  /\ \/ tpPc[n] \in {"leaving", "left", "down"}
     \/ tpPc[n] = "stopping" /\ h = "worker"
  /\ tpBeating' = [tpBeating EXCEPT ![n] = @ \ {h}]
  /\ tpDue' = [tpDue EXCEPT ![n][h] = 0]
  /\ UNCHANGED <<tpRow, tpPc, tpJoined, tpVictims, tpTroubles>>

NodeCrash(n) ==
  /\ tpPc[n] \notin {"down", "left"} /\ Trouble
  /\ NodeGoto(n, "down")
  /\ tpJoined' = [tpJoined EXCEPT ![n] = FALSE]
  /\ tpBeating' = [tpBeating EXCEPT ![n] = {}]
  /\ tpDue' = [tpDue EXCEPT ![n] = [h \in HeartbeatThreads |-> 0]]
  /\ UNCHANGED <<tpRow, tpVictims>>

-----------------------------------------------------------------------------
(* list_nodes(active_only=True) *)
Active == {n \in Nodes : tpRow[n] # NoRow /\ tpRow[n] < Dead}

(* cleanup_dead_nodes: the rows are listed and compared with the clock... *)
DetectDead ==
  /\ tpVictims = {}
  /\ tpVictims' = {n \in Nodes : tpRow[n] > Dead}
  /\ tpVictims' # {}
  /\ UNCHANGED <<tpRow, tpPc, tpJoined, tpBeating, tpDue, tpTroubles>>

(* ... and then deleted by node_id, one after the other. *)
Remove(n) ==
  /\ n \in tpVictims
  /\ tpVictims' = tpVictims \ {n}
  /\ \/ SetRow(n, NoRow) /\ UNCHANGED tpTroubles
     \/ Trouble /\ UNCHANGED tpRow
  /\ UNCHANGED <<tpPc, tpJoined, tpBeating, tpDue>>

(* Fault: the loop waits twice as long as the interval. *)
OnTimeTwice(n, h) == h \in tpBeating[n] => tpDue[n][h] < 2 * Interval

(* A heartbeat loop calls heartbeat() once in every interval. *)
OnTime(n, h) == h \in tpBeating[n] => tpDue[n][h] < Interval

(* Bound: a row older than Dead does not get any older. *)
Older(age) == IF age = NoRow \/ age > Dead THEN age ELSE age + 1

TopologyTick ==
  /\ \A n \in Nodes, h \in HeartbeatThreads : OnTime(n, h)
  /\ tpRow' = [n \in Nodes |-> Older(tpRow[n])]
  /\ tpDue' = [n \in Nodes |-> [h \in HeartbeatThreads |->
                 IF h \in tpBeating[n] THEN tpDue[n][h] + 1 ELSE 0]]
  /\ UNCHANGED <<tpPc, tpJoined, tpBeating, tpVictims, tpTroubles>>

TopologyNext ==
  \/ \E n \in Nodes :
       \/ Join(n) \/ StartHeartbeat(n) \/ RegisterInTopology(n) \/ StartWorker(n)
       \/ StopWorker(n) \/ DeregisterFromTopology(n) \/ Leave(n)
       \/ \E h \in HeartbeatThreads : Beat(n, h) \/ BeatExit(n, h)
       \/ NodeCrash(n) \/ Remove(n)
  \/ DetectDead
  \/ TopologyTick

TopologySpec == TopologyInit /\ [][TopologyNext]_tpVars

-----------------------------------------------------------------------------
(* Properties *)

(* A running node that is listed as active stays listed although two of the *)
(* heartbeats of its threads are lost: the three intervals after which it   *)
(* counts as dead leave room for them.                                      *)
StaysActive ==
  [][\A n \in Nodes :
       /\ tpPc[n] = "up" /\ n \in Active
       /\ tpPc'[n] = "up" /\ tpRow'[n] # NoRow
       => n \in Active']_tpVars

(* A node that left does not come back by a heartbeat that was under way.   *)
LeftIsGone == \A n \in Nodes : tpPc[n] = "left" => tpRow[n] = NoRow
=============================================================================
