----------------------------- MODULE MCProcesses -----------------------------
(* The business processes, the circuit that processes share, the lock their *)
(* threads share and the cluster they run in, in one run of TLC.  They      *)
(* share no state: a behaviour is one of the component that `focus' names,  *)
(* and the others stay as they began.                                       *)
EXTENDS SagaCoordinator, WorkflowEngine, SubscriptionBilling, ApprovalChain,
        SharedCircuit, ReadWriteLock, ClusterTopology

CONSTANTS admin, gerente, operador

(* A limit that the usage of the run can reach. *)
Limits == [t \in Tiers |-> IF t > Business THEN 2 ELSE t]

RoleRanks == [u \in Users |-> CASE u = admin -> 3 [] u = gerente -> 2 [] u = operador -> 1]

VARIABLE focus

mcVars == <<vars, wfVars, blVars, apVars, shVars, rwVars, tpVars, focus>>

MCInit ==
  /\ Init /\ WorkflowInit /\ BillingInit /\ ApprovalInit
  /\ SharedInit /\ LockInit /\ TopologyInit
  /\ focus \in {"saga", "workflow", "billing", "approval", "shared", "lock", "topology"}
  /\ focus # "shared" => shReady = {}

MCNext ==
  /\ UNCHANGED focus
  /\ \/ /\ focus = "saga" /\ Next
        /\ UNCHANGED <<wfVars, blVars, apVars, shVars, rwVars, tpVars>>
     \/ /\ focus = "workflow" /\ WorkflowNext
        /\ UNCHANGED <<vars, blVars, apVars, shVars, rwVars, tpVars>>
     \/ /\ focus = "billing" /\ BillingNext
        /\ UNCHANGED <<vars, wfVars, apVars, shVars, rwVars, tpVars>>
     \/ /\ focus = "approval" /\ ApprovalNext
        /\ UNCHANGED <<vars, wfVars, blVars, shVars, rwVars, tpVars>>
     \/ /\ focus = "shared" /\ SharedNext
        /\ UNCHANGED <<vars, wfVars, blVars, apVars, rwVars, tpVars>>
     \/ /\ focus = "lock" /\ LockNext
        /\ UNCHANGED <<vars, wfVars, blVars, apVars, shVars, tpVars>>
     \/ /\ focus = "topology" /\ TopologyNext
        /\ UNCHANGED <<vars, wfVars, blVars, apVars, shVars, rwVars>>

(* The fairness of each component, in the behaviours that are its own. *)
MCFairness ==
  /\ WF_vars(focus = "saga" /\ StarterStep)
  /\ \A r \in Reporters : WF_vars(focus = "saga" /\ ReporterStep(r))
  /\ WF_shVars(focus = "shared" /\ SharedTick)
  /\ \A c \in ShClients : WF_shVars(focus = "shared" /\ ClientStep(c))
  /\ \A c \in Callers : WF_rwVars(focus = "lock" /\ Proceeds(c))

MCSpec == MCInit /\ [][MCNext]_mcVars /\ MCFairness

(* Every variable of the run has its type. *)
TypesOK ==
  /\ TypeOK /\ WorkflowTypeOK /\ BillingTypeOK /\ ApprovalTypeOK
  /\ SharedTypeOK /\ LockTypeOK /\ TopologyTypeOK
=============================================================================
