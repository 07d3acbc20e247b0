----------------------------- MODULE MCPatterns -----------------------------
(* The distributed circuit breaker, the calls of an agent, the producers    *)
(* and consumers of a process and the episodes of the memory chip in one    *)
(* run of TLC.  They share no state: a behaviour is one of the component    *)
(* that `focus' names, and the others stay as they began.                   *)
EXTENDS MCCircuitBreaker, ProducerConsumer, AgentCall, LearningEpisode

CONSTANT e3

(* Two episodes compete for a cache key.                                    *)
Keys == [e \in Episodes |-> IF e = e3 THEN 2 ELSE 1]

VARIABLE focus

mcVars == <<vars, pdVars, agVars, lmVars, focus>>

MCInit ==
  /\ Init /\ ProducerInit /\ AgentInit /\ EpisodeInit
  /\ focus \in {"breaker", "producer", "agent", "memory"}

MCNext ==
  /\ UNCHANGED focus
  /\ \/ focus = "breaker" /\ Next /\ UNCHANGED <<pdVars, agVars, lmVars>>
     \/ focus = "producer" /\ ProducerNext /\ UNCHANGED <<vars, agVars, lmVars>>
     \/ focus = "agent" /\ AgentNext /\ UNCHANGED <<vars, pdVars, lmVars>>
     \/ focus = "memory" /\ EpisodeNext /\ UNCHANGED <<vars, pdVars, agVars>>

MCSpec == MCInit /\ [][MCNext]_mcVars /\ (focus = "breaker" => Fairness)

(* Every variable of the run has its type. *)
TypesOK == TypeOK /\ ProducerTypeOK /\ AgentTypeOK /\ EpisodeTypeOK
=============================================================================
