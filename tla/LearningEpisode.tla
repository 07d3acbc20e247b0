--------------------------- MODULE LearningEpisode ---------------------------
(***************************************************************************)
(* LifecycleOrchestrator of the memory chip (zenic-memory/src/lifecycle):  *)
(* learning episodes that are run, submitted to a human, completed and     *)
(* compensated by several threads.                                         *)
(*                                                                         *)
(* Each of the parts (graph, HITL bridge, episodes, cache) has a lock of   *)
(* its own, taken and released again for every use: what is done under one *)
(* lock is a step.  Only compensate_episode and approve hold several at a  *)
(* time.  A caller knows an episode once run_episode has returned its id.  *)
(* Evictions of the cache and the Merkle tree are left out.                *)
(***************************************************************************)
EXTENDS Naturals, FiniteSets

CONSTANTS
  Episodes,
  Deterministic,    \* the episodes of OntologyBase, which no human reviews
  OriginOf,         \* the key under which a mapping is cached
  Quota,            \* max_mappings_per_month
  Troubles          \* what may fail: "insert", "approve", "delete" (errors of
                    \* SQLite) and "callback" (a panic in an on_approval callback)

Nothing == "nothing"

ASSUME EpisodesAssumption ==
  Deterministic \subseteq Episodes /\ IsFiniteSet(Episodes) /\ Nothing \notin Episodes
ASSUME QuotaAssumption == Quota \in Nat
ASSUME TroublesAssumption == Troubles \subseteq {"insert", "approve", "delete", "callback"}

VARIABLES
  lmPhase,          \* ep.phase
  lmUndo,           \* ep.compensation_stack, of what has an effect
  lmGraph,          \* the row of each mapping in semantic_mappings
  lmHitl,           \* the request: in the queue, or what became of it
  lmCache,
  lmAt,             \* where the call of each episode is
  lmPoisoned        \* the lock of the HITL bridge is poisoned

lmVars == <<lmPhase, lmUndo, lmGraph, lmHitl, lmCache, lmAt, lmPoisoned>>

Origins == {OriginOf[e] : e \in Episodes}

(* The steps of complete_episode_internal, and of a whole call. *)
Completing == {"validate", "approve", "seal", "cache", "deploy"}
Places == {"new", "insert", "push", "classify", "submit", "submitted", "failed", "known"}
            \cup Completing

EpisodeTypeOK ==
  /\ lmPhase \in [Episodes -> {"none", "proposed", "classified", "human_validation",
                               "committed", "deployed", "compensated"}]
  /\ lmUndo \in [Episodes -> SUBSET {"graph", "cache"}]
  /\ lmGraph \in [Episodes -> {"none", "stored", "approved"}]
  /\ lmHitl \in [Episodes -> {"none", "pending", "invalid", "approved", "rejected", "expired"}]
  /\ lmCache \in [Origins -> Episodes \cup {Nothing}]
  /\ lmAt \in [Episodes -> Places]
  /\ lmPoisoned \in BOOLEAN

EpisodeInit ==
  /\ lmPhase = [e \in Episodes |-> "none"]
  /\ lmUndo = [e \in Episodes |-> {}]
  /\ lmGraph = [e \in Episodes |-> "none"]
  /\ lmHitl = [e \in Episodes |-> "none"]
  /\ lmCache = [o \in Origins |-> Nothing]
  /\ lmAt = [e \in Episodes |-> "new"]
  /\ lmPoisoned = FALSE

-----------------------------------------------------------------------------
Go(e, place) == lmAt' = [lmAt EXCEPT ![e] = place]

Enter(e, phase) == lmPhase' = [lmPhase EXCEPT ![e] = phase]

Push(e, action) == lmUndo' = [lmUndo EXCEPT ![e] = @ \cup {action}]

(* A call that returns an error: run_episode keeps the id for itself. *)
Fail(e) == Go(e, IF lmAt[e] \in {"insert", "submit"} \/ e \in Deterministic
                   THEN "failed" ELSE "known")

(* run_episode: the quota is tested, then the episode started. *)
StartEpisode(e) ==
  /\ lmAt[e] = "new"
  /\ Cardinality({x \in Episodes : lmGraph[x] # "none"}) < Quota
  /\ Enter(e, "proposed")
  /\ Go(e, "insert")
  /\ UNCHANGED <<lmUndo, lmGraph, lmHitl, lmCache, lmPoisoned>>

InsertMapping(e) ==
  /\ lmAt[e] = "insert"
  /\ \/ lmGraph' = [lmGraph EXCEPT ![e] = "stored"] /\ Go(e, "push")
     \/ "insert" \in Troubles /\ Fail(e) /\ UNCHANGED lmGraph
  /\ UNCHANGED <<lmPhase, lmUndo, lmHitl, lmCache, lmPoisoned>>

PushRemoval(e) ==
  /\ lmAt[e] = "push"
  /\ Push(e, "graph")
  /\ Go(e, "classify")
  /\ UNCHANGED <<lmPhase, lmGraph, lmHitl, lmCache, lmPoisoned>>

(* collect_evidence, resolve_consensus and classify touch an episode that   *)
(* nobody else knows yet.  The verdict is always yes (it is simulated). *)
Classify(e) ==
  /\ lmAt[e] = "classify"
  /\ Enter(e, "classified")
  /\ Go(e, IF e \in Deterministic THEN "approve" ELSE "submit")
  /\ UNCHANGED <<lmUndo, lmGraph, lmHitl, lmCache, lmPoisoned>>

SubmitForReview(e) ==
  /\ lmAt[e] = "submit"
  /\ \/ ~lmPoisoned /\ lmHitl' = [lmHitl EXCEPT ![e] = "pending"] /\ Go(e, "submitted")
     \/ lmPoisoned /\ Fail(e) /\ UNCHANGED lmHitl
  /\ UNCHANGED <<lmPhase, lmUndo, lmGraph, lmCache, lmPoisoned>>

SubmitForHitl(e) ==
  /\ lmAt[e] = "submitted"
  /\ Enter(e, "human_validation")
  /\ Go(e, "known")
  /\ UNCHANGED <<lmUndo, lmGraph, lmHitl, lmCache, lmPoisoned>>

-----------------------------------------------------------------------------
(* Fault: the request is not validated. *)
Review(e, valid) ==
  /\ lmHitl' = [lmHitl EXCEPT ![e] = IF valid THEN "approved" ELSE "invalid"]
  /\ Go(e, "validate")
  /\ UNCHANGED lmPoisoned

(* HitlBridge::approve: the request leaves the queue, and is then           *)
(* validated; an invalid one is gone for good.  A callback that panics      *)
(* takes the thread and the bridge with it. *)
Approve(e, valid) ==
  \/ /\ valid
     /\ lmHitl' = [lmHitl EXCEPT ![e] = "approved"]
     /\ \/ Go(e, "validate") /\ UNCHANGED lmPoisoned
        \/ "callback" \in Troubles /\ lmPoisoned' = TRUE /\ UNCHANGED lmAt
  \/ /\ ~valid
     /\ lmHitl' = [lmHitl EXCEPT ![e] = "invalid"]
     /\ UNCHANGED <<lmAt, lmPoisoned>>

(* complete_episode_after_hitl, up to the approval; the phase of the        *)
(* episode is not looked at. *)
CompleteAfterHitl(e) ==
  /\ lmAt[e] = "known" /\ lmHitl[e] = "pending" /\ ~lmPoisoned
  /\ \E valid \in BOOLEAN : Approve(e, valid)
  /\ UNCHANGED <<lmPhase, lmUndo, lmGraph, lmCache>>

(* HitlBridge::reject and expire, which tell the episode nothing. *)
CloseRequest(e, how) ==
  /\ lmHitl[e] = "pending" /\ ~lmPoisoned
  /\ lmHitl' = [lmHitl EXCEPT ![e] = how]
  /\ UNCHANGED <<lmPhase, lmUndo, lmGraph, lmCache, lmAt, lmPoisoned>>

(* The state says Pending although the request has left the queue. *)
ExpireInvalid(e) ==
  /\ lmHitl[e] = "invalid" /\ ~lmPoisoned
  /\ lmHitl' = [lmHitl EXCEPT ![e] = "expired"]
  /\ UNCHANGED <<lmPhase, lmUndo, lmGraph, lmCache, lmAt, lmPoisoned>>

ValidateEpisode(e) ==
  /\ lmAt[e] = "validate"
  /\ Enter(e, "committed")
  /\ Go(e, "approve")
  /\ UNCHANGED <<lmUndo, lmGraph, lmHitl, lmCache, lmPoisoned>>

(* approve_mapping: the row may have been deleted, or the update fails. *)
ApproveMapping(e) ==
  /\ lmAt[e] = "approve"
  /\ \/ /\ lmGraph[e] # "none"
        /\ lmGraph' = [lmGraph EXCEPT ![e] = "approved"]
        /\ Go(e, "seal")
     \/ /\ lmGraph[e] = "none" \/ "approve" \in Troubles
        /\ Fail(e)
        /\ UNCHANGED lmGraph
  /\ UNCHANGED <<lmPhase, lmUndo, lmHitl, lmCache, lmPoisoned>>

(* seal, and an undo action without effect. *)
SealEpisode(e) ==
  /\ lmAt[e] = "seal"
  /\ Go(e, "cache")
  /\ UNCHANGED <<lmPhase, lmUndo, lmGraph, lmHitl, lmCache, lmPoisoned>>

CacheInsert(e) ==
  /\ lmAt[e] = "cache"
  /\ lmCache' = [lmCache EXCEPT ![OriginOf[e]] = e]
  /\ Go(e, "deploy")
  /\ UNCHANGED <<lmPhase, lmUndo, lmGraph, lmHitl, lmPoisoned>>

(* Fault: no undo action is pushed. *)
DeployOnly(e) ==
  /\ lmAt[e] = "deploy"
  /\ Enter(e, "deployed")
  /\ Go(e, "known")
  /\ UNCHANGED <<lmUndo, lmGraph, lmHitl, lmCache, lmPoisoned>>

Deploy(e) ==
  /\ lmAt[e] = "deploy"
  /\ Enter(e, "deployed")
  /\ Push(e, "cache")
  /\ Go(e, "known")
  /\ UNCHANGED <<lmGraph, lmHitl, lmCache, lmPoisoned>>

-----------------------------------------------------------------------------
Known(e) == lmAt[e] = "known" \/ (e \notin Deterministic /\ lmAt[e] \in Completing)

(* compensate_episode, under the locks of graph, bridge and episodes.  The  *)
(* cache is cleared by origin, whichever mapping is there, and errors of    *)
(* the graph are ignored.  The request stays in the queue: nothing pushes   *)
(* RevokeHITLApproval. *)
CompensateEpisode(e) ==
  /\ Known(e) /\ ~lmPoisoned
  /\ \/ lmGraph' = [lmGraph EXCEPT ![e] = IF "graph" \in lmUndo[e] THEN "none" ELSE @]
     \/ "delete" \in Troubles /\ UNCHANGED lmGraph
  /\ lmCache' = [lmCache EXCEPT ![OriginOf[e]] = IF "cache" \in lmUndo[e] THEN Nothing ELSE @]
  /\ lmUndo' = [lmUndo EXCEPT ![e] = {}]
  /\ Enter(e, "compensated")
  /\ UNCHANGED <<lmHitl, lmAt, lmPoisoned>>

EpisodeNext ==
  \E e \in Episodes :
    \/ StartEpisode(e) \/ InsertMapping(e) \/ PushRemoval(e) \/ Classify(e)
    \/ SubmitForReview(e) \/ SubmitForHitl(e)
    \/ CompleteAfterHitl(e) \/ (\E how \in {"rejected", "expired"} : CloseRequest(e, how))
    \/ ExpireInvalid(e)
    \/ ValidateEpisode(e) \/ ApproveMapping(e) \/ SealEpisode(e) \/ CacheInsert(e) \/ Deploy(e)
    \/ CompensateEpisode(e)

EpisodeSpec == EpisodeInit /\ [][EpisodeNext]_lmVars

-----------------------------------------------------------------------------
(* Properties *)

(* What the cache answers without a human was learned from the ontology or  *)
(* approved with all mandatory fields.                                      *)
ServedIsApproved ==
  \A o \in Origins :
    lmCache[o] # Nothing =>
      lmCache[o] \in Deterministic \/ lmHitl[lmCache[o]] = "approved"

(* A compensated episode leaves no row, and no answer in the cache, once no *)
(* completion of it is under way.  (A completion that goes on after the     *)
(* compensation makes it deployed again.)                                   *)
RolledBack ==
  \A e \in Episodes :
    lmPhase[e] = "compensated" /\ lmAt[e] = "known" =>
      lmGraph[e] = "none" /\ lmCache[OriginOf[e]] # e

(* Whatever humans, completions and compensations do at the same time,      *)
(* graph, cache and approvals fit together.                                 *)
EpisodesFitTogether == ServedIsApproved /\ RolledBack
=============================================================================
