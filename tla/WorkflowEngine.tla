--------------------------- MODULE WorkflowEngine ---------------------------
(***************************************************************************)
(* The durable workflow engine (src/zenic-v2/zenic-flow): one execution of *)
(* a definition, its checkpoint, and the calls that resume it.             *)
(*                                                                         *)
(* The engine is sequential (&mut self) and its store is in memory, so a   *)
(* checkpoint outlives an execution only if the executor or a compensating *)
(* action panics and the caller keeps the engine.  Only code of the caller *)
(* runs between two checkpoints: an attempt of a step with the bookkeeping *)
(* that follows it is one action, and so is one compensating action.       *)
(***************************************************************************)
EXTENDS Integers, Sequences, FiniteSets

CONSTANTS
  StepCount,      \* definition.steps.len()
  Compensable,    \* the steps whose compensation_key has a registered action
  MaxAttempts,    \* RetryPolicy::total_attempts
  MaxPanics       \* bound on panics

ASSUME StepCountAssumption == StepCount \in Nat \ {0}
ASSUME AttemptsAssumption == MaxAttempts \in Nat \ {0}
ASSUME PanicsAssumption == MaxPanics \in Nat

WfSteps == 0..(StepCount - 1)
NoInput == -1

ASSUME CompensableAssumption == Compensable \subseteq WfSteps

VARIABLES
  wfPc,           \* "idle", in a "step", or rolling back ("undo")
  wfStatus,       \* instance.status, "none" while there is no instance
  wfIndex,        \* instance.current_step_index
  wfResults,      \* instance.step_results
  wfAttempt,      \* attempt, in execute_step_with_retry
  wfUndo,         \* how many results compensate_steps has yet to look at
  wfSaved,        \* the checkpoint, of status "none" while there is none
  wfLog,          \* the executions of steps that returned Ok, with the step
                  \* whose output each of them was given
  wfUndone,       \* the compensating actions that were run, each with the
                  \* step whose result it was given
  wfPanics, wfResumes

wfVars == <<wfPc, wfStatus, wfIndex, wfResults, wfAttempt, wfUndo, wfSaved,
            wfLog, wfUndone, wfPanics, wfResumes>>

WfResults == Seq([step : WfSteps, ok : BOOLEAN])

Checkpoint(i, s, r) == [index |-> i, status |-> s, results |-> r]

WorkflowTypeOK ==
  /\ wfPc \in {"idle", "step", "undo"}
  /\ wfStatus \in {"none", "running", "completed", "failed", "compensated"}
  /\ wfIndex \in WfSteps
  /\ wfResults \in WfResults
  /\ wfAttempt \in 1..MaxAttempts
  /\ wfUndo \in Nat
  /\ wfSaved \in [index : WfSteps, status : {"none", "running", "completed", "failed"},
                  results : WfResults]
  /\ wfLog \in Seq([step : WfSteps, input : WfSteps \cup {NoInput}])
  /\ wfUndone \in Seq([action : WfSteps, of : WfSteps])
  /\ wfPanics \in 0..MaxPanics
  /\ wfResumes \in Nat

WorkflowInit ==
  /\ wfPc = "idle"
  /\ wfStatus = "none"
  /\ wfIndex = 0
  /\ wfResults = << >>
  /\ wfAttempt = 1
  /\ wfUndo = 0
  /\ wfSaved = Checkpoint(0, "none", << >>)
  /\ wfLog = << >>
  /\ wfUndone = << >>
  /\ wfPanics = 0
  /\ wfResumes = 0

-----------------------------------------------------------------------------
(* execute(): a new instance goes to Running and is saved. *)
ExecuteWorkflow ==
  /\ wfPc = "idle"
  /\ wfSaved.status = "none"
  /\ wfPc' = "step"
  /\ wfStatus' = "running"
  /\ wfSaved' = Checkpoint(0, "running", << >>)
  /\ UNCHANGED <<wfIndex, wfResults, wfAttempt, wfUndo, wfLog, wfUndone, wfPanics, wfResumes>>

(* Fault: the first result instead of the last one. *)
FirstOutput == IF wfResults = << >> THEN NoInput ELSE wfResults[1].step

(* The output a step is given.  execute() looks for the last success,       *)
(* resume_from_checkpoint() takes the last result: while the instance is    *)
(* running every result is a success. *)
StepInput == IF wfResults = << >> THEN NoInput ELSE wfResults[Len(wfResults)].step

(* save_checkpoint(), with the index of the step that has just ended. *)
SavedAfter(i, s, r) == Checkpoint(i, s, r)

IsLast(i) == i = StepCount - 1

(* The executor returned Ok: the result is pushed and saved; after the last *)
(* step the instance is Completed and saved again. *)
StepSucceeds ==
  LET results == Append(wfResults, [step |-> wfIndex, ok |-> TRUE])
      status == IF IsLast(wfIndex) THEN "completed" ELSE "running"
  IN
  /\ wfPc = "step"
  /\ wfLog' = Append(wfLog, [step |-> wfIndex, input |-> StepInput])
  /\ wfResults' = results
  /\ wfStatus' = status
  /\ wfSaved' = SavedAfter(wfIndex, status, results)
  /\ IF IsLast(wfIndex)
       THEN wfPc' = "idle" /\ UNCHANGED wfIndex
       ELSE wfIndex' = wfIndex + 1 /\ UNCHANGED wfPc
  /\ wfAttempt' = 1
  /\ UNCHANGED <<wfUndo, wfUndone, wfPanics, wfResumes>>

(* The executor returned Err and there are attempts left. *)
RetryStep ==
  /\ wfPc = "step"
  /\ wfAttempt < MaxAttempts
  /\ wfAttempt' = wfAttempt + 1
  /\ UNCHANGED <<wfPc, wfStatus, wfIndex, wfResults, wfUndo, wfSaved, wfLog, wfUndone,
                 wfPanics, wfResumes>>

(* The last attempt failed: the failure is saved, then the rollback begins. *)
StepFails ==
  LET results == Append(wfResults, [step |-> wfIndex, ok |-> FALSE]) IN
  /\ wfPc = "step"
  /\ wfAttempt = MaxAttempts
  /\ wfResults' = results
  /\ wfStatus' = "failed"
  /\ wfSaved' = SavedAfter(wfIndex, "failed", results)
  /\ wfUndo' = Len(results)
  /\ wfPc' = "undo"
  /\ wfAttempt' = 1
  /\ UNCHANGED <<wfIndex, wfLog, wfUndone, wfPanics, wfResumes>>

(* Fault: steps that failed are compensated too. *)
IsCompensatedAny(i) == (i - 1) \in Compensable

(* The i-th result is a success and the i-th step has a registered action:  *)
(* the key is looked up by the place of the result. *)
IsCompensated(i) == wfResults[i].ok /\ (i - 1) \in Compensable

(* One turn of the loop of compensate_steps, from the last result to the    *)
(* first.  An action that returns Err is noted and the loop goes on. *)
CompensateStep ==
  /\ wfPc = "undo" /\ wfUndo > 0
  /\ wfUndo' = wfUndo - 1
  /\ wfUndone' = IF IsCompensated(wfUndo)
                   THEN Append(wfUndone, [action |-> wfUndo - 1, of |-> wfResults[wfUndo].step])
                   ELSE wfUndone
  /\ UNCHANGED <<wfPc, wfStatus, wfIndex, wfResults, wfAttempt, wfSaved, wfLog,
                 wfPanics, wfResumes>>

(* The rest of run_compensation; the Compensated instance is not saved. *)
Compensated ==
  /\ wfPc = "undo" /\ wfUndo = 0
  /\ wfPc' = "idle"
  /\ wfStatus' = "compensated"
  /\ UNCHANGED <<wfIndex, wfResults, wfAttempt, wfUndo, wfSaved, wfLog, wfUndone,
                 wfPanics, wfResumes>>

(* The executor or an action panics, and with it execute(): the instance is *)
(* dropped, the engine's store is not. *)
Panic ==
  /\ wfPc # "idle"
  /\ wfPanics < MaxPanics
  /\ wfPanics' = wfPanics + 1
  /\ wfPc' = "idle"
  /\ wfStatus' = "none"
  /\ wfIndex' = 0
  /\ wfResults' = << >>
  /\ wfAttempt' = 1
  /\ wfUndo' = 0
  /\ UNCHANGED <<wfSaved, wfLog, wfUndone, wfResumes>>

(* resume_from_checkpoint(get_checkpoint()): the loop begins at the index   *)
(* in the checkpoint. *)
Resume ==
  /\ wfPc = "idle"
  /\ wfSaved.status = "running"
  /\ wfPc' = "step"
  /\ wfStatus' = "running"
  /\ wfIndex' = wfSaved.index
  /\ wfResults' = wfSaved.results
  /\ wfResumes' = wfResumes + 1
  /\ UNCHANGED <<wfAttempt, wfUndo, wfSaved, wfLog, wfUndone, wfPanics>>

EngineStep == StepSucceeds \/ RetryStep \/ StepFails \/ CompensateStep \/ Compensated

WorkflowNext == ExecuteWorkflow \/ EngineStep \/ Panic \/ Resume

WorkflowSpec == WorkflowInit /\ [][WorkflowNext]_wfVars

-----------------------------------------------------------------------------
(* Properties *)

(* No step is left out, and a workflow that is resumed repeats at most one  *)
(* finished step for every time it was resumed.                             *)
ResumesInOrder ==
  LET again == {i \in 2..Len(wfLog) : wfLog[i].step = wfLog[i - 1].step} IN
  /\ \A i \in 1..Len(wfLog) :
       \/ i = 1 /\ wfLog[i].step = 0
       \/ i > 1 /\ wfLog[i].step - wfLog[i - 1].step \in {0, 1}
  /\ Cardinality(again) <= wfResumes

(* Whenever the caller's code may panic, the checkpoint holds the result of *)
(* every execution that returned and the failure that ended the workflow,   *)
(* if one did, so nothing that was done is lost by the panic.               *)
CheckpointIsCurrent ==
  wfSaved.status # "none" =>
    /\ Len(wfSaved.results) = Len(wfLog) + (IF wfSaved.status = "failed" THEN 1 ELSE 0)
    /\ \A i \in 1..Len(wfLog) :
         wfSaved.results[i] = [step |-> wfLog[i].step, ok |-> TRUE]
    /\ wfSaved.status = "failed" => ~wfSaved.results[Len(wfLog) + 1].ok

(* Every execution of a step is given the output of the execution that      *)
(* returned just before it (the mistake that workflow_engine.rs:131-133     *)
(* tells of), whoever executed that one.                                    *)
InputIsLatest ==
  \A i \in 1..Len(wfLog) :
    wfLog[i].input = IF i = 1 THEN NoInput ELSE wfLog[i - 1].step

(* A workflow that is Completed, in memory or in the checkpoint, executed   *)
(* every step, however often it was interrupted.                            *)
CompletedMeansAll ==
  "completed" \in {wfStatus, wfSaved.status}
    => \A s \in WfSteps : \E i \in 1..Len(wfLog) : wfLog[i].step = s

(* An execution that was never interrupted and failed has undone exactly    *)
(* the steps that finished and can be undone, the last one first.           *)
FreshRollback ==
  wfStatus = "compensated" /\ wfResumes = 0 =>
    /\ {wfUndone[i].action : i \in 1..Len(wfUndone)}
         = Compensable \cap {wfLog[i].step : i \in 1..Len(wfLog)}
    /\ \A i \in 1..Len(wfUndone) :
         /\ wfUndone[i].action = wfUndone[i].of
         /\ i > 1 => wfUndone[i].action < wfUndone[i - 1].action

(* What a resumed execution finds, is given and leaves behind is what an    *)
(* uninterrupted one would: nothing done is lost, nothing is left out.      *)
ResumeIsSound == CheckpointIsCurrent /\ InputIsLatest /\ ResumesInOrder /\ CompletedMeansAll
=============================================================================
