-------------------------- MODULE LifecycleJournal --------------------------
(***************************************************************************)
(* The in-memory evidence of interaction progress (runtime/journal.py,     *)
(* class LifecycleJournal): one history per step, and the two appends.     *)
(* Each runs under the journal's lock; a refused append raises ValueError. *)
(***************************************************************************)
EXTENDS Naturals, Sequences

StageOrder == <<"experience_stored", "transition_stored", "state_applied", "replay_indexed">>
Stages == {StageOrder[i] : i \in DOMAIN StageOrder}

LastStage(history) == IF history = <<>> THEN "none" ELSE history[Len(history)].stage

\* The only stage that may follow; "nothing" follows a failure or the last stage.
NextStage(history) ==
    CASE LastStage(history) = "none"              -> "experience_stored"
      [] LastStage(history) = "experience_stored" -> "transition_stored"
      [] LastStage(history) = "transition_stored" -> "state_applied"
      [] LastStage(history) = "state_applied"     -> "replay_indexed"
      [] OTHER                                    -> "nothing"

CausalAppend(history, at) == history # <<>> => at >= history[Len(history)].at

StageAccepts(history, stage, at) ==
    NextStage(history) = stage /\ CausalAppend(history, at)

StageRecord(stage, experience, at) ==
    [stage |-> stage, experience |-> experience, at |-> at, attempted |-> "none"]

\* A failure closes the step and names the stage that was being attempted.
FailureAccepts(history, attempted, at) ==
    NextStage(history) = attempted /\ CausalAppend(history, at)

FailureRecord(attempted, experience, at) ==
    [stage |-> "failed", experience |-> experience, at |-> at, attempted |-> attempted]

StagesOf(history) == {history[i].stage : i \in DOMAIN history}
=============================================================================
