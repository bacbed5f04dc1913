----------------------- MODULE MCInteractionLifecycle -----------------------
(* Instances of InteractionLifecycle for TLC. *)
EXTENDS InteractionLifecycle, TLC

TwoSteps == {[episode |-> "e1", step |-> 0], [episode |-> "e1", step |-> 1]}

Symmetry == Permutations(DecideCalls) \cup Permutations(ObserveCalls)

-----------------------------------------------------------------------------
(* One instance serves callers that overlap and callers that take turns: "overlapped" *)
(* remembers that a call was begun while another was under way.                        *)

VARIABLE overlapped

Begun == {c \in Calls : pc[c] \in Waiting /\ pc'[c] \notin Waiting}
Watch == overlapped' = (overlapped \/ (~Idle /\ Begun # {}))

WatchedInit == Init /\ overlapped = FALSE

WatchedObserve(o) ==
    \/ Start(o) /\ Watch
    \/ ReadHistory(o) /\ Watch
    \/ RecordDiscovered(o) /\ Watch
    \/ ConsumeDecision(o) /\ Watch
    \/ StoreExperience(o) /\ Watch
    \/ LookAgain(o) /\ Watch
    \/ RecordExperience(o) /\ Watch
    \/ StoreTransition(o) /\ Watch
    \/ RecordTransition(o) /\ Watch
    \/ AssimilateBelief(o) /\ Watch
    \/ CountStep(o) /\ Watch
    \/ RecordState(o) /\ Watch
    \/ IndexReplay(o) /\ Watch
    \/ RecordReplay(o) /\ Watch
    \/ RecordFailure(o) /\ Watch

\* The disjuncts of Next, each watched.
WatchedNext ==
    \/ \E d \in DecideCalls : DecideSnapshot(d) /\ Watch
    \/ \E d \in DecideCalls : RegisterDecision(d) /\ Watch
    \/ \E l \in LearnCalls : Learn(l) /\ Watch
    \/ \E o \in ObserveCalls : WatchedObserve(o)
    \/ Rest /\ Watch

WatchedSpec == WatchedInit /\ [][WatchedNext]_<<vars, overlapped>>

\* For callers that took turns so far the journal is exact whenever no call is under way,
\* whatever failed and however often it was retried (agent.py 270-398, journal.py 109-114).
JournalExactInTurn == ~overlapped => JournalExact
=============================================================================
