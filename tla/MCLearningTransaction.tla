------------------------ MODULE MCLearningTransaction ------------------------
(* Instances of LearningTransaction for TLC. *)
EXTENDS LearningTransaction, TLC

\* Calls of one kind are interchangeable; liveness runs do not use this.
Symmetry == Permutations(LearnCalls) \cup Permutations(ObserveCalls)
=============================================================================
