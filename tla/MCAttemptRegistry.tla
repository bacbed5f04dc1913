-------------------------- MODULE MCAttemptRegistry --------------------------
(* Instance of AttemptRegistry; no symmetry, for the sake of the liveness. *)
EXTENDS AttemptRegistry
=============================================================================
