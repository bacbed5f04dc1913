-------------------------- MODULE MCRestartRecovery --------------------------
(* Instance of RestartRecovery; identities are numbers, so there is no symmetry. *)
EXTENDS RestartRecovery
=============================================================================
