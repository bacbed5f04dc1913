------------------------- MODULE MCWorkerSupervision -------------------------
(* Instance of WorkerSupervision; workers are ordered, so there is no symmetry. *)
EXTENDS WorkerSupervision
=============================================================================
