------------------------- MODULE MCBindingRehearsal -------------------------
(* Instance of BindingRehearsal: only the number of faults is to be chosen. *)
EXTENDS BindingRehearsal
=============================================================================
