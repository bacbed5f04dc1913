---------------------------- MODULE OneShotMarker ----------------------------
(***************************************************************************)
(* What a one-shot registry promises to an experiment: one run owns the    *)
(* attempt, its outcome is decided once, and an outcome the run was told   *)
(* of is never lost.  An outcome nobody was told of yet may be lost in a   *)
(* crash: the attempt then stands as it was claimed.                       *)
(***************************************************************************)
CONSTANTS Runs, None

VARIABLES owner,     \* the run whose claim stands, or None
          status,    \* what its marker says
          settled,   \* no crash can take the outcome any more
          told       \* the owner was told that its attempt is completed

vars == <<owner, status, settled, told>>

Unclaimed == owner = None /\ status = "started" /\ ~settled /\ ~told

JustClaimed == owner \in Runs /\ status = "started" /\ ~settled /\ ~told

Claim ==
    /\ owner = None
    /\ owner' \in Runs
    /\ UNCHANGED <<status, settled, told>>

\* The outcome is decided, or one that was decided is made safe or reported.
Decide ==
    /\ owner # None
    /\ status' \in {"completed", "failed"} /\ status \in {"started", status'}
    /\ settled => settled'
    /\ told => told'
    /\ told' => settled' /\ status' = "completed"
    /\ UNCHANGED owner

\* A crash takes what was decided and not settled.
Lose ==
    /\ ~settled
    /\ status' = "started"
    /\ UNCHANGED <<owner, settled, told>>

Next == Claim \/ Decide \/ Lose

Spec == Unclaimed /\ [][Next]_vars

\* The registry as the run sees it that owns the attempt.
OwnedSpec == JustClaimed /\ [][Next]_vars
=============================================================================
