----------------------------- MODULE ModelOwner -----------------------------
(***************************************************************************)
(* Exclusive custody of the model checkpoint (runtime/learning.py, class   *)
(* VersionedModelOwner): the live state, a version label with its bytes,   *)
(* and at most one reservation.  A reservation is named by the call that   *)
(* made it; bytes are compared only for equality.                          *)
(***************************************************************************)
EXTENDS Naturals

CONSTANT NoCall   \* no reservation is outstanding

\* Bug: the live model is recognised by its version label alone.
SwapAcceptsVersion(m, expected, candidate) ==
    /\ m.reservation = NoCall
    /\ m.live.version = expected.version
    /\ candidate.version # expected.version

SwapAccepts(m, expected, candidate) ==
    /\ m.reservation = NoCall
    /\ m.live = expected
    /\ candidate.version # expected.version
    /\ candidate.payload # expected.payload

Reserve(m, call) == [m EXCEPT !.reservation = call]

CommitAccepts(m, call) == m.reservation = call

CommitSwap(m, candidate) ==
    [m EXCEPT !.live = candidate, !.reservation = NoCall]

\* rollback_swap takes back a reserved swap, or one that was the last to commit.
SwapRollsBack(m, call, expected, candidate) ==
    \/ m.reservation = call /\ m.live \in {expected, candidate}
    \/ m.reservation = NoCall /\ m.live = candidate

RestoreModel(m, expected) ==
    [m EXCEPT !.live = expected, !.reservation = NoCall]
=============================================================================
