--------------------------- MODULE AtomicLearning ---------------------------
(***************************************************************************)
(* What learning promises to everyone else: persistent learning state, the *)
(* list of stored receipts and the owned model bytes move together in one  *)
(* step or not at all, and only forward.                                   *)
(***************************************************************************)
EXTENDS Naturals, Sequences

CONSTANTS NoReceipt, NoBelief, OwnsModel

VARIABLES learned,   \* belief, model and policy version, latest receipt, last time
          updates,   \* receipts in the order they were stored
          live       \* the owned model: version and bytes

vars == <<learned, updates, live>>

Init ==
    /\ learned.latest = NoReceipt
    /\ learned.belief.model = learned.model
    /\ updates = <<>>
    /\ live.version = learned.model

\* A whole update, described by the receipt it leaves behind.
Commit ==
    LET r == learned'.latest IN
    /\ r # NoReceipt
    /\ r.prevModel = learned.model /\ r.newModel = learned'.model
    /\ r.prevPolicy = learned.policy /\ r.newPolicy = learned'.policy
    /\ learned.lastTime <= r.completed /\ r.completed = learned'.lastTime
    /\ learned'.belief = IF r.resulting = NoBelief THEN learned.belief ELSE r.resulting
    /\ learned.belief.evidence \subseteq learned'.belief.evidence
    /\ updates' = Append(updates, r)
    /\ IF OwnsModel
       THEN /\ live.version = r.prevModel
            /\ live'.version = r.newModel
            /\ live'.payload # live.payload
       ELSE live' = live

\* One more observation, which may be a known one, is taken into the belief; nothing
\* persistent changes.
Assimilation ==
    /\ learned.belief.evidence \subseteq learned'.belief.evidence
    /\ learned.belief.id # learned'.belief.id
    /\ learned'.belief.model = learned.belief.model
    /\ learned.lastTime <= learned'.lastTime
    /\ learned' = [learned EXCEPT !.belief = learned'.belief, !.lastTime = learned'.lastTime]
    /\ UNCHANGED <<updates, live>>

\* Runtime time advances.
Advance ==
    /\ learned.lastTime <= learned'.lastTime
    /\ learned' = [learned EXCEPT !.lastTime = learned'.lastTime]
    /\ UNCHANGED <<updates, live>>

Next == Commit \/ Assimilation \/ Advance

Spec == Init /\ [][Next]_vars
=============================================================================
