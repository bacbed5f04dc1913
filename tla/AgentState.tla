----------------------------- MODULE AgentState -----------------------------
(***************************************************************************)
(* The mutable centre of the runtime (runtime/state.py, class AgentState)  *)
(* as a record and one operator per method.  Every method runs under one   *)
(* re-entrant lock, so each is one atomic function of the record; whether  *)
(* a thread may enter it is decided by the modules that use this one.      *)
(*                                                                         *)
(* Data kept: a belief is its identity, the model version it was formed    *)
(* under, the set of observation identities it rests on and the tick it    *)
(* was formed at (updated_at, for the posterior of a belief update).       *)
(* representation_version behaves exactly as model_version and             *)
(* configuration_version as policy_version, so one of each is kept.        *)
(* All time points are of one clock, and an information set's cutoff moves *)
(* with its evidence, so the cutoff comparisons that accompany every       *)
(* evidence comparison in the code have no conjunct of their own.          *)
(***************************************************************************)
EXTENDS Naturals, Sequences

CONSTANTS NoReceipt,   \* latest_update is None
          NoBelief     \* resulting_belief is None

(***************************************************************************)
(* The AgentSnapshot constructor: what a coherent view must satisfy.       *)
(***************************************************************************)

\* A belief that keeps an older receipt has to rest on strictly more evidence.
StrictDescendant(belief, resulting) ==
    /\ resulting.evidence \subseteq belief.evidence
    /\ resulting.evidence # belief.evidence
    /\ belief.formed >= resulting.formed

Coherent(s) ==
    /\ s.belief.model = s.model
    /\ s.latest # NoReceipt =>
         /\ s.model = s.latest.newModel
         /\ s.policy = s.latest.newPolicy
         /\ s.latest.resulting # NoBelief =>
              \/ s.belief.id = s.latest.resulting.id
              \/ StrictDescendant(s.belief, s.latest.resulting)

SnapshotAccepts(s, at) ==
    /\ at >= s.lastTime
    /\ at >= s.belief.formed
    /\ s.latest # NoReceipt => at >= s.latest.completed
    /\ Coherent(s)

(***************************************************************************)
(* Decisions: registered once, consumed once.                              *)
(***************************************************************************)

RegisterAccepts(s, d) ==
    /\ d.belief.id = s.belief.id
    /\ d.policy = s.policy
    /\ d.id \notin s.pending
    /\ d.at >= s.lastTime

Register(s, d) ==
    [s EXCEPT !.pending = @ \cup {d.id}, !.lastTime = d.at, !.gen = @ + 1]

ConsumeAccepts(s, d) == d.id \in s.pending

\* Bug: a consumed decision stays pending.
ConsumeKeepsPending(s, d) == [s EXCEPT !.gen = @ + 1]

Consume(s, d) == [s EXCEPT !.pending = @ \ {d.id}, !.gen = @ + 1]

(***************************************************************************)
(* Assimilation of one experience and resource accounting.                 *)
(***************************************************************************)

\* Bug: a posterior is accepted whatever belief it started from.
AssimilateAcceptsStale(s, u) == u.posterior.formed >= s.lastTime

AssimilateAccepts(s, u) ==
    /\ u.prior = s.belief.id
    /\ u.posterior.formed >= s.lastTime

Assimilate(s, u) ==
    [s EXCEPT !.belief = u.posterior, !.lastTime = u.posterior.formed, !.gen = @ + 1]

AddResourceAccepts(s, at) == at >= s.lastTime

AddResource(s, at) ==
    [s EXCEPT !.steps = @ + 1, !.lastTime = at, !.gen = @ + 1]

(***************************************************************************)
(* Learning receipts: preflight, commit, rollback.                         *)
(***************************************************************************)

\* Bug: the resulting belief is not compared with the current one.
UpdateAcceptsAnyEvidence(s, r) ==
    s.model = r.prevModel /\ s.policy = r.prevPolicy /\ r.completed >= s.lastTime

UpdateAccepts(s, r) ==
    /\ s.model = r.prevModel
    /\ s.policy = r.prevPolicy
    /\ r.completed >= s.lastTime
    /\ r.resulting # NoBelief => s.belief.evidence \subseteq r.resulting.evidence

ApplyUpdate(s, r) ==
    LET applied == r.status # "rejected" IN
    [s EXCEPT !.model    = IF applied THEN r.newModel ELSE @,
              !.policy   = IF applied THEN r.newPolicy ELSE @,
              !.belief   = IF r.resulting # NoBelief THEN r.resulting ELSE @,
              !.latest   = r,
              !.lastTime = r.completed,
              !.gen      = @ + 1]

\* What a prepared update keeps for its rollback, with the generation.
LearningState(s) ==
    [belief |-> s.belief, model |-> s.model, policy |-> s.policy,
     latest |-> s.latest, lastTime |-> s.lastTime, gen |-> s.gen]

Restore(s, before) ==
    [s EXCEPT !.belief = before.belief, !.model = before.model,
              !.policy = before.policy, !.latest = before.latest,
              !.lastTime = before.lastTime, !.gen = before.gen]

StateUntouched(s, before) == s.gen = before.gen

StateRollsBack(s, before, r) == s.gen = before.gen + 1 /\ s.latest = r
=============================================================================
