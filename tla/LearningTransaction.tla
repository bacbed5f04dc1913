------------------------- MODULE LearningTransaction -------------------------
(***************************************************************************)
(* Concurrent learning commits and interactions over one agent             *)
(* (runtime/agent.py, learn and its commit paths, with the lock sections   *)
(* of decide and observe they race with).                                  *)
(*                                                                         *)
(* A call is one activation of learn or of decide/observe; a call runs     *)
(* once.  Every method of a participant is one atomic step that needs the  *)
(* participant's lock, so a call can be overtaken between any two of them. *)
(* Only a learning commit keeps locks between steps: state, then ledger,   *)
(* then model.  While it holds them any commit stage may raise, before or  *)
(* after it has applied its change.                                        *)
(***************************************************************************)
EXTENDS AgentState, EpistemicLedger, ModelOwner, FiniteSets

CONSTANTS LearnCalls,    \* activations of EpistemicAgent.learn
          ObserveCalls,  \* activations of decide followed by observe
          Genesis,       \* the transition an agent is restored with
          Versions, InitVersion,    \* model version labels (reusable)
          Policies, InitPolicy,     \* policy version labels
          Statuses,      \* receipt statuses the learner may return
          OwnsModel,     \* is a model owner configured
          MaxTick        \* bound: the clock of the model

Calls == LearnCalls \cup ObserveCalls
Evidence == ObserveCalls \cup {Genesis}
BeliefIds == Calls \cup {Genesis}
Ticks == 0..MaxTick

ASSUME CallsAssumption ==
    /\ LearnCalls \cap ObserveCalls = {}
    /\ Genesis \notin Calls
    /\ NoCall \notin Calls \cup {Genesis}
ASSUME VersionsAssumption == InitVersion \in Versions /\ InitPolicy \in Policies
ASSUME StatusesAssumption == Statuses \subseteq {"applied", "rejected", "rolled_back"}
ASSUME OwnsModelAssumption == OwnsModel \in BOOLEAN
ASSUME MaxTickAssumption == MaxTick \in Nat

Belief == [id : BeliefIds, model : Versions, evidence : SUBSET Evidence, formed : Ticks]
Model == [version : Versions, payload : LearnCalls \cup {Genesis}]
Transition == [id : Evidence, prior : BeliefIds \cup {NoCall}, posterior : Belief, at : Ticks]
Receipt == [call : LearnCalls, id : LearnCalls, status : Statuses,
            prevModel : Versions, newModel : Versions,
            prevPolicy : Policies, newPolicy : Policies,
            source : Transition, completed : Ticks,
            resulting : Belief \cup {NoBelief},
            rollbackOf : LearnCalls \cup {NoCall}]

ASSUME NoneAssumption == NoReceipt \notin Receipt /\ NoBelief \notin Belief

VARIABLES state,    \* AgentState
          ledger,   \* EpistemicLedger
          model,    \* VersionedModelOwner
          lock,     \* holder of each participant's lock, or NoCall
          pc,       \* control state of every call
          work      \* what a learn call has read and prepared so far

vars == <<state, ledger, model, lock, pc, work>>

-----------------------------------------------------------------------------
(* Initial state: an agent restored with one transition and no receipt.    *)

InitBelief == [id |-> Genesis, model |-> InitVersion, evidence |-> {Genesis}, formed |-> 0]
InitModel == [version |-> InitVersion, payload |-> Genesis]
InitTransition == [id |-> Genesis, prior |-> NoCall, posterior |-> InitBelief, at |-> 0]

Participants == {"state", "ledger", "model"}

\* The local variables of a call before it has read anything.
NoWork == [belief |-> InitBelief, model |-> InitVersion, policy |-> InitPolicy, at |-> 0,
           source |-> InitTransition, expected |-> InitModel, candidate |-> InitModel,
           receipt |-> NoReceipt, stateToken |-> NoReceipt, ledgerToken |-> NoReceipt]

Init ==
    /\ state = [belief |-> InitBelief, model |-> InitVersion, policy |-> InitPolicy,
                pending |-> {}, latest |-> NoReceipt, lastTime |-> 0, gen |-> 0, steps |-> 0]
    /\ ledger = [transitions |-> <<InitTransition>>, transitionLast |-> 0,
                 updates |-> <<>>, updateLast |-> 0, gen |-> 0]
    /\ model = [live |-> InitModel, reservation |-> NoCall]
    /\ lock = [p \in Participants |-> NoCall]
    /\ pc = [c \in Calls |-> IF c \in LearnCalls THEN "inputs" ELSE "decide"]
    /\ work = [c \in Calls |-> NoWork]

Free(p) == lock[p] = NoCall

Goto(c, to) == pc' = [pc EXCEPT ![c] = to]

\* The call raises; its local variables are gone.
Fail(c) == Goto(c, "failed") /\ work' = [work EXCEPT ![c] = NoWork]

-----------------------------------------------------------------------------
(* learn, outside the critical section: inputs, frozen snapshot, model      *)
(* bytes, the learner's own work, and the first validation of its receipt. *)

CheckInputs(l) ==
    /\ pc[l] = "inputs"
    /\ Free("ledger")
    /\ \E t \in EntriesOf(ledger.transitions) : work' = [work EXCEPT ![l].source = t]
    /\ Goto(l, "snapshot")
    /\ UNCHANGED <<state, ledger, model, lock>>

TakeSnapshot(l) ==
    /\ pc[l] = "snapshot"
    /\ Free("state")
    /\ \E at \in Ticks :
         IF SnapshotAccepts(state, at)
         THEN /\ work' = [work EXCEPT ![l].belief = state.belief, ![l].model = state.model,
                                      ![l].policy = state.policy, ![l].at = at]
              /\ Goto(l, IF OwnsModel THEN "readModel" ELSE "propose")
         ELSE Fail(l)
    /\ UNCHANGED <<state, ledger, model, lock>>

ReadModel(l) ==
    /\ pc[l] = "readModel"
    /\ Free("model")
    /\ IF model.live.version = work[l].model
       THEN Goto(l, "propose") /\ work' = [work EXCEPT ![l].expected = model.live]
       ELSE Fail(l)
    /\ UNCHANGED <<state, ledger, model, lock>>

\* The evidence a resulting belief may rest on: it keeps the source belief's,
\* and a learner may add what its snapshot knew.
ResultingEvidence(w) ==
    {w.source.posterior.evidence, w.source.posterior.evidence \cup w.belief.evidence}

ResultingBelief(l, r, evidence, formed) ==
    [id |-> l, model |-> r.newModel, evidence |-> evidence, formed |-> formed]

\* A receipt over the versions of the snapshot, so far without a resulting belief.
Draft(l, w, id, status, version, policy, completed, back) ==
    [call |-> l, id |-> id, status |-> status,
     prevModel |-> w.model, newModel |-> version,
     prevPolicy |-> w.policy, newPolicy |-> policy,
     source |-> w.source, completed |-> completed,
     resulting |-> NoBelief, rollbackOf |-> back]

ResultingBeliefs(l, draft, w) ==
    {NoBelief} \cup {ResultingBelief(l, draft, evidence, formed) :
                       evidence \in ResultingEvidence(w), formed \in draft.completed..MaxTick}

\* What the UpdateReceipt constructor lets a learner return for a snapshot.
WellFormed(r) ==
    LET changed == r.newModel # r.prevModel \/ r.newPolicy # r.prevPolicy IN
    /\ r.status = "applied" => changed
    /\ r.status = "rejected" => ~changed
    /\ r.status = "applied" /\ r.newModel # r.prevModel => r.resulting # NoBelief
    /\ r.resulting # NoBelief => r.status = "applied"
    /\ r.completed >= r.source.at
    /\ (r.status = "rolled_back") = (r.rollbackOf # NoCall)

\* _validate_learning_receipt and _validate_prepared_model_update.
ValidPrepared(r, w) ==
    /\ UpdateAccepts(state, r)
    /\ OwnsModel => /\ r.prevModel = w.expected.version
                    /\ r.newModel # w.expected.version

Propose(l) ==
    LET w == work[l] IN
    /\ pc[l] = "propose"
    /\ Free("state")
    /\ \E id \in LearnCalls, status \in Statuses, version \in Versions, policy \in Policies,
          completed \in w.at..MaxTick, back \in LearnCalls \cup {NoCall} :
         LET draft == Draft(l, w, id, status, version, policy, completed, back) IN
         \E b \in ResultingBeliefs(l, draft, w) :
           LET r == [draft EXCEPT !.resulting = b] IN
           /\ WellFormed(r)
           /\ IF ValidPrepared(r, w)
              THEN /\ Goto(l, "lockState")
                   /\ work' = [work EXCEPT ![l].receipt = r,
                                           ![l].candidate = [version |-> version, payload |-> l]]
              ELSE Fail(l)
    /\ UNCHANGED <<state, ledger, model, lock>>

-----------------------------------------------------------------------------
(* The critical section of a commit.                                       *)

Acquire(c, p, to) ==
    /\ Free(p)
    /\ lock' = [lock EXCEPT ![p] = c]
    /\ Goto(c, to)
    /\ UNCHANGED <<state, ledger, model, work>>

LockState(l) == pc[l] = "lockState" /\ Acquire(l, "state", "lockLedger")

\* Bug: the commit goes on without the ledger's lock.
LockLedgerSkipped(l) ==
    /\ pc[l] = "lockLedger"
    /\ Goto(l, IF OwnsModel THEN "lockModel" ELSE "preflight")
    /\ UNCHANGED <<state, ledger, model, lock, work>>

LockLedger(l) ==
    /\ pc[l] = "lockLedger"
    /\ Acquire(l, "ledger", IF OwnsModel THEN "lockModel" ELSE "preflight")

LockModel(l) == pc[l] = "lockModel" /\ Acquire(l, "model", "preflight")

PreflightAccepts(w) ==
    /\ UpdateAccepts(state, w.receipt)
    /\ ReceiptAccepts(ledger, w.receipt)
    /\ OwnsModel => SwapAccepts(model, w.expected, w.candidate)

\* Every mutable condition is checked again, then the rollback tokens are taken
\* and the swap is reserved.  The owner's validator may also refuse the candidate.
Preflight(l) ==
    LET w == work[l] IN
    /\ pc[l] = "preflight"
    /\ \/ /\ PreflightAccepts(w)
          /\ work' = [work EXCEPT ![l].stateToken = LearningState(state),
                                  ![l].ledgerToken = LedgerToken(ledger)]
          /\ model' = IF OwnsModel THEN Reserve(model, l) ELSE model
          /\ Goto(l, "commitLedger")
       \/ /\ ~PreflightAccepts(w) \/ OwnsModel
          /\ Goto(l, "abandon")
          /\ UNCHANGED <<model, work>>
    /\ UNCHANGED <<state, ledger, lock>>

\* Where a commit continues after a stage, and where its compensation starts.
AfterState == IF OwnsModel THEN "commitModel" ELSE "publish"

\* Bug: compensation starts behind the model.
FirstRollbackState == "rollbackState"

FirstRollback == IF OwnsModel THEN "rollbackModel" ELSE "rollbackState"

CommitLedger(l) ==
    LET w == work[l] IN
    /\ pc[l] = "commitLedger"
    /\ \/ /\ ledger.gen = w.ledgerToken.gen
          /\ ledger' = AppendReceipt(ledger, w.receipt)
          /\ \E to \in {"commitState", FirstRollback} : Goto(l, to)
       \/ Goto(l, FirstRollback) /\ UNCHANGED ledger
    /\ UNCHANGED <<state, model, lock, work>>

CommitState(l) ==
    LET w == work[l] IN
    /\ pc[l] = "commitState"
    /\ \/ /\ state.gen = w.stateToken.gen
          /\ state' = ApplyUpdate(state, w.receipt)
          /\ \E to \in {AfterState, FirstRollback} : Goto(l, to)
       \/ Goto(l, FirstRollback) /\ UNCHANGED state
    /\ UNCHANGED <<ledger, model, lock, work>>

CommitModel(l) ==
    LET w == work[l] IN
    /\ pc[l] = "commitModel"
    /\ \/ /\ CommitAccepts(model, l)
          /\ model' = CommitSwap(model, w.candidate)
          /\ \E to \in {"publish", FirstRollback} : Goto(l, to)
       \/ Goto(l, FirstRollback) /\ UNCHANGED model
    /\ UNCHANGED <<state, ledger, lock, work>>

\* Compensation runs in reverse order; a rollback that cannot be done raises out
\* of the handler and leaves the rest as it is ("torn").
RollbackModel(l) ==
    LET w == work[l] IN
    /\ pc[l] = "rollbackModel"
    /\ IF SwapRollsBack(model, l, w.expected, w.candidate)
       THEN model' = RestoreModel(model, w.expected) /\ Goto(l, "rollbackState")
       ELSE Goto(l, "torn") /\ UNCHANGED model
    /\ UNCHANGED <<state, ledger, lock, work>>

RollbackState(l) ==
    LET w == work[l] IN
    /\ pc[l] = "rollbackState"
    /\ \/ /\ StateUntouched(state, w.stateToken)
          /\ Goto(l, "rollbackLedger") /\ UNCHANGED state
       \/ /\ StateRollsBack(state, w.stateToken, w.receipt)
          /\ state' = Restore(state, w.stateToken) /\ Goto(l, "rollbackLedger")
       \/ /\ ~StateUntouched(state, w.stateToken)
          /\ ~StateRollsBack(state, w.stateToken, w.receipt)
          /\ Goto(l, "torn") /\ UNCHANGED state
    /\ UNCHANGED <<ledger, model, lock, work>>

RollbackLedger(l) ==
    LET w == work[l] IN
    /\ pc[l] = "rollbackLedger"
    /\ \/ /\ LedgerUntouched(ledger, w.ledgerToken)
          /\ Goto(l, "abandon") /\ UNCHANGED ledger
       \/ /\ LedgerRollsBack(ledger, w.ledgerToken, w.receipt)
          /\ ledger' = RemoveReceipt(ledger, w.ledgerToken) /\ Goto(l, "abandon")
       \/ /\ ~LedgerUntouched(ledger, w.ledgerToken)
          /\ ~LedgerRollsBack(ledger, w.ledgerToken, w.receipt)
          /\ Goto(l, "torn") /\ UNCHANGED ledger
    /\ UNCHANGED <<state, model, lock, work>>

\* Bug: an abandoned commit does not give the model's lock back.
UnlockKeepsModel(l) ==
    /\ lock' = [p \in Participants |-> IF lock[p] = l /\ (p # "model" \/ pc[l] # "abandon")
                                      THEN NoCall ELSE lock[p]]
    /\ \/ pc[l] = "publish" /\ Goto(l, "done") /\ UNCHANGED work
       \/ pc[l] = "abandon" /\ Fail(l)
       \/ pc[l] = "torn" /\ Goto(l, "broken") /\ UNCHANGED work
    /\ UNCHANGED <<state, ledger, model>>

\* The ExitStack releases every lock the call holds.
Unlock(l) ==
    /\ lock' = [p \in Participants |-> IF lock[p] = l THEN NoCall ELSE lock[p]]
    /\ \/ pc[l] = "publish" /\ Goto(l, "done") /\ UNCHANGED work
       \/ pc[l] = "abandon" /\ Fail(l)
       \/ pc[l] = "torn" /\ Goto(l, "broken") /\ UNCHANGED work
    /\ UNCHANGED <<state, ledger, model>>

Learn(l) ==
    \/ CheckInputs(l) \/ TakeSnapshot(l) \/ ReadModel(l) \/ Propose(l)
    \/ LockState(l) \/ LockLedger(l) \/ LockModel(l) \/ Preflight(l)
    \/ CommitLedger(l) \/ CommitState(l) \/ CommitModel(l)
    \/ RollbackModel(l) \/ RollbackState(l) \/ RollbackLedger(l) \/ Unlock(l)

-----------------------------------------------------------------------------
(* decide and observe, as the sequence of lock sections a learning commit   *)
(* can fall between.  Storage of the experience, the journal and the replay *)
(* index do not meet a learning commit and are left to InteractionLifecycle. *)

Decision(o) ==
    [id |-> o, belief |-> work[o].belief, policy |-> work[o].policy, at |-> work[o].at]

DecideSnapshot(o) ==
    /\ pc[o] = "decide"
    /\ Free("state")
    /\ \E at \in Ticks :
         IF SnapshotAccepts(state, at)
         THEN /\ work' = [work EXCEPT ![o].belief = state.belief, ![o].policy = state.policy,
                                      ![o].at = at]
              /\ Goto(o, "register")
         ELSE Fail(o)
    /\ UNCHANGED <<state, ledger, model, lock>>

\* A step of the state's owner: applied when it accepts, else the call fails.
StateStep(o, from, accepts, next, to) ==
    /\ pc[o] = from
    /\ Free("state")
    /\ IF accepts THEN state' = next /\ Goto(o, to) /\ UNCHANGED work
                  ELSE Fail(o) /\ UNCHANGED state
    /\ UNCHANGED <<ledger, model, lock>>

RegisterDecision(o) ==
    StateStep(o, "register", RegisterAccepts(state, Decision(o)),
              Register(state, Decision(o)), "consume")

ConsumeDecision(o) ==
    StateStep(o, "consume", ConsumeAccepts(state, Decision(o)),
              Consume(state, Decision(o)), "append")

\* The identity the environment gives to what it shows next: a new one, named after the
\* call, or one the belief rests on already, since nothing makes it new.
Observations(o) == {o} \cup work[o].belief.evidence

\* The belief updater's contract: the posterior keeps the prior's evidence, holds the
\* observation that was seen and stays under the prior's model version.
TransitionOf(o, seen, formed, at) ==
    LET prior == work[o].belief IN
    [id |-> o, prior |-> prior.id, at |-> at,
     posterior |-> [id |-> o, model |-> prior.model,
                    evidence |-> prior.evidence \cup {seen}, formed |-> formed]]

StoreTransition(o) ==
    /\ pc[o] = "append"
    /\ Free("ledger")
    /\ \E seen \in Observations(o), formed \in work[o].at..MaxTick : \E at \in formed..MaxTick :
         LET t == TransitionOf(o, seen, formed, at) IN
         IF TransitionAccepts(ledger, t)
         THEN /\ ledger' = AppendTransition(ledger, t)
              /\ work' = [work EXCEPT ![o].source = t]
              /\ Goto(o, "assimilate")
         ELSE Fail(o) /\ UNCHANGED ledger
    /\ UNCHANGED <<state, model, lock>>

AssimilateBelief(o) ==
    StateStep(o, "assimilate", AssimilateAccepts(state, work[o].source),
              Assimilate(state, work[o].source), "account")

CountStep(o) ==
    StateStep(o, "account", AddResourceAccepts(state, work[o].source.at),
              AddResource(state, work[o].source.at), "done")

Interact(o) ==
    \/ DecideSnapshot(o) \/ RegisterDecision(o) \/ ConsumeDecision(o)
    \/ StoreTransition(o) \/ AssimilateBelief(o) \/ CountStep(o)

-----------------------------------------------------------------------------

Terminal == {"done", "failed", "broken"}

\* Every call has returned or raised.
Finished == (\A c \in Calls : pc[c] \in Terminal) /\ UNCHANGED vars

Next ==
    \/ \E l \in LearnCalls : Learn(l)
    \/ \E o \in ObserveCalls : Interact(o)
    \/ Finished

Spec == Init /\ [][Next]_vars

\* A thread that can run does run.  A lock goes to whoever asks first, but every call
\* takes each lock a bounded number of times, so weak fairness is all that is assumed.
FairSpec ==
    /\ Spec
    /\ \A l \in LearnCalls : WF_vars(Learn(l))
    /\ \A o \in ObserveCalls : WF_vars(Interact(o))

-----------------------------------------------------------------------------
(* Properties.                                                             *)

\* The call holding all participants between its preflight and its outcome.
Committing(l) ==
    pc[l] \in {"commitLedger", "commitState", "commitModel",
               "rollbackModel", "rollbackState", "rollbackLedger"}

Quiet == \A l \in LearnCalls : ~Committing(l)

PcStates ==
    Terminal \cup
    {"inputs", "snapshot", "readModel", "propose", "lockState", "lockLedger", "lockModel",
     "preflight", "commitLedger", "commitState", "commitModel", "rollbackModel",
     "rollbackState", "rollbackLedger", "publish", "abandon", "torn",
     "decide", "register", "consume", "append", "assimilate", "account"}

StateToken == [belief : Belief, model : Versions, policy : Policies,
               latest : Receipt \cup {NoReceipt}, lastTime : Ticks, gen : Nat]
LedgerTokens == [gen : Nat, updateLast : Ticks]

AgentStates == [belief : Belief, model : Versions, policy : Policies,
                pending : SUBSET ObserveCalls, latest : Receipt \cup {NoReceipt},
                lastTime : Ticks, gen : Nat, steps : Nat]
Ledgers == [transitions : Seq(Transition), transitionLast : Ticks,
            updates : Seq(Receipt), updateLast : Ticks, gen : Nat]
Owners == [live : Model, reservation : LearnCalls \cup {NoCall}]
Locals == [belief : Belief, model : Versions, policy : Policies, at : Ticks,
           source : Transition, expected : Model, candidate : Model,
           receipt : Receipt \cup {NoReceipt},
           stateToken : StateToken \cup {NoReceipt},
           ledgerToken : LedgerTokens \cup {NoReceipt}]

\* Types of the participants, the locks and the calls' local variables.
TypeOK ==
    /\ state \in AgentStates
    /\ ledger \in Ledgers
    /\ model \in Owners
    /\ lock \in [Participants -> LearnCalls \cup {NoCall}]
    /\ pc \in [Calls -> PcStates]
    /\ work \in [Calls -> Locals]

\* Agreement of the three participants (agent.py 530-577): whenever no commit is under
\* way the owned bytes, the state's version and the current belief are of one version,
\* and the latest receipt of the state is the last one of the ledger.
ParticipantsAgree ==
    Quiet =>
      /\ OwnsModel => model.live.version = state.model
      /\ state.latest = IF ledger.updates = <<>> THEN NoReceipt
                        ELSE ledger.updates[Len(ledger.updates)]
      /\ model.reservation = NoCall

\* The current belief brought a new observation, unless a learner or the restore made it.
NewlyObserved ==
    state.belief.id \in ObserveCalls => state.belief.id \in state.belief.evidence

\* "A snapshot may not pair new model weights with an old-model belief"
\* (docs/architecture.md 97-104): whenever no commit is under way the state can be
\* captured by the AgentSnapshot constructor.  After a known observation it can be refused
\* for the evidence (DescendantsExtend), but never for the model.
SnapshotCoherent ==
    Quiet => /\ state.belief.model = state.model
             /\ NewlyObserved => Coherent(state)

\* "A later assimilated belief may retain that receipt only when its evidence strictly
\* extends the receipt's resulting belief" (docs/architecture.md 101-103): assimilate
\* (state.py 172-184) does not look, and every snapshot after it does (records.py 1130).
DescendantsExtend ==
    (/\ Quiet /\ state.latest # NoReceipt
     /\ state.latest.resulting # NoBelief
     /\ state.belief.id # state.latest.resulting.id)
        => StrictDescendant(state.belief, state.latest.resulting)

\* Compensation can always be carried out to its end: no rollback finds that a later
\* mutation got in between (state.py 232-242, ledger.py 172-184, learning.py 215-234).
RollbackAlwaysPossible == \A l \in LearnCalls : pc[l] \notin {"torn", "broken"}

\* A call that raised leaves no trace: its receipt and its bytes are nowhere; a call
\* that returned has its receipt in the ledger exactly once.
AllOrNothing ==
    \A l \in LearnCalls :
      LET mine == {i \in DOMAIN ledger.updates : ledger.updates[i].call = l} IN
      /\ pc[l] = "done" => Cardinality(mine) = 1
      /\ pc[l] = "failed" => /\ mine = {}
                            /\ model.live.payload # l
                            /\ state.belief.id # l
                            /\ \/ state.latest = NoReceipt
                               \/ state.latest.call # l

\* Lineage: a stored receipt starts from the versions its predecessor ended with, and
\* its learner worked from the very bytes its predecessor installed, even though
\* version labels may be used again.
LineageUnbroken ==
    \A i \in 1..(Len(ledger.updates) - 1) :
      LET before == ledger.updates[i]
          after  == ledger.updates[i + 1]
      IN /\ after.prevModel = before.newModel
         /\ after.prevPolicy = before.newPolicy
         /\ after.completed >= before.completed
         /\ OwnsModel => work[after.call].expected = work[before.call].candidate

\* What a learning commit promises to the rest of the system, see AtomicLearning.
Committer == CHOOSE l \in LearnCalls : Committing(l)

Learned ==
    LET now == IF Quiet THEN LearningState(state) ELSE work[Committer].stateToken IN
    [belief |-> now.belief, model |-> now.model, policy |-> now.policy,
     latest |-> now.latest, lastTime |-> now.lastTime]

Stored ==
    IF Quiet \/ ledger.gen = work[Committer].ledgerToken.gen THEN ledger.updates
    ELSE SubSeq(ledger.updates, 1, Len(ledger.updates) - 1)

Live == IF Quiet \/ ~OwnsModel THEN model.live ELSE work[Committer].expected

Atomic == INSTANCE AtomicLearning
            WITH learned <- Learned, updates <- Stored, live <- Live

\* The commit with its faults and rollbacks implements the atomic one.
CommitIsAtomic == Atomic!Spec

\* Every call returns or raises: no lock is kept and no call waits for ever.
EveryCallEnds == \A c \in Calls : <>(pc[c] \in Terminal)
=============================================================================
