---------------------- MODULE LearningAtomicityProofs ----------------------
(***************************************************************************)
(* LearningTransaction implements AtomicLearning, for any number of        *)
(* learners and observers, any versions and any clock.                     *)
(***************************************************************************)
EXTENDS LearningTransactionProofs, FiniteSetTheorems

-----------------------------------------------------------------------------
(* What the rest of the system sees of a commit.                           *)

\* The receipt of a call came from the constructor, for this call's candidate.
Drafted ==
    \A l \in LearnCalls :
      work[l].receipt \in Receipt =>
        LET r == work[l].receipt IN
        /\ r.call = l /\ WellFormed(r)
        /\ r.resulting # NoBelief => r.resulting.id = l /\ r.resulting.model = r.newModel
        /\ work[l].candidate.payload = l

\* Each participant of a commit is exactly as remembered, or as remembered with the
\* receipt applied.
ExactAt(l) ==
    /\ StateOpen(l) => LearningState(state) = work[l].stateToken
    /\ StateDone(l) => LearningState(state) = ApplyUpdate(work[l].stateToken, work[l].receipt)
    /\ UpdateAccepts(work[l].stateToken, work[l].receipt)
    /\ OwnsModel => work[l].candidate.payload # work[l].expected.payload

Exact == \A l \in LearnCalls : pc[l] \in WithTokens => ExactAt(l)

ViewInv == CustodyInv /\ AgreeInv /\ Drafted /\ Exact

\* Only one call commits at a time.
LEMMA OneCommitter ==
    ASSUME LockInv, NEW l \in LearnCalls, NEW k \in LearnCalls,
           pc[l] \in WithTokens, pc[k] \in HoldsState
    PROVE  k = l
  BY DEF LockInv, HoldsState, HoldsLedger, HoldsModel

LEMMA QuietOrCommitting ==
    /\ Quiet <=> \A l \in LearnCalls : pc[l] \notin WithTokens
    /\ \A l : Committing(l) <=> pc[l] \in WithTokens
  BY DEF Quiet, Committing, WithTokens

LEMMA TheCommitter ==
    ASSUME LockInv, NEW l \in LearnCalls, pc[l] \in WithTokens
    PROVE  ~Quiet /\ Committer = l
<1>1. ~Quiet /\ Committing(l)
  BY QuietOrCommitting
<1>2. \A k \in LearnCalls : Committing(k) => k = l
  BY QuietOrCommitting, OneCommitter DEF HoldsState, HoldsLedger, HoldsModel
<1> QED
  BY <1>1, <1>2 DEF Committer

View(s) == [belief |-> s.belief, model |-> s.model, policy |-> s.policy,
            latest |-> s.latest, lastTime |-> s.lastTime]

StoredAt(l) == IF LedgerOpen(l) THEN ledger.updates
               ELSE SubSeq(ledger.updates, 1, Len(ledger.updates) - 1)

LEMMA QuietView ==
    ASSUME Quiet
    PROVE  Learned = View(state) /\ Stored = ledger.updates /\ Live = model.live
  BY DEF Learned, Stored, Live, View, LearningState

LEMMA CommitView ==
    ASSUME LockInv, NEW l \in LearnCalls, pc[l] \in WithTokens
    PROVE  /\ Learned = View(work[l].stateToken)
           /\ Stored = StoredAt(l)
           /\ Live = IF OwnsModel THEN work[l].expected ELSE model.live
<1>1. ~Quiet /\ Committer = l
  BY TheCommitter
<1> QED
  BY <1>1 DEF Learned, Stored, Live, View, StoredAt, LedgerOpen, LedgerUntouched

\* The same after a step.
LEMMA CommitViewNext ==
    ASSUME LockInv', NEW l \in LearnCalls, pc'[l] \in WithTokens
    PROVE  /\ Learned' = View(work'[l].stateToken)
           /\ Stored' = StoredAt(l)'
           /\ Live' = IF OwnsModel THEN work'[l].expected ELSE model'.live
<1>1. ~Quiet'
  BY DEF Quiet, Committing, WithTokens
<1>2. \A k \in LearnCalls : Committing(k)' <=> k = l
  BY DEF Committing, WithTokens, LockInv, HoldsState, HoldsLedger, HoldsModel
<1>3. Committer' = l
  BY <1>2 DEF Committer
<1> QED
  BY <1>1, <1>3 DEF Learned, Stored, Live, View, StoredAt, LedgerOpen, LedgerUntouched

-----------------------------------------------------------------------------
(* The receipt of a call.                                                  *)

\* A proposal fails, or leaves a receipt that its constructor and the first
\* validation accepted.
LEMMA ProposeFacts ==
    ASSUME TypeInv, NEW l \in LearnCalls, Propose(l)
    PROVE  \/ pc'[l] = "failed" /\ work'[l] = NoWork
           \/ /\ pc'[l] = "lockState"
              /\ work'[l].receipt \in Receipt /\ work'[l].receipt.call = l
              /\ work'[l].candidate = [version |-> work'[l].receipt.newModel, payload |-> l]
              /\ WellFormed(work'[l].receipt)
              /\ UpdateAccepts(state, work'[l].receipt)
              /\ work'[l].source = work[l].source /\ work'[l].belief = work[l].belief
              /\ work'[l].receipt.resulting # NoBelief =>
                   /\ work'[l].receipt.resulting.id = l
                   /\ work'[l].receipt.resulting.model = work'[l].receipt.newModel
                   /\ work'[l].receipt.resulting.evidence \in ResultingEvidence(work[l])
<1>1. /\ l \in Calls /\ pc \in [Calls -> PcStates] /\ work \in [Calls -> Locals]
      /\ work[l] \in Locals
  BY DEF TypeInv, TypeOK, Calls
<1>2. CASE Fail(l)
  BY <1>1, <1>2 DEF Fail, Goto
<1>3. CASE ~Fail(l)
  <2>1. PICK id \in LearnCalls, status \in Statuses, version \in Versions, policy \in Policies,
             completed \in work[l].at..MaxTick, back \in LearnCalls \cup {NoCall} :
          \E b \in ResultingBeliefs(l, Draft(l, work[l], id, status, version, policy,
                                            completed, back), work[l]) :
            LET r == [Draft(l, work[l], id, status, version, policy, completed, back)
                        EXCEPT !.resulting = b]
            IN /\ WellFormed(r) /\ ValidPrepared(r, work[l])
               /\ Goto(l, "lockState")
               /\ work' = [work EXCEPT ![l].receipt = r,
                                       ![l].candidate = [version |-> version, payload |-> l]]
    BY <1>3 DEF Propose
  <2> DEFINE draft == Draft(l, work[l], id, status, version, policy, completed, back)
  <2>2. PICK b \in ResultingBeliefs(l, draft, work[l]) :
          LET r == [draft EXCEPT !.resulting = b]
          IN /\ WellFormed(r) /\ ValidPrepared(r, work[l])
             /\ Goto(l, "lockState")
             /\ work' = [work EXCEPT ![l].receipt = r,
                                     ![l].candidate = [version |-> version, payload |-> l]]
    BY <2>1
  <2> DEFINE r == [draft EXCEPT !.resulting = b]
  <2>3. /\ WellFormed(r) /\ ValidPrepared(r, work[l]) /\ Goto(l, "lockState")
        /\ work' = [work EXCEPT ![l].receipt = r,
                                ![l].candidate = [version |-> version, payload |-> l]]
    BY <2>2
  <2>4. r.call = l /\ r.newModel = version /\ r.resulting = b
    BY DEF Draft
  <2>5. b # NoBelief => b.id = l /\ b.model = version /\ b.evidence \in ResultingEvidence(work[l])
    BY <2>2 DEF ResultingBeliefs, ResultingBelief, Draft
  <2> HIDE DEF r, draft
  <2>6. /\ work'[l].receipt = r /\ work'[l].candidate = [version |-> version, payload |-> l]
        /\ work'[l].source = work[l].source /\ work'[l].belief = work[l].belief
    BY <1>1, <2>3 DEF Locals
  <2>7. pc'[l] = "lockState"
    BY <1>1, <2>3 DEF Goto
  <2>8. work'[l].receipt \in Receipt
    <3>1. TypeInv'
      BY ProposeType
    <3>2. "lockState" \in WithReceipt
      BY DEF WithReceipt
    <3> QED
      BY <2>7, <3>1, <3>2 DEF TypeInv, Prepared
  <2> QED
    BY <2>3, <2>4, <2>5, <2>6, <2>7, <2>8 DEF ValidPrepared
<1> QED
  BY <1>2, <1>3

\* No other step writes the receipt, the candidate or, once it is set, the source.
LEMMA ReceiptOnce ==
    ASSUME TypeInv, NEW c \in Calls,
           (c \in LearnCalls /\ Learn(c) /\ ~Propose(c)) \/ (c \in ObserveCalls /\ Interact(c))
    PROVE  \/ pc'[c] = "failed" /\ work'[c] = NoWork
           \/ work'[c].receipt = work[c].receipt /\ work'[c].candidate = work[c].candidate
<1>1. /\ pc \in [Calls -> PcStates] /\ work \in [Calls -> Locals] /\ work[c] \in Locals
  BY DEF TypeInv, TypeOK
<1>2. ASSUME Fail(c) PROVE pc'[c] = "failed" /\ work'[c] = NoWork
  BY <1>1, <1>2 DEF Fail, Goto
<1>3. ASSUME UNCHANGED work
      PROVE  work'[c].receipt = work[c].receipt /\ work'[c].candidate = work[c].candidate
  BY <1>3
<1>4. CASE c \in ObserveCalls /\ Interact(c)
  <2>1. CASE DecideSnapshot(c)
    BY <1>1, <1>2, <2>1 DEF DecideSnapshot, Locals
  <2>2. CASE RegisterDecision(c) \/ ConsumeDecision(c) \/ AssimilateBelief(c) \/ CountStep(c)
    BY <1>2, <1>3, <2>2 DEF RegisterDecision, ConsumeDecision, AssimilateBelief, CountStep, StateStep
  <2>3. CASE StoreTransition(c)
    BY <1>1, <1>2, <2>3 DEF StoreTransition, Locals
  <2> QED
    BY <1>4, <2>1, <2>2, <2>3 DEF Interact
<1>5. CASE c \in LearnCalls /\ Learn(c) /\ ~Propose(c)
  <2>1. CASE CheckInputs(c)
    BY <1>1, <2>1 DEF CheckInputs, Locals
  <2>2. CASE TakeSnapshot(c)
    BY <1>1, <1>2, <2>2 DEF TakeSnapshot, Locals
  <2>3. CASE ReadModel(c)
    BY <1>1, <1>2, <2>3 DEF ReadModel, Locals
  <2>4. CASE Preflight(c)
    BY <1>1, <1>3, <2>4 DEF Preflight, Locals
  <2>5. CASE \/ LockState(c) \/ LockLedger(c) \/ LockModel(c)
             \/ CommitLedger(c) \/ CommitState(c) \/ CommitModel(c)
             \/ RollbackModel(c) \/ RollbackState(c) \/ RollbackLedger(c)
    BY <1>3, <2>5 DEF LockState, LockLedger, LockModel, Acquire, CommitLedger, CommitState,
                      CommitModel, RollbackModel, RollbackState, RollbackLedger
  <2>6. CASE Unlock(c)
    BY <1>2, <1>3, <2>6 DEF Unlock
  <2> QED
    BY <1>5, <2>1, <2>2, <2>3, <2>4, <2>5, <2>6 DEF Learn
<1> QED
  BY <1>4, <1>5

LEMMA DraftedStep == TypeInv /\ Drafted /\ [Next]_vars => Drafted'
<1> SUFFICES ASSUME TypeInv, Drafted, [Next]_vars,
                    NEW l \in LearnCalls, work'[l].receipt \in Receipt
             PROVE  LET r == work'[l].receipt IN
                    /\ r.call = l /\ WellFormed(r)
                    /\ r.resulting # NoBelief => r.resulting.id = l /\ r.resulting.model = r.newModel
                    /\ work'[l].candidate.payload = l
  BY DEF Drafted, WellFormed
<1>1. l \in Calls /\ l \notin ObserveCalls
  BY CallsAssumption DEF Calls
<1>2. NoWork.receipt = NoReceipt
  BY DEF NoWork
<1>3. CASE /\ work'[l].receipt = work[l].receipt /\ work'[l].candidate = work[l].candidate
  BY <1>3 DEF Drafted
<1>4. CASE Propose(l)
  <2>1. CASE work'[l] = NoWork
    BY <1>2, <2>1, NoneAssumption
  <2>2. CASE work'[l] # NoWork
    <3>1. /\ work'[l].receipt.call = l /\ WellFormed(work'[l].receipt)
          /\ work'[l].candidate = [version |-> work'[l].receipt.newModel, payload |-> l]
          /\ work'[l].receipt.resulting # NoBelief =>
               /\ work'[l].receipt.resulting.id = l
               /\ work'[l].receipt.resulting.model = work'[l].receipt.newModel
      BY <1>4, <2>2, ProposeFacts
    <3>2. work'[l].candidate.payload = l
      BY <3>1
    <3> QED
      BY <3>1, <3>2
  <2> QED
    BY <2>1, <2>2
<1>5. CASE Learn(l) /\ ~Propose(l)
  BY <1>1, <1>2, <1>3, <1>5, ReceiptOnce, NoneAssumption
<1>6. ASSUME NEW c \in Calls, c # l,
             (c \in LearnCalls /\ Learn(c)) \/ (c \in ObserveCalls /\ Interact(c))
      PROVE  work'[l] = work[l]
  BY <1>1, <1>6, OwnStep
<1>7. CASE UNCHANGED vars
  BY <1>3, <1>7 DEF vars
<1> QED
  BY <1>1, <1>3, <1>4, <1>5, <1>6, <1>7, Actor

-----------------------------------------------------------------------------
(* The participants during a commit, as values.                            *)

\* Applying a receipt and taking the part a rollback remembers commute.
LEMMA ApplyCommutes ==
    ASSUME NEW s \in AgentStates, NEW r \in Receipt
    PROVE  LearningState(ApplyUpdate(s, r)) = ApplyUpdate(LearningState(s), r)
<1> DEFINE applied == r.status # "rejected"
           version == IF applied THEN r.newModel ELSE s.model
           policy == IF applied THEN r.newPolicy ELSE s.policy
           belief == IF r.resulting # NoBelief THEN r.resulting ELSE s.belief
           after == [belief |-> belief, model |-> version, policy |-> policy,
                     latest |-> r, lastTime |-> r.completed, gen |-> s.gen + 1]
           token == LearningState(s)
<1>1. LearningState(ApplyUpdate(s, r)) = after
  <2>1. /\ ApplyUpdate(s, r).belief = belief /\ ApplyUpdate(s, r).model = version
        /\ ApplyUpdate(s, r).policy = policy /\ ApplyUpdate(s, r).latest = r
        /\ ApplyUpdate(s, r).lastTime = r.completed /\ ApplyUpdate(s, r).gen = s.gen + 1
    BY DEF AgentStates, ApplyUpdate
  <2> QED
    BY <2>1 DEF LearningState
<1>2. /\ token \in StateToken /\ token.belief = s.belief /\ token.model = s.model
      /\ token.policy = s.policy /\ token.gen = s.gen
  BY DEF AgentStates, LearningState, StateToken
<1>3. version \in Versions /\ policy \in Policies /\ belief \in Belief /\ s.gen + 1 \in Nat
      /\ r \in Receipt \cup {NoReceipt} /\ r.completed \in Ticks
  BY DEF AgentStates, Receipt
<1>4. ApplyUpdate(token, r) = [token EXCEPT !.model = version, !.policy = policy,
                                            !.belief = belief, !.latest = r,
                                            !.lastTime = r.completed, !.gen = s.gen + 1]
  BY <1>2 DEF ApplyUpdate, StateToken
<1> HIDE DEF version, policy, belief, token
<1>5. ApplyUpdate(token, r) = after
  BY <1>2, <1>3, <1>4 DEF StateToken
<1> QED
  BY <1>1, <1>5 DEF token

LEMMA RestoreUndoes ==
    ASSUME NEW s \in AgentStates, NEW token \in StateToken
    PROVE  LearningState(Restore(s, token)) = token
  BY DEF AgentStates, StateToken, LearningState, Restore

\* A commit that begins remembers the participants exactly.
LEMMA BeginExact ==
    ASSUME TypeInv, NEW l \in LearnCalls, Preflight(l), pc'[l] \in WithTokens
    PROVE  /\ ExactAt(l)'
           /\ work'[l].stateToken = LearningState(state)
           /\ LedgerOpen(l)' /\ UNCHANGED <<state, ledger>>
           /\ OwnsModel => work'[l].expected = model.live
           /\ model'.live = model.live
<1>1. /\ l \in Calls /\ pc \in [Calls -> PcStates] /\ work \in [Calls -> Locals]
      /\ work[l] \in Locals /\ state.gen \in Nat /\ ledger.gen \in Nat /\ model \in Owners
  BY DEF TypeInv, TypeOK, Calls, AgentStates, Ledgers
<1>2. ~Goto(l, "abandon")
  BY <1>1 DEF Goto, WithTokens
<1>3. /\ PreflightAccepts(work[l])
      /\ work' = [work EXCEPT ![l].stateToken = LearningState(state),
                              ![l].ledgerToken = LedgerToken(ledger)]
      /\ model' = IF OwnsModel THEN Reserve(model, l) ELSE model
      /\ UNCHANGED <<state, ledger>>
  BY <1>2 DEF Preflight
<1>4. /\ work'[l].stateToken = LearningState(state)
      /\ work'[l].ledgerToken = LedgerToken(ledger)
      /\ work'[l].expected = work[l].expected
      /\ work'[l].receipt = work[l].receipt
      /\ work'[l].candidate = work[l].candidate
  BY <1>1, <1>3 DEF Locals
<1>5. work'[l].stateToken.gen = state.gen /\ work'[l].ledgerToken.gen = ledger.gen
  BY <1>4 DEF LearningState, LedgerToken
<1>6. ~StateDone(l)' /\ LedgerOpen(l)'
  BY <1>1, <1>3, <1>5 DEF StateDone, StateRollsBack, LedgerOpen, LedgerUntouched
<1>7. UpdateAccepts(work'[l].stateToken, work'[l].receipt)
  <2>1. UpdateAccepts(state, work[l].receipt)
    BY <1>3 DEF PreflightAccepts
  <2>2. UpdateAccepts(LearningState(state), work[l].receipt)
    BY <2>1 DEF UpdateAccepts, LearningState
  <2> QED
    BY <1>4, <2>2
<1>8. OwnsModel => /\ work'[l].candidate.payload # work'[l].expected.payload
                   /\ work'[l].expected = model.live
  BY <1>3, <1>4 DEF PreflightAccepts, SwapAccepts
<1>9. model'.live = model.live
  BY <1>1, <1>3 DEF Reserve, Owners
<1> QED
  BY <1>3, <1>4, <1>6, <1>7, <1>8, <1>9 DEF ExactAt

\* A stage or a rollback keeps the correspondence.
LEMMA StageExact ==
    ASSUME TypeInv, Compensable, Exact, NEW l \in LearnCalls, pc[l] \in WithTokens,
           \/ CommitLedger(l) \/ CommitState(l) \/ CommitModel(l)
           \/ RollbackModel(l) \/ RollbackState(l) \/ RollbackLedger(l)
    PROVE  ExactAt(l)'
<1>1. /\ l \in Calls /\ UNCHANGED work /\ work[l].receipt \in Receipt /\ state \in AgentStates
      /\ work[l].stateToken \in StateToken /\ work[l].stateToken.gen \in Nat
      /\ ExactAt(l) /\ CompensableAt(l)
  BY DEF TypeInv, TypeOK, Calls, Prepared, WithReceipt, StateToken, Exact, Compensable,
         CommitLedger, CommitState, CommitModel, RollbackModel, RollbackState, RollbackLedger
<1>2. CASE UNCHANGED state
  BY <1>1, <1>2 DEF ExactAt, StateOpen, StateDone
<1>3. CASE StateOpen(l) /\ state' = ApplyUpdate(state, work[l].receipt)
  <2>1. LearningState(state)' = ApplyUpdate(work[l].stateToken, work[l].receipt)
    BY <1>1, <1>3, ApplyCommutes DEF ExactAt, LearningState
  <2>2. ~StateOpen(l)'
    BY <1>1, <1>3, AppliedIsDone DEF StateOpen, StateUntouched
  <2> QED
    BY <1>1, <2>1, <2>2 DEF ExactAt
<1>4. CASE state' = Restore(state, work[l].stateToken)
  <2>1. LearningState(state)' = work[l].stateToken
    BY <1>1, <1>4, RestoreUndoes DEF LearningState
  <2>2. state'.gen = work[l].stateToken.gen
    BY <1>1, <1>4 DEF Restore, AgentStates
  <2>3. ~StateDone(l)'
    BY <1>1, <2>2 DEF StateDone, StateRollsBack
  <2> QED
    BY <1>1, <2>1, <2>3 DEF ExactAt
<1>5. CASE CommitState(l)
  BY <1>1, <1>2, <1>3, <1>5 DEF CommitState, CompensableAt
<1>6. CASE RollbackState(l)
  BY <1>2, <1>4, <1>6 DEF RollbackState
<1>7. CASE CommitLedger(l) \/ CommitModel(l) \/ RollbackModel(l) \/ RollbackLedger(l)
  BY <1>2, <1>7 DEF CommitLedger, CommitModel, RollbackModel, RollbackLedger
<1> QED
  BY <1>5, <1>6, <1>7

\* Among the steps of a learner, a commit begins with its preflight.
LEMMA Beginning ==
    ASSUME TypeInv, NEW l \in LearnCalls, Learn(l), pc'[l] \in WithTokens, pc[l] \notin WithTokens
    PROVE  Preflight(l)
<1>1. pc \in [Calls -> PcStates] /\ l \in Calls
  BY DEF TypeInv, TypeOK, Calls
<1>2. \A to \in {"snapshot", "readModel", "propose", "lockState", "lockLedger", "lockModel",
                 "preflight", "failed", "done", "broken"} : ~Goto(l, to)
  BY <1>1 DEF Goto, WithTokens
<1>3. ~Fail(l)
  BY <1>2 DEF Fail
<1>4. ~CheckInputs(l) /\ ~ReadModel(l) /\ ~Unlock(l)
  BY <1>2, <1>3 DEF CheckInputs, ReadModel, Unlock
<1>5. ~Propose(l)
  <2>1. ASSUME Propose(l) PROVE Goto(l, "lockState") \/ Goto(l, "failed")
    BY <2>1 DEF Propose, Fail
  <2> QED
    BY <1>2, <2>1
<1>6. ~TakeSnapshot(l)
  <2>1. ~Goto(l, IF OwnsModel THEN "readModel" ELSE "propose")
    BY <1>2
  <2> QED
    BY <1>3, <2>1 DEF TakeSnapshot
<1>7. ~LockState(l) /\ ~LockModel(l)
  BY <1>2 DEF LockState, LockModel, Acquire
<1>8. ~LockLedger(l)
  <2>1. ~Goto(l, IF OwnsModel THEN "lockModel" ELSE "preflight")
    BY <1>2
  <2> QED
    BY <2>1 DEF LockLedger, Acquire
<1>9. ~CommitLedger(l) /\ ~CommitState(l) /\ ~CommitModel(l)
      /\ ~RollbackModel(l) /\ ~RollbackState(l) /\ ~RollbackLedger(l)
  BY DEF CommitLedger, CommitState, CommitModel, RollbackModel, RollbackState, RollbackLedger,
         WithTokens
<1> QED
  BY <1>4, <1>5, <1>6, <1>7, <1>8, <1>9 DEF Learn

LEMMA Staging ==
    ASSUME NEW l \in LearnCalls, Learn(l), pc[l] \in WithTokens
    PROVE  \/ CommitLedger(l) \/ CommitState(l) \/ CommitModel(l)
           \/ RollbackModel(l) \/ RollbackState(l) \/ RollbackLedger(l)
  BY DEF Learn, CheckInputs, TakeSnapshot, ReadModel, Propose, LockState, LockLedger,
         LockModel, Preflight, Unlock, WithTokens

LEMMA ExactStep == TypeInv /\ LockInv /\ Compensable /\ Exact /\ [Next]_vars => Exact'
<1> SUFFICES ASSUME TypeInv, LockInv, Compensable, Exact, [Next]_vars,
                    NEW l \in LearnCalls, pc'[l] \in WithTokens
             PROVE  ExactAt(l)'
  BY DEF Exact
<1>1. l \in Calls /\ l \notin ObserveCalls
  BY CallsAssumption DEF Calls
<1>2. CASE Learn(l)
  BY <1>2, Beginning, BeginExact, Staging, StageExact
<1>3. ASSUME NEW c \in Calls, c # l,
             (c \in LearnCalls /\ Learn(c)) \/ (c \in ObserveCalls /\ Interact(c))
      PROVE  ExactAt(l)'
  <2>1. pc'[l] = pc[l] /\ work'[l] = work[l]
    BY <1>1, <1>3, OwnStep
  <2>2. UNCHANGED state
    BY <1>3, <2>1, Undisturbed
  <2> QED
    BY <2>1, <2>2 DEF Exact, ExactAt, StateOpen, StateDone
<1>4. CASE UNCHANGED vars
  BY <1>4 DEF vars, Exact, ExactAt, StateOpen, StateDone
<1> QED
  BY <1>1, <1>2, <1>3, <1>4, Actor

LEMMA ViewHolds == Spec => []ViewInv
<1>1. Init => Drafted /\ Exact
  <2> SUFFICES ASSUME Init PROVE Drafted /\ Exact
    OBVIOUS
  <2>1. \A l \in LearnCalls : pc[l] = "inputs" /\ work[l].receipt = NoReceipt
    BY DEF Init, Calls, NoWork
  <2> QED
    BY <2>1, NoneAssumption DEF Drafted, Exact, WithTokens
<1>2. CustodyInv /\ AgreeInv /\ Drafted /\ Exact /\ [Next]_vars => (Drafted /\ Exact)'
  BY DraftedStep, ExactStep DEF CustodyInv
<1> QED
  BY <1>1, <1>2, AgreementHolds, PTL DEF Spec, ViewInv

-----------------------------------------------------------------------------
(* Every step, as the rest of the system sees it.                          *)

\* The calls whose whole transition is in place.
Published == {l \in LearnCalls : pc[l] \in {"publish", "done"}}

Still == UNCHANGED <<Learned, Stored, Live, Published>>

\* The step by which the transition of a learner becomes visible.
CommittedBy(l) ==
    /\ pc[l] \in WithTokens /\ UNCHANGED <<work, ledger>>
    /\ Learned = View(work[l].stateToken)
    /\ Learned' = View(ApplyUpdate(work[l].stateToken, work[l].receipt))
    /\ Stored' = Append(Stored, work[l].receipt)
    /\ OwnsModel => Live = work[l].expected /\ Live' = work[l].candidate
    /\ ~OwnsModel => Live' = Live
    /\ Published' = Published \cup {l}

Ticked == \E at \in Ticks :
    /\ at >= Learned.lastTime
    /\ Learned' = [Learned EXCEPT !.lastTime = at]
    /\ UNCHANGED <<Stored, Live, Published>>

AssimilatedBy(o) ==
    /\ pc[o] = "assimilate" /\ UNCHANGED <<work, ledger>>
    /\ work[o].source.prior = Learned.belief.id
    /\ work[o].source.posterior.formed >= Learned.lastTime
    /\ Learned' = [Learned EXCEPT !.belief = work[o].source.posterior,
                                  !.lastTime = work[o].source.posterior.formed]
    /\ UNCHANGED <<Stored, Live, Published>>

\* Appending to a sequence and taking the last element off again.
LEMMA AppendBack ==
    ASSUME NEW u \in Seq(Receipt), u # <<>>
    PROVE  u = Append(SubSeq(u, 1, Len(u) - 1), u[Len(u)])
  OBVIOUS

\* What a finished transition leaves behind is what its receipt says.
LEMMA CommitIsSeen ==
    ASSUME ViewInv, NEW l \in LearnCalls, pc[l] \in WithTokens,
           UNCHANGED <<work, ledger>>, Quiet', LedgerDone(l),
           LearningState(state)' = ApplyUpdate(work[l].stateToken, work[l].receipt),
           OwnsModel => model'.live = work[l].candidate, ~OwnsModel => UNCHANGED model,
           Published' = Published \cup {l}
    PROVE  CommittedBy(l)
<1>1. /\ LockInv /\ ledger.updates \in Seq(Receipt) /\ work[l].receipt \in Receipt
      /\ work[l].ledgerToken.gen \in Nat /\ ledger.gen \in Nat
  BY DEF ViewInv, CustodyInv, TypeInv, TypeOK, Ledgers, Prepared, WithReceipt, LedgerTokens
<1>2. /\ Learned = View(work[l].stateToken)
      /\ Stored = StoredAt(l)
      /\ Live = IF OwnsModel THEN work[l].expected ELSE model.live
  BY <1>1, CommitView
<1>3. Learned' = View(state)' /\ Stored' = ledger.updates /\ Live' = model'.live
  BY QuietView DEF Learned, Stored, Live, View, LearningState
<1>4. View(state)' = View(LearningState(state)')
  BY DEF View, LearningState
<1>5. Stored = SubSeq(ledger.updates, 1, Len(ledger.updates) - 1)
  BY <1>1, <1>2 DEF StoredAt, LedgerOpen, LedgerUntouched, LedgerDone, LedgerRollsBack
<1>6. ledger.updates = Append(Stored, work[l].receipt)
  BY <1>1, <1>5, AppendBack DEF LedgerDone, LedgerRollsBack
<1> QED
  BY <1>2, <1>3, <1>4, <1>6 DEF CommittedBy

\* Inside a commit, and where one is given up, nothing is seen.
LEMMA CommitUnseen ==
    ASSUME LockInv, LockInv', NEW l \in LearnCalls, pc[l] \in WithTokens, UNCHANGED work,
           StoredAt(l)' = StoredAt(l), ~OwnsModel => UNCHANGED model,
           \/ pc'[l] \in WithTokens
           \/ /\ Quiet' /\ LearningState(state)' = work[l].stateToken
              /\ ledger'.updates = StoredAt(l)
              /\ OwnsModel => model'.live = work[l].expected,
           Published' = Published
    PROVE  Still
<1>1. /\ Learned = View(work[l].stateToken)
      /\ Stored = StoredAt(l)
      /\ Live = IF OwnsModel THEN work[l].expected ELSE model.live
  BY CommitView
<1>2. CASE pc'[l] \in WithTokens
  <2>1. /\ Learned' = View(work[l].stateToken)'
        /\ Stored' = StoredAt(l)'
        /\ Live' = (IF OwnsModel THEN work[l].expected ELSE model.live)'
    BY <1>2, CommitViewNext
  <2> QED
    BY <1>1, <2>1 DEF Still, View
<1>3. CASE pc'[l] \notin WithTokens
  <2>1. Learned' = View(state)' /\ Stored' = ledger'.updates /\ Live' = model'.live
    BY <1>3, QuietView DEF Learned, Stored, Live, View, LearningState
  <2>2. View(state)' = View(LearningState(state)')
    BY DEF View, LearningState
  <2> QED
    BY <1>1, <1>3, <2>1, <2>2 DEF Still
<1> QED
  BY <1>2, <1>3

\* A published call stays published and keeps its record; a call is published by the
\* last stage of its commit.
LEMMA PublishedStep ==
    ASSUME TypeInv, NEW c \in Calls,
           (c \in LearnCalls /\ Learn(c)) \/ (c \in ObserveCalls /\ Interact(c))
    PROVE  /\ \A l \in Published : l \in Published' /\ work'[l] = work[l]
           /\ Published' = IF c \in LearnCalls /\ pc'[c] = "publish"
                           THEN Published \cup {c} ELSE Published
<1>1. /\ pc \in [Calls -> PcStates] /\ LearnCalls \subseteq Calls
      /\ LearnCalls \cap ObserveCalls = {}
  BY CallsAssumption DEF TypeInv, TypeOK, Calls
<1>2. \A l \in LearnCalls : l # c => pc'[l] = pc[l] /\ work'[l] = work[l]
  BY <1>1, OwnStep
<1>3. CASE c \in ObserveCalls
  BY <1>1, <1>2, <1>3 DEF Published
<1>4. CASE c \in LearnCalls /\ Unlock(c)
  <2>1. CASE pc[c] = "publish"
    BY <1>1, <1>2, <1>4, <2>1 DEF Published, Unlock, Goto
  <2>2. CASE pc[c] # "publish"
    <3>1. pc[c] \in {"abandon", "torn"} /\ pc'[c] \in {"failed", "broken"}
      BY <1>1, <1>4, <2>2 DEF Unlock, Fail, Goto
    <3> QED
      BY <1>2, <1>4, <3>1 DEF Published
  <2> QED
    BY <2>1, <2>2
<1>5. CASE c \in LearnCalls /\ ~Unlock(c)
  <2>1. Learn(c)
    BY <1>1, <1>5
  <2>2. pc[c] \notin {"publish", "done"}
    BY <1>5, <2>1 DEF Learn, CheckInputs, TakeSnapshot, ReadModel, Propose, LockState, LockLedger,
                      LockModel, Preflight, CommitLedger, CommitState, CommitModel,
                      RollbackModel, RollbackState, RollbackLedger
  <2>3. pc'[c] # "done"
    <3>1. PICK to \in PcStates \ {"done"} : Goto(c, to)
      <4> USE DEF PcStates, Terminal
      <4>1. CASE CheckInputs(c) \/ ReadModel(c) \/ Preflight(c) \/ LockState(c) \/ LockModel(c)
        BY <4>1 DEF CheckInputs, ReadModel, Preflight, LockState, LockModel, Acquire, Fail
      <4>2. CASE TakeSnapshot(c)
        <5>1. Goto(c, IF OwnsModel THEN "readModel" ELSE "propose") \/ Goto(c, "failed")
          BY <4>2 DEF TakeSnapshot, Fail
        <5> QED
          BY <5>1
      <4>3. CASE Propose(c)
        <5>1. Goto(c, "lockState") \/ Goto(c, "failed")
          BY <4>3 DEF Propose, Fail
        <5> QED
          BY <5>1
      <4>4. CASE LockLedger(c)
        <5>1. Goto(c, IF OwnsModel THEN "lockModel" ELSE "preflight")
          BY <4>4 DEF LockLedger, Acquire
        <5> QED
          BY <5>1
      <4>5. CASE CommitLedger(c) \/ CommitState(c) \/ CommitModel(c)
        <5>1. \/ Goto(c, "commitState") \/ Goto(c, AfterState) \/ Goto(c, FirstRollback)
              \/ Goto(c, "publish")
          BY <4>5 DEF CommitLedger, CommitState, CommitModel
        <5> QED
          BY <5>1 DEF AfterState, FirstRollback
      <4>6. CASE RollbackModel(c) \/ RollbackState(c) \/ RollbackLedger(c)
        BY <4>6 DEF RollbackModel, RollbackState, RollbackLedger
      <4> QED
        BY <1>5, <2>1, <4>1, <4>2, <4>3, <4>4, <4>5, <4>6 DEF Learn
    <3> QED
      BY <1>1, <3>1 DEF Goto
  <2> QED
    BY <1>2, <1>5, <2>2, <2>3 DEF Published
<1> QED
  BY <1>3, <1>4, <1>5

\* The commit of a call, seen from outside: nothing happens, or all of it.
LEMMA StageView ==
    ASSUME ViewInv, LockInv', NEW l \in LearnCalls, Learn(l), pc[l] \in WithTokens
    PROVE  Still \/ CommittedBy(l)
<1>1. /\ l \in Calls /\ pc \in [Calls -> PcStates] /\ LockInv /\ TypeInv
      /\ work[l].receipt \in Receipt /\ state \in AgentStates /\ ledger \in Ledgers
      /\ work[l].stateToken \in StateToken
      /\ model \in Owners /\ work[l].ledgerToken.gen \in Nat
      /\ ExactAt(l) /\ CompensableAt(l) /\ AgreementAt(l) /\ Unreserved
  BY DEF ViewInv, CustodyInv, AgreeInv, Remembered, Exact, Compensable, TypeInv, TypeOK, Calls,
         Prepared, WithReceipt, LedgerTokens
<1>2. /\ \/ CommitLedger(l) \/ CommitState(l) \/ CommitModel(l)
         \/ RollbackModel(l) \/ RollbackState(l) \/ RollbackLedger(l)
      /\ UNCHANGED work
  BY Staging DEF CommitLedger, CommitState, CommitModel, RollbackModel, RollbackState, RollbackLedger
<1>3. /\ \A k \in LearnCalls : k # l => pc'[k] = pc[k] /\ pc[k] \notin WithTokens
      /\ pc'[l] \notin WithTokens => Quiet'
  <2>1. \A k \in LearnCalls : k # l => pc[k] \notin WithTokens
    BY <1>1, OneCommitter DEF HoldsState, HoldsLedger, HoldsModel
  <2>2. \A k \in LearnCalls : k # l => pc'[k] = pc[k]
    BY <1>1, OwnStep DEF Calls
  <2> QED
    BY <2>1, <2>2 DEF Quiet, Committing, WithTokens
<1>4. Published' = IF pc'[l] = "publish" THEN Published \cup {l} ELSE Published
  BY <1>1, PublishedStep
<1>6. CASE CommitLedger(l)
  <2>1. /\ LedgerOpen(l) /\ UNCHANGED <<state, model>>
        /\ Goto(l, "commitState") \/ Goto(l, FirstRollback)
    BY <1>1, <1>6 DEF CommitLedger, CompensableAt
  <2>2. pc'[l] \in WithTokens
    BY <1>1, <2>1 DEF Goto, FirstRollback, WithTokens
  <2>3. StoredAt(l)' = StoredAt(l)
    <3>1. CASE UNCHANGED ledger
      BY <1>2, <3>1 DEF StoredAt, LedgerOpen
    <3>2. CASE ledger' = AppendReceipt(ledger, work[l].receipt)
      <4>1. ledger.updates \in Seq(Receipt) /\ ledger.gen \in Nat
            /\ ledger'.updates = Append(ledger.updates, work[l].receipt)
            /\ ledger'.gen = ledger.gen + 1
        BY <1>1, <3>2 DEF Ledgers, AppendReceipt
      <4>2. SubSeq(ledger'.updates, 1, Len(ledger'.updates) - 1) = ledger.updates
        BY <1>1, <4>1, AppendedIsRemoved
      <4>3. ~LedgerOpen(l)'
        BY <1>2, <2>1, <4>1 DEF LedgerOpen, LedgerUntouched
      <4> QED
        BY <2>1, <4>2, <4>3 DEF StoredAt
    <3> QED
      BY <1>6, <3>1, <3>2 DEF CommitLedger
  <2>4. pc'[l] # "publish"
    BY <2>2 DEF WithTokens
  <2> QED
    BY <1>1, <1>2, <1>4, <2>1, <2>2, <2>3, <2>4, CommitUnseen
<1>7. CASE CommitState(l)
  <2>1. LedgerDone(l) /\ StateOpen(l) /\ UNCHANGED <<ledger, model>>
    BY <1>1, <1>7 DEF CommitState, CompensableAt
  <2>2. StoredAt(l)' = StoredAt(l)
    BY <1>2, <2>1 DEF StoredAt, LedgerOpen
  <2>3. CASE pc'[l] \in WithTokens
    <3>1. pc'[l] # "publish"
      BY <2>3 DEF WithTokens
    <3> QED
      BY <1>1, <1>2, <1>4, <2>1, <2>2, <2>3, <3>1, CommitUnseen
  <2>4. CASE pc'[l] \notin WithTokens
    <3>1. ~Goto(l, FirstRollback)
      BY <1>1, <2>4 DEF Goto, FirstRollback, WithTokens
    <3>2. state' = ApplyUpdate(state, work[l].receipt) /\ Goto(l, AfterState)
      BY <1>7, <3>1 DEF CommitState
    <3>3. ~OwnsModel /\ pc'[l] = "publish"
      BY <1>1, <2>4, <3>2 DEF Goto, AfterState, WithTokens
    <3>4. LearningState(state)' = ApplyUpdate(work[l].stateToken, work[l].receipt)
      BY <1>1, <2>1, <3>2, ApplyCommutes DEF ExactAt, LearningState
    <3> QED
      BY <1>2, <1>3, <1>4, <2>1, <2>4, <3>3, <3>4, CommitIsSeen
  <2> QED
    BY <2>3, <2>4
<1>8. CASE CommitModel(l)
  <2>1. LedgerDone(l) /\ StateDone(l) /\ OwnsModel /\ UNCHANGED <<ledger, state>>
    BY <1>1, <1>8 DEF CommitModel, CompensableAt, LockInv
  <2>2. StoredAt(l)' = StoredAt(l)
    BY <1>2, <2>1 DEF StoredAt, LedgerOpen
  <2>3. CASE pc'[l] \in WithTokens
    <3>1. pc'[l] # "publish"
      BY <2>3 DEF WithTokens
    <3> QED
      BY <1>1, <1>2, <1>4, <2>1, <2>2, <2>3, <3>1, CommitUnseen
  <2>4. CASE pc'[l] \notin WithTokens
    <3>1. ~Goto(l, FirstRollback)
      BY <1>1, <2>4 DEF Goto, FirstRollback, WithTokens
    <3>2. model' = CommitSwap(model, work[l].candidate) /\ Goto(l, "publish")
      BY <1>8, <3>1 DEF CommitModel
    <3>3. model'.live = work[l].candidate /\ pc'[l] = "publish"
      BY <1>1, <3>2 DEF Goto, CommitSwap, Owners
    <3>4. LearningState(state)' = ApplyUpdate(work[l].stateToken, work[l].receipt)
      BY <1>1, <2>1 DEF ExactAt, LearningState
    <3> QED
      BY <1>2, <1>3, <1>4, <2>1, <2>4, <3>3, <3>4, CommitIsSeen
  <2> QED
    BY <2>3, <2>4
<1>9. CASE RollbackModel(l)
  <2>1. Goto(l, "rollbackState") /\ OwnsModel /\ UNCHANGED <<ledger, state>>
    BY <1>1, <1>9 DEF RollbackModel, CompensableAt, LockInv
  <2>2. pc'[l] = "rollbackState" /\ StoredAt(l)' = StoredAt(l)
    BY <1>1, <1>2, <2>1 DEF Goto, StoredAt, LedgerOpen
  <2>3. pc'[l] \in WithTokens /\ pc'[l] # "publish"
    BY <2>2 DEF WithTokens
  <2> QED
    BY <1>1, <1>2, <1>4, <2>1, <2>2, <2>3, CommitUnseen
<1>10. CASE RollbackState(l)
  <2>1. Goto(l, "rollbackLedger") /\ UNCHANGED <<ledger, model>>
    BY <1>1, <1>10 DEF RollbackState, CompensableAt, StateOpen, StateDone
  <2>2. pc'[l] = "rollbackLedger" /\ StoredAt(l)' = StoredAt(l)
    BY <1>1, <1>2, <2>1 DEF Goto, StoredAt, LedgerOpen
  <2>3. pc'[l] \in WithTokens /\ pc'[l] # "publish"
    BY <2>2 DEF WithTokens
  <2> QED
    BY <1>1, <1>2, <1>4, <2>1, <2>2, <2>3, CommitUnseen
<1>11. CASE RollbackLedger(l)
  <2>1. /\ pc[l] = "rollbackLedger" /\ Goto(l, "abandon") /\ UNCHANGED <<state, model>>
        /\ StateOpen(l)
        /\ \/ LedgerOpen(l) /\ UNCHANGED ledger
           \/ LedgerDone(l) /\ ledger' = RemoveReceipt(ledger, work[l].ledgerToken)
    BY <1>1, <1>11 DEF RollbackLedger, CompensableAt, AgreementAt, LedgerOpen, LedgerDone
  <2>2. pc'[l] = "abandon"
    BY <1>1, <2>1 DEF Goto
  <2>3. ledger'.updates = StoredAt(l) /\ StoredAt(l)' = StoredAt(l)
    <3>1. CASE LedgerOpen(l) /\ UNCHANGED ledger
      BY <1>2, <3>1 DEF StoredAt, LedgerOpen
    <3>2. CASE LedgerDone(l) /\ ledger' = RemoveReceipt(ledger, work[l].ledgerToken)
      <4>1. /\ ledger'.updates = SubSeq(ledger.updates, 1, Len(ledger.updates) - 1)
            /\ ledger'.gen = work[l].ledgerToken.gen
        BY <1>1, <3>2 DEF RemoveReceipt, Ledgers
      <4>2. ~LedgerOpen(l) /\ LedgerOpen(l)'
        BY <1>1, <1>2, <3>2, <4>1 DEF LedgerOpen, LedgerUntouched, LedgerDone, LedgerRollsBack
      <4> QED
        BY <4>1, <4>2 DEF StoredAt
    <3> QED
      BY <2>1, <3>1, <3>2
  <2>4. LearningState(state)' = work[l].stateToken
    BY <1>1, <2>1 DEF ExactAt, LearningState
  <2>5. OwnsModel => model'.live = work[l].expected
    BY <1>1, <2>1 DEF AgreementAt
  <2>6. Quiet' /\ pc'[l] # "publish"
    BY <1>3, <2>2 DEF WithTokens
  <2> QED
    BY <1>1, <1>2, <1>4, <2>1, <2>3, <2>4, <2>5, <2>6, CommitUnseen
<1> QED
  BY <1>2, <1>6, <1>7, <1>8, <1>9, <1>10, <1>11

\* A step of anybody else while a call commits is not seen.
LEMMA BesideCommit ==
    ASSUME TypeInv, LockInv, LockInv', NEW l \in LearnCalls, pc[l] \in WithTokens,
           NEW c \in Calls, c # l,
           (c \in LearnCalls /\ Learn(c)) \/ (c \in ObserveCalls /\ Interact(c))
    PROVE  Still
<1>1. l \in Calls /\ pc'[l] = pc[l] /\ work'[l] = work[l]
  BY OwnStep DEF Calls
<1>2. UNCHANGED <<state, ledger>> /\ (OwnsModel => UNCHANGED model)
  BY Undisturbed
<1>3. c \in LearnCalls => pc[c] \notin HoldsState /\ pc'[c] \notin HoldsState
  BY <1>1 DEF LockInv, HoldsState, HoldsLedger, HoldsModel
<1>4. UNCHANGED model
  BY <1>3, OutsideKeeps DEF HoldsState, HoldsLedger, HoldsModel
<1>5. /\ Learned = View(work[l].stateToken)
      /\ Stored = StoredAt(l)
      /\ Live = IF OwnsModel THEN work[l].expected ELSE model.live
  BY CommitView
<1>6. /\ Learned' = View(work'[l].stateToken)
      /\ Stored' = StoredAt(l)'
      /\ Live' = IF OwnsModel THEN work'[l].expected ELSE model'.live
  BY <1>1, CommitViewNext
<1>7. StoredAt(l)' = StoredAt(l)
  BY <1>1, <1>2 DEF StoredAt, LedgerOpen
<1>8. Published' = Published
  BY <1>3, PublishedStep DEF HoldsState, HoldsLedger, HoldsModel
<1> QED
  BY <1>1, <1>4, <1>5, <1>6, <1>7, <1>8 DEF Still

\* A learner's step outside its commit is not seen, and neither is the beginning of one.
LEMMA LearnerView ==
    ASSUME TypeInv, LockInv', Quiet, NEW l \in LearnCalls, Learn(l)
    PROVE  Still
<1>1. /\ \A k \in LearnCalls : pc[k] \notin WithTokens
      /\ \A k \in LearnCalls : k # l => pc'[k] = pc[k]
      /\ l \in Calls /\ pc \in [Calls -> PcStates]
  BY QuietOrCommitting, OwnStep DEF Calls, TypeInv, TypeOK
<1>2. ~CommitLedger(l) /\ ~CommitState(l) /\ ~CommitModel(l)
      /\ ~RollbackModel(l) /\ ~RollbackState(l) /\ ~RollbackLedger(l)
  BY <1>1 DEF CommitLedger, CommitState, CommitModel, RollbackModel, RollbackState,
              RollbackLedger, WithTokens
<1>3. UNCHANGED <<state, ledger>>
  BY <1>2 DEF Learn, CheckInputs, TakeSnapshot, ReadModel, Propose, LockState, LockLedger,
              LockModel, Acquire, Preflight, Unlock
<1>4. Learned = View(state) /\ Stored = ledger.updates /\ Live = model.live
  BY QuietView
<1>5. CASE pc'[l] \in WithTokens
  <2>1. Preflight(l)
    BY <1>1, <1>5, Beginning
  <2>2. /\ work'[l].stateToken = LearningState(state) /\ LedgerOpen(l)'
        /\ OwnsModel => work'[l].expected = model.live
        /\ model'.live = model.live
    BY <1>5, <2>1, BeginExact
  <2>3. /\ Learned' = View(work'[l].stateToken)
        /\ Stored' = StoredAt(l)'
        /\ Live' = IF OwnsModel THEN work'[l].expected ELSE model'.live
    BY <1>5, CommitViewNext
  <2>4. View(LearningState(state)) = View(state)
    BY DEF View, LearningState
  <2>5. StoredAt(l)' = ledger.updates
    BY <1>3, <2>2 DEF StoredAt
  <2>6. Published' = Published
    BY <1>1, <1>5, PublishedStep DEF WithTokens
  <2> QED
    BY <1>4, <2>2, <2>3, <2>4, <2>5, <2>6 DEF Still
<1>6. CASE pc'[l] \notin WithTokens
  <2>1. Quiet'
    BY <1>1, <1>6 DEF Quiet, Committing, WithTokens
  <2>2. UNCHANGED model
    BY <1>1, <1>6, OutsideKeeps
  <2>3. Learned' = View(state)' /\ Stored' = ledger'.updates /\ Live' = model'.live
    BY <2>1 DEF Learned, Stored, Live, View, LearningState
  <2>4. pc'[l] # "publish"
    <3>1. \A to \in {"snapshot", "readModel", "propose", "lockLedger", "lockModel", "lockState",
                     "preflight", "commitLedger", "abandon", "failed", "done", "broken"} :
            Goto(l, to) => pc'[l] # "publish"
      BY <1>1 DEF Goto
    <3>2. CASE CheckInputs(l) \/ ReadModel(l) \/ LockState(l) \/ LockModel(l) \/ Preflight(l)
               \/ Unlock(l)
      BY <3>1, <3>2 DEF CheckInputs, ReadModel, LockState, LockModel, Preflight, Unlock, Acquire, Fail
    <3>3. CASE TakeSnapshot(l)
      <4>1. Goto(l, IF OwnsModel THEN "readModel" ELSE "propose") \/ Goto(l, "failed")
        BY <3>3 DEF TakeSnapshot, Fail
      <4> QED
        BY <3>1, <4>1
    <3>4. CASE Propose(l)
      <4>1. Goto(l, "lockState") \/ Goto(l, "failed")
        BY <3>4 DEF Propose, Fail
      <4> QED
        BY <3>1, <4>1
    <3>5. CASE LockLedger(l)
      <4>1. Goto(l, IF OwnsModel THEN "lockModel" ELSE "preflight")
        BY <3>5 DEF LockLedger, Acquire
      <4> QED
        BY <3>1, <4>1
    <3> QED
      BY <1>2, <3>2, <3>3, <3>4, <3>5 DEF Learn
  <2>5. Published' = Published
    BY <1>1, <2>4, PublishedStep
  <2> QED
    BY <1>3, <1>4, <2>2, <2>3, <2>5 DEF Still, View
<1> QED
  BY <1>5, <1>6

Views == [belief : Belief, model : Versions, policy : Policies,
          latest : Receipt \cup {NoReceipt}, lastTime : Ticks]

\* Replacing the belief of a view and its time.
LEMMA BeliefReplaced ==
    ASSUME NEW v \in Views, NEW b \in Belief, NEW at \in Ticks
    PROVE  [v EXCEPT !.belief = b, !.lastTime = at]
             = [belief |-> b, model |-> v.model, policy |-> v.policy,
                latest |-> v.latest, lastTime |-> at]
<1> DEFINE e == [v EXCEPT !.belief = b, !.lastTime = at]
<1>1. /\ e \in Views /\ e.belief = b /\ e.model = v.model /\ e.policy = v.policy
      /\ e.latest = v.latest /\ e.lastTime = at
  BY DEF Views
<1> HIDE DEF e
<1>2. e = [belief |-> b, model |-> v.model, policy |-> v.policy,
           latest |-> v.latest, lastTime |-> at]
  BY <1>1 DEF Views
<1> QED
  BY <1>2 DEF e

\* An observer adds a belief, moves the time, or is not seen.
LEMMA ObserverView ==
    ASSUME TypeInv, Quiet, NEW o \in ObserveCalls, Interact(o)
    PROVE  Still \/ Ticked \/ AssimilatedBy(o)
<1>1. /\ o \in Calls /\ o \notin LearnCalls /\ pc \in [Calls -> PcStates]
      /\ state \in AgentStates /\ work[o] \in Locals
  BY CallsAssumption DEF Calls, TypeInv, TypeOK
<1>2. Published' = Published /\ Quiet'
  <2>1. \A l \in LearnCalls : pc'[l] = pc[l]
    BY <1>1, OwnStep DEF Calls
  <2> QED
    BY <2>1 DEF Published, Quiet, Committing
<1>3. UNCHANGED model /\ ledger'.updates = ledger.updates
  BY <1>1, OutsideKeeps
<1>4. Learned = View(state) /\ Stored = ledger.updates /\ Live = model.live
  BY QuietView
<1>5. Learned' = View(state)' /\ Stored' = ledger'.updates /\ Live' = model'.live
  BY <1>2 DEF Learned, Stored, Live, View, LearningState
<1>6. UNCHANGED <<Stored, Live, Published>>
  BY <1>2, <1>3, <1>4, <1>5
<1>7. CASE View(state)' = View(state)
  BY <1>4, <1>5, <1>6, <1>7 DEF Still
<1>8. ASSUME NEW at \in Ticks, at >= state.lastTime,
             View(state)' = [View(state) EXCEPT !.lastTime = at]
      PROVE  Ticked
  BY <1>4, <1>5, <1>6, <1>8 DEF Ticked, View
<1>9. CASE UNCHANGED state
  BY <1>7, <1>9 DEF View
<1>10. CASE DecideSnapshot(o) \/ StoreTransition(o)
  BY <1>9, <1>10 DEF DecideSnapshot, StoreTransition
<1>11. CASE RegisterDecision(o)
  <2>1. CASE UNCHANGED state
    BY <1>9, <2>1
  <2>2. CASE RegisterAccepts(state, Decision(o)) /\ state' = Register(state, Decision(o))
    <3>1. work[o].at \in Ticks /\ work[o].at >= state.lastTime
      BY <1>1, <2>2 DEF RegisterAccepts, Decision, Locals
    <3>2. View(state)' = [View(state) EXCEPT !.lastTime = work[o].at]
      BY <1>1, <2>2 DEF Register, Decision, View, AgentStates
    <3> QED
      BY <1>8, <3>1, <3>2
  <2> QED
    BY <1>11, <2>1, <2>2 DEF RegisterDecision, StateStep
<1>12. CASE ConsumeDecision(o)
  <2>1. CASE state' = Consume(state, Decision(o))
    <3>1. View(state)' = View(state)
      BY <1>1, <2>1 DEF Consume, View, AgentStates
    <3> QED
      BY <1>7, <3>1
  <2> QED
    BY <1>9, <1>12, <2>1 DEF ConsumeDecision, StateStep
<1>13. CASE AssimilateBelief(o)
  <2>1. CASE UNCHANGED state
    BY <1>9, <2>1
  <2>2. CASE /\ AssimilateAccepts(state, work[o].source)
             /\ state' = Assimilate(state, work[o].source)
             /\ UNCHANGED work
    <3>1. pc[o] = "assimilate" /\ UNCHANGED ledger
      BY <1>13 DEF AssimilateBelief, StateStep
    <3>2. View(state)' = [View(state) EXCEPT !.belief = work[o].source.posterior,
                                             !.lastTime = work[o].source.posterior.formed]
      <4>1. /\ state'.belief = work[o].source.posterior
            /\ state'.lastTime = work[o].source.posterior.formed
            /\ state'.model = state.model /\ state'.policy = state.policy
            /\ state'.latest = state.latest
        BY <1>1, <2>2 DEF Assimilate, AgentStates
      <4>2. /\ View(state) \in Views /\ work[o].source.posterior \in Belief
            /\ work[o].source.posterior.formed \in Ticks
        BY <1>1 DEF AgentStates, Locals, Transition, Belief, View, Views
      <4>3. /\ View(state).model = state.model /\ View(state).policy = state.policy
            /\ View(state).latest = state.latest
        BY DEF View
      <4>4. View(state)' = [belief |-> work[o].source.posterior, model |-> state.model,
                            policy |-> state.policy, latest |-> state.latest,
                            lastTime |-> work[o].source.posterior.formed]
        BY <4>1 DEF View
      <4>5. [View(state) EXCEPT !.belief = work[o].source.posterior,
                                !.lastTime = work[o].source.posterior.formed]
              = [belief |-> work[o].source.posterior, model |-> View(state).model,
                 policy |-> View(state).policy, latest |-> View(state).latest,
                 lastTime |-> work[o].source.posterior.formed]
        BY <4>2, BeliefReplaced, Zenon
      <4> QED
        BY <4>3, <4>4, <4>5
    <3> QED
      <4>1. /\ work[o].source.prior = Learned.belief.id
            /\ work[o].source.posterior.formed >= Learned.lastTime
        BY <1>4, <2>2 DEF AssimilateAccepts, View
      <4>2. Learned' = [Learned EXCEPT !.belief = work[o].source.posterior,
                                       !.lastTime = work[o].source.posterior.formed]
        BY <1>4, <1>5, <3>2
      <4> QED
        BY <1>6, <2>2, <3>1, <4>1, <4>2 DEF AssimilatedBy
  <2> QED
    BY <1>13, <2>1, <2>2 DEF AssimilateBelief, StateStep
<1>14. CASE CountStep(o)
  <2>1. CASE UNCHANGED state
    BY <1>9, <2>1
  <2>2. CASE /\ AddResourceAccepts(state, work[o].source.at)
             /\ state' = AddResource(state, work[o].source.at)
    <3>1. work[o].source.at \in Ticks /\ work[o].source.at >= state.lastTime
      BY <1>1, <2>2 DEF AddResourceAccepts, Locals, Transition
    <3>2. View(state)' = [View(state) EXCEPT !.lastTime = work[o].source.at]
      BY <1>1, <2>2 DEF AddResource, View, AgentStates
    <3> QED
      BY <1>8, <3>1, <3>2
  <2> QED
    BY <1>14, <2>1, <2>2 DEF CountStep, StateStep
<1> QED
  BY <1>10, <1>11, <1>12, <1>13, <1>14 DEF Interact

\* All that can be seen of a step.
LEMMA StepView ==
    ASSUME ViewInv, LockInv', [Next]_vars
    PROVE  \/ Still \/ Ticked
           \/ \E l \in LearnCalls : CommittedBy(l)
           \/ \E o \in ObserveCalls : Interact(o) /\ AssimilatedBy(o)
<1>1. TypeInv /\ LockInv
  BY DEF ViewInv, CustodyInv
<1>2. CASE UNCHANGED vars
  BY <1>2 DEF vars, Still, Learned, Stored, Live, Published, Quiet, Committing, Committer,
              LearningState
<1>3. ASSUME NEW c \in Calls,
             (c \in LearnCalls /\ Learn(c)) \/ (c \in ObserveCalls /\ Interact(c))
      PROVE  \/ Still \/ Ticked
             \/ \E l \in LearnCalls : CommittedBy(l)
             \/ \E o \in ObserveCalls : Interact(o) /\ AssimilatedBy(o)
  <2>1. CASE Quiet
    BY <1>1, <1>3, <2>1, LearnerView, ObserverView
  <2>2. CASE ~Quiet
    <3>1. PICK l \in LearnCalls : pc[l] \in WithTokens
      BY <2>2, QuietOrCommitting
    <3>2. CASE c = l
      <4>1. Learn(l)
        BY <1>3, <3>2, CallsAssumption
      <4> QED
        BY <3>1, <4>1, StageView
    <3>3. CASE c # l
      BY <1>1, <1>3, <3>1, <3>3, BesideCommit
    <3> QED
      BY <3>2, <3>3
  <2> QED
    BY <2>1, <2>2
<1> QED
  BY <1>2, <1>3, Actor

-----------------------------------------------------------------------------
(* What beliefs rest on.                                                   *)

Entries == EntriesOf(ledger.transitions)
Ids == IdsOf(ledger.transitions)

\* Every belief in use is the posterior of a stored transition or the result of a
\* published call.
Resulted == {l \in Published : work[l].receipt.resulting # NoBelief}
Known == {t.posterior : t \in Entries} \cup {work[l].receipt.resulting : l \in Resulted}

TransitionsInv ==
    /\ InitTransition \in Entries
    /\ \A t, u \in Entries : t.id = u.id => t = u
    /\ \A t \in Entries : t.posterior.id = t.id /\ t.posterior.evidence \subseteq Ids

SourcesInv == \A c \in Calls : work[c].source \in Entries /\ work[c].belief \in Known

ReceiptsInv ==
    \A l \in LearnCalls :
      /\ l \in Published => work[l].receipt \in Receipt
      /\ work[l].receipt \in Receipt /\ work[l].receipt.resulting # NoBelief =>
           work[l].receipt.resulting.evidence \subseteq Ids

\* A stored transition adds at most one observation to the belief its observer decided on,
\* and is not named after an evidence of it.
Extends(posterior, prior, o) ==
    /\ prior.evidence \subseteq posterior.evidence
    /\ posterior.evidence \subseteq prior.evidence \cup {o}

ObserverInv ==
    \A o \in ObserveCalls :
      /\ pc[o] \in {"register", "consume", "append", "assimilate"} =>
           work[o].belief.formed <= work[o].at
      /\ pc[o] = "assimilate" =>
           /\ work[o].source.prior = work[o].belief.id
           /\ work[o].source.posterior.id = o
           /\ work[o].source.posterior.model = work[o].belief.model
           /\ Extends(work[o].source.posterior, work[o].belief, o)
           /\ o \notin work[o].belief.evidence /\ work[o].belief.id # o
           /\ work[o].source.posterior.formed >= work[o].belief.formed

KnowledgeInv ==
    /\ TransitionsInv /\ SourcesInv /\ ReceiptsInv /\ ObserverInv
    /\ Learned.belief \in Known

LEMMA AppendedEntries ==
    ASSUME NEW s \in Seq(Transition), NEW t \in Transition
    PROVE  /\ EntriesOf(Append(s, t)) = EntriesOf(s) \cup {t}
           /\ IdsOf(Append(s, t)) = IdsOf(s) \cup {t.id}
<1>1. /\ DOMAIN Append(s, t) = DOMAIN s \cup {Len(s) + 1}
      /\ Append(s, t)[Len(s) + 1] = t
      /\ \A i \in DOMAIN s : Append(s, t)[i] = s[i]
  OBVIOUS
<1> QED
  BY <1>1 DEF EntriesOf, IdsOf

\* Storing a transition fails, or adds one of the belief the observer decided on.
LEMMA StoreFacts ==
    ASSUME TypeInv, NEW o \in ObserveCalls, StoreTransition(o)
    PROVE  \/ pc'[o] = "failed" /\ work'[o] = NoWork /\ UNCHANGED ledger
           \/ /\ pc'[o] = "assimilate"
              /\ work'[o].belief = work[o].belief /\ work'[o].at = work[o].at
              /\ work'[o].receipt = work[o].receipt
              /\ o \notin Ids
              /\ Entries' = Entries \cup {work'[o].source} /\ Ids' = Ids \cup {o}
              /\ work'[o].source.id = o /\ work'[o].source.prior = work[o].belief.id
              /\ work'[o].source.posterior.id = o
              /\ work'[o].source.posterior.model = work[o].belief.model
              /\ Extends(work'[o].source.posterior, work[o].belief, o)
              /\ work'[o].source.posterior.formed >= work[o].at
<1>1. /\ o \in Calls /\ pc \in [Calls -> PcStates] /\ work \in [Calls -> Locals]
      /\ work[o] \in Locals /\ ledger \in Ledgers
  BY DEF TypeInv, TypeOK, Calls
<1>2. CASE Fail(o) /\ UNCHANGED ledger
  BY <1>1, <1>2 DEF Fail, Goto
<1>3. CASE ~(Fail(o) /\ UNCHANGED ledger)
  <2>1. PICK seen \in Observations(o), formed \in work[o].at..MaxTick : \E at \in formed..MaxTick :
          LET t == TransitionOf(o, seen, formed, at) IN
          /\ TransitionAccepts(ledger, t) /\ ledger' = AppendTransition(ledger, t)
          /\ work' = [work EXCEPT ![o].source = t] /\ Goto(o, "assimilate")
    BY <1>3 DEF StoreTransition
  <2>2. PICK at \in formed..MaxTick :
          LET t == TransitionOf(o, seen, formed, at) IN
          /\ TransitionAccepts(ledger, t) /\ ledger' = AppendTransition(ledger, t)
          /\ work' = [work EXCEPT ![o].source = t] /\ Goto(o, "assimilate")
    BY <2>1
  <2> DEFINE t == TransitionOf(o, seen, formed, at)
  <2>3. /\ TransitionAccepts(ledger, t) /\ ledger' = AppendTransition(ledger, t)
        /\ work' = [work EXCEPT ![o].source = t] /\ Goto(o, "assimilate")
    BY <2>2
  <2>4. work[o].at \in Nat /\ formed \in Ticks /\ at \in Ticks /\ formed >= work[o].at
    BY <1>1, MaxTickAssumption DEF Locals, Ticks
  <2>5. t \in Transition
    BY <2>4, TransitionOfType
  <2>6. /\ t.id = o /\ t.prior = work[o].belief.id /\ t.posterior.id = o
        /\ t.posterior.model = work[o].belief.model
        /\ Extends(t.posterior, work[o].belief, o)
        /\ t.posterior.formed = formed
    BY DEF TransitionOf, Observations, Extends
  <2> HIDE DEF t
  <2>7. /\ ledger.transitions \in Seq(Transition)
        /\ ledger'.transitions = Append(ledger.transitions, t)
    BY <1>1, <2>3 DEF Ledgers, AppendTransition
  <2>8. Entries' = Entries \cup {t} /\ Ids' = Ids \cup {o}
    BY <2>5, <2>6, <2>7, AppendedEntries DEF Entries, Ids
  <2>9. /\ work'[o].source = t /\ work'[o].belief = work[o].belief /\ work'[o].at = work[o].at
        /\ work'[o].receipt = work[o].receipt
    BY <1>1, <2>3 DEF Locals
  <2>10. pc'[o] = "assimilate" /\ o \notin Ids
    BY <1>1, <2>3, <2>6 DEF Goto, TransitionAccepts, Ids
  <2> QED
    BY <2>4, <2>6, <2>8, <2>9, <2>10
<1> QED
  BY <1>2, <1>3

\* Only storing a transition changes the transitions.
LEMMA OnlyStoring ==
    ASSUME TypeInv, NEW c \in Calls,
           (c \in LearnCalls /\ Learn(c)) \/ (c \in ObserveCalls /\ Interact(c) /\ ~StoreTransition(c))
    PROVE  ledger'.transitions = ledger.transitions
<1>1. ledger \in Ledgers
  BY DEF TypeInv, TypeOK
<1>2. CASE c \in ObserveCalls /\ Interact(c) /\ ~StoreTransition(c)
  BY <1>2 DEF Interact, DecideSnapshot, RegisterDecision, ConsumeDecision, AssimilateBelief,
              CountStep, StateStep
<1>3. CASE c \in LearnCalls /\ Learn(c)
  <2>1. \/ UNCHANGED ledger
        \/ ledger' = AppendReceipt(ledger, work[c].receipt)
        \/ ledger' = RemoveReceipt(ledger, work[c].ledgerToken)
    BY <1>3 DEF Learn, CheckInputs, TakeSnapshot, ReadModel, Propose, LockState, LockLedger,
                LockModel, Acquire, Preflight, CommitLedger, CommitState, CommitModel,
                RollbackModel, RollbackState, RollbackLedger, Unlock
  <2> QED
    BY <1>1, <2>1 DEF AppendReceipt, RemoveReceipt, Ledgers
<1> QED
  BY <1>2, <1>3

\* Transitions and published results are never taken back.
LEMMA KnowledgeGrows ==
    ASSUME TypeInv, NEW c \in Calls,
           (c \in LearnCalls /\ Learn(c)) \/ (c \in ObserveCalls /\ Interact(c))
    PROVE  Entries \subseteq Entries' /\ Ids \subseteq Ids' /\ Known \subseteq Known'
<1>1. Entries \subseteq Entries' /\ Ids \subseteq Ids'
  <2>1. CASE ledger'.transitions = ledger.transitions
    BY <2>1 DEF Entries, Ids
  <2>2. CASE c \in ObserveCalls /\ StoreTransition(c)
    <3>1. UNCHANGED ledger \/ (Entries' = Entries \cup {work'[c].source} /\ Ids' = Ids \cup {c})
      BY <2>2, StoreFacts
    <3> QED
      BY <3>1 DEF Entries, Ids
  <2> QED
    BY <2>1, <2>2, OnlyStoring
<1>2. Resulted \subseteq Resulted' /\ \A l \in Resulted : work'[l] = work[l]
  BY PublishedStep DEF Resulted
<1> QED
  BY <1>1, <1>2 DEF Known

LEMMA TransitionsStep == TypeInv /\ KnowledgeInv /\ [Next]_vars => TransitionsInv'
<1> SUFFICES ASSUME TypeInv, KnowledgeInv, [Next]_vars PROVE TransitionsInv'
  OBVIOUS
<1>1. TransitionsInv
  BY DEF KnowledgeInv
<1>2. CASE ledger'.transitions = ledger.transitions
  BY <1>1, <1>2 DEF TransitionsInv, Entries, Ids
<1>3. ASSUME NEW o \in ObserveCalls, StoreTransition(o), ledger'.transitions # ledger.transitions
      PROVE  TransitionsInv'
  <2>1. /\ o \notin Ids
        /\ Entries' = Entries \cup {work'[o].source} /\ Ids' = Ids \cup {o}
        /\ work'[o].source.id = o /\ work'[o].source.posterior.id = o
        /\ Extends(work'[o].source.posterior, work[o].belief, o)
    BY <1>3, StoreFacts
  <2>2. \A t \in Entries : t.id \in Ids
    BY DEF Entries, Ids, EntriesOf, IdsOf
  <2>3. work[o].belief.evidence \subseteq Ids
    <3>1. work[o].belief \in Known
      BY DEF KnowledgeInv, SourcesInv, Calls
    <3>2. \A b \in Known : b.evidence \subseteq Ids
      BY <1>1 DEF Known, TransitionsInv, KnowledgeInv, ReceiptsInv, Resulted, Published
    <3> QED
      BY <3>1, <3>2
  <2> QED
    BY <1>1, <2>1, <2>2, <2>3 DEF TransitionsInv, Extends
<1>4. CASE UNCHANGED vars
  BY <1>2, <1>4 DEF vars
<1> QED
  BY <1>2, <1>3, <1>4, Actor, OnlyStoring

\* What the parts of a call's record become.
LEMMA SourceStep ==
    ASSUME TypeInv, LockInv, KnowledgeInv, NEW c \in Calls,
           (c \in LearnCalls /\ Learn(c)) \/ (c \in ObserveCalls /\ Interact(c))
    PROVE  /\ work'[c].source \in Entries \cup Entries'
           /\ work'[c].belief \in Known
<1>1. /\ pc \in [Calls -> PcStates] /\ work \in [Calls -> Locals] /\ work[c] \in Locals
      /\ work[c].source \in Entries /\ work[c].belief \in Known
  BY DEF TypeInv, TypeOK, KnowledgeInv, SourcesInv
<1>2. NoWork.source \in Entries /\ NoWork.belief \in Known
  BY DEF KnowledgeInv, TransitionsInv, NoWork, Known, InitTransition
<1>3. ASSUME Fail(c) PROVE work'[c].source \in Entries /\ work'[c].belief \in Known
  BY <1>1, <1>2, <1>3 DEF Fail
<1>4. ASSUME Free("state") PROVE state.belief \in Known
  <2>1. Quiet
    BY <1>4, CallsAssumption DEF Free, LockInv, HoldsState, HoldsLedger, HoldsModel, Quiet,
                                 Committing, WithTokens, Calls
  <2> QED
    BY <2>1, QuietView DEF KnowledgeInv, View
<1>5. ASSUME UNCHANGED work PROVE work'[c].source \in Entries /\ work'[c].belief \in Known
  BY <1>1, <1>5
<1>6. CASE c \in ObserveCalls /\ Interact(c)
  <2>1. CASE DecideSnapshot(c)
    BY <1>1, <1>3, <1>4, <2>1 DEF DecideSnapshot, Locals
  <2>2. CASE RegisterDecision(c) \/ ConsumeDecision(c) \/ AssimilateBelief(c) \/ CountStep(c)
    BY <1>3, <1>5, <2>2 DEF RegisterDecision, ConsumeDecision, AssimilateBelief, CountStep, StateStep
  <2>3. CASE StoreTransition(c)
    BY <1>1, <1>2, <1>6, <2>3, StoreFacts
  <2> QED
    BY <1>6, <2>1, <2>2, <2>3 DEF Interact
<1>7. CASE c \in LearnCalls /\ Learn(c)
  <2>1. CASE CheckInputs(c)
    BY <1>1, <2>1 DEF CheckInputs, Locals, Entries
  <2>2. CASE TakeSnapshot(c)
    BY <1>1, <1>3, <1>4, <2>2 DEF TakeSnapshot, Locals
  <2>3. CASE ReadModel(c)
    BY <1>1, <1>3, <2>3 DEF ReadModel, Locals
  <2>4. CASE Propose(c)
    BY <1>1, <1>2, <1>7, <2>4, ProposeFacts
  <2>5. CASE Preflight(c)
    BY <1>1, <1>5, <2>5 DEF Preflight, Locals
  <2>6. CASE \/ LockState(c) \/ LockLedger(c) \/ LockModel(c)
             \/ CommitLedger(c) \/ CommitState(c) \/ CommitModel(c)
             \/ RollbackModel(c) \/ RollbackState(c) \/ RollbackLedger(c)
    BY <1>5, <2>6 DEF LockState, LockLedger, LockModel, Acquire, CommitLedger, CommitState,
                      CommitModel, RollbackModel, RollbackState, RollbackLedger
  <2>7. CASE Unlock(c)
    BY <1>3, <1>5, <2>7 DEF Unlock
  <2> QED
    BY <1>7, <2>1, <2>2, <2>3, <2>4, <2>5, <2>6, <2>7 DEF Learn
<1> QED
  BY <1>6, <1>7

LEMMA SourcesStep == TypeInv /\ LockInv /\ KnowledgeInv /\ [Next]_vars => SourcesInv'
<1> SUFFICES ASSUME TypeInv, LockInv, KnowledgeInv, [Next]_vars PROVE SourcesInv'
  OBVIOUS
<1>1. CASE UNCHANGED vars
  BY <1>1 DEF vars, KnowledgeInv, SourcesInv, Known, Entries, Resulted, Published
<1>2. ASSUME NEW c \in Calls,
             (c \in LearnCalls /\ Learn(c)) \/ (c \in ObserveCalls /\ Interact(c))
      PROVE  SourcesInv'
  <2>1. Entries \subseteq Entries' /\ Known \subseteq Known'
    BY <1>2, KnowledgeGrows
  <2>2. work'[c].source \in Entries' /\ work'[c].belief \in Known'
    BY <1>2, <2>1, SourceStep
  <2>3. \A k \in Calls : k # c => work'[k] = work[k]
    BY <1>2, OwnStep
  <2> QED
    BY <2>1, <2>2, <2>3 DEF KnowledgeInv, SourcesInv
<1> QED
  BY <1>1, <1>2, Actor

\* A resulting belief rests on what its call knew.
LEMMA ReceiptsStep == TypeInv /\ KnowledgeInv /\ [Next]_vars => ReceiptsInv'
<1> SUFFICES ASSUME TypeInv, KnowledgeInv, [Next]_vars, NEW l \in LearnCalls
             PROVE  /\ l \in Published' => work'[l].receipt \in Receipt
                    /\ work'[l].receipt \in Receipt /\ work'[l].receipt.resulting # NoBelief =>
                         work'[l].receipt.resulting.evidence \subseteq Ids'
  BY DEF ReceiptsInv
<1>1. /\ l \in Calls /\ l \notin ObserveCalls /\ ReceiptsInv
      /\ pc \in [Calls -> PcStates] /\ work \in [Calls -> Locals]
  BY CallsAssumption DEF Calls, KnowledgeInv, TypeInv, TypeOK
<1>2. ASSUME NEW c \in Calls,
             (c \in LearnCalls /\ Learn(c)) \/ (c \in ObserveCalls /\ Interact(c))
      PROVE  /\ l \in Published' => work'[l].receipt \in Receipt
             /\ work'[l].receipt \in Receipt /\ work'[l].receipt.resulting # NoBelief =>
                  work'[l].receipt.resulting.evidence \subseteq Ids'
  <2>1. Ids \subseteq Ids'
    BY <1>2, KnowledgeGrows
  <2>2. l \in Published' => work[l].receipt \in Receipt /\ work'[l].receipt = work[l].receipt
    <3>1. CASE l \in Published
      BY <1>1, <1>2, <3>1, PublishedStep DEF ReceiptsInv
    <3>2. CASE l \notin Published /\ l \in Published'
      <4>1. c = l /\ pc'[l] = "publish" /\ Learn(l)
        BY <1>1, <1>2, <3>2, PublishedStep
      <4>2. CommitState(l) \/ CommitModel(l)
        <5>1. \A to \in {"snapshot", "readModel", "propose", "lockLedger", "lockModel", "lockState",
                         "preflight", "commitLedger", "abandon", "failed", "done", "broken", "torn",
                         "commitState", "rollbackModel", "rollbackState", "rollbackLedger"} :
                ~Goto(l, to)
          BY <1>1, <4>1 DEF Goto
        <5>2. /\ ~Goto(l, FirstRollback)
              /\ ~Goto(l, IF OwnsModel THEN "lockModel" ELSE "preflight")
              /\ ~Goto(l, IF OwnsModel THEN "readModel" ELSE "propose")
              /\ ~Fail(l)
          BY <5>1 DEF FirstRollback, Fail
        <5>3. ~Propose(l)
          <6>1. ASSUME Propose(l) PROVE Goto(l, "lockState") \/ Goto(l, "failed")
            BY <6>1 DEF Propose, Fail
          <6> QED
            BY <5>1, <6>1
        <5>4. ~CheckInputs(l) /\ ~TakeSnapshot(l) /\ ~ReadModel(l) /\ ~LockState(l)
              /\ ~LockLedger(l) /\ ~LockModel(l) /\ ~Preflight(l) /\ ~CommitLedger(l)
              /\ ~RollbackModel(l) /\ ~RollbackState(l) /\ ~RollbackLedger(l) /\ ~Unlock(l)
          BY <5>1, <5>2 DEF CheckInputs, TakeSnapshot, ReadModel, LockState, LockLedger, LockModel,
                            Acquire, Preflight, CommitLedger, RollbackModel, RollbackState,
                            RollbackLedger, Unlock
        <5> QED
          BY <4>1, <5>3, <5>4 DEF Learn
      <4>3. UNCHANGED work /\ pc[l] \in WithReceipt
        BY <4>2 DEF CommitState, CommitModel, WithReceipt, WithTokens
      <4> QED
        BY <4>3 DEF TypeInv, Prepared
    <3> QED
      BY <3>1, <3>2
  <2>3. CASE work'[l].receipt = work[l].receipt
    BY <1>1, <2>1, <2>2, <2>3 DEF ReceiptsInv
  <2>4. CASE work'[l] = NoWork
    BY <2>2, <2>4, NoneAssumption DEF NoWork
  <2>5. CASE Propose(l)
    <3>1. CASE work'[l] # NoWork /\ work'[l].receipt.resulting # NoBelief
      <4>1. work'[l].receipt.resulting.evidence \in ResultingEvidence(work[l])
        BY <2>5, <3>1, ProposeFacts
      <4>2. work[l].source.posterior.evidence \subseteq Ids
        BY <1>1 DEF KnowledgeInv, SourcesInv, TransitionsInv
      <4>3. work[l].belief.evidence \subseteq Ids
        <5>1. work[l].belief \in Known
          BY <1>1 DEF KnowledgeInv, SourcesInv
        <5>2. \A b \in Known : b.evidence \subseteq Ids
          BY DEF Known, TransitionsInv, KnowledgeInv, ReceiptsInv, Resulted, Published
        <5> QED
          BY <5>1, <5>2
      <4> QED
        BY <2>1, <2>2, <4>1, <4>2, <4>3 DEF ResultingEvidence
    <3> QED
      BY <2>2, <2>4, <3>1
  <2>6. CASE c # l
    BY <1>1, <1>2, <2>3, <2>6, OwnStep
  <2>7. CASE c = l /\ ~Propose(l)
    <3>1. Learn(l)
      BY <1>1, <1>2, <2>7
    <3> QED
      BY <1>1, <2>3, <2>4, <2>7, <3>1, ReceiptOnce
  <2> QED
    BY <2>5, <2>6, <2>7
<1>3. CASE UNCHANGED vars
  BY <1>1, <1>3 DEF vars, ReceiptsInv, Published, Ids
<1> QED
  BY <1>2, <1>3, Actor

LEMMA ObserverStep == ViewInv /\ KnowledgeInv /\ [Next]_vars => ObserverInv'
<1> DEFINE Observing(o) ==
      /\ pc[o] \in {"register", "consume", "append", "assimilate"} =>
           work[o].belief.formed <= work[o].at
      /\ pc[o] = "assimilate" =>
           /\ work[o].source.prior = work[o].belief.id
           /\ work[o].source.posterior.id = o
           /\ work[o].source.posterior.model = work[o].belief.model
           /\ Extends(work[o].source.posterior, work[o].belief, o)
           /\ o \notin work[o].belief.evidence /\ work[o].belief.id # o
           /\ work[o].source.posterior.formed >= work[o].belief.formed
<1> SUFFICES ASSUME ViewInv, TypeInv, KnowledgeInv, [Next]_vars, NEW o \in ObserveCalls
             PROVE  Observing(o)'
  BY DEF ObserverInv, ViewInv, CustodyInv
<1>1. /\ o \in Calls /\ o \notin LearnCalls /\ Observing(o)
      /\ pc \in [Calls -> PcStates] /\ work \in [Calls -> Locals] /\ work[o] \in Locals
  BY CallsAssumption DEF Calls, KnowledgeInv, ObserverInv, TypeInv, TypeOK
<1>2. CASE UNCHANGED <<pc, work>>
  BY <1>1, <1>2
<1>3. ASSUME NEW c \in Calls, c # o,
             (c \in LearnCalls /\ Learn(c)) \/ (c \in ObserveCalls /\ Interact(c))
      PROVE  Observing(o)'
  BY <1>1, <1>3, OwnStep
<1>4. ASSUME Fail(o) PROVE Observing(o)'
  <2>1. pc'[o] = "failed"
    BY <1>1, <1>4 DEF Fail, Goto
  <2> QED
    BY <2>1
<1>5. CASE Interact(o)
  <2>1. CASE DecideSnapshot(o)
    <3>1. CASE Fail(o)
      BY <1>4, <3>1
    <3>2. CASE ~Fail(o)
      <4>1. PICK at \in Ticks :
              /\ SnapshotAccepts(state, at) /\ Goto(o, "register")
              /\ work' = [work EXCEPT ![o].belief = state.belief, ![o].policy = state.policy,
                                      ![o].at = at]
        BY <2>1, <3>2 DEF DecideSnapshot
      <4>2. pc'[o] = "register" /\ work'[o].belief = state.belief /\ work'[o].at = at
        BY <1>1, <4>1 DEF Goto, Locals
      <4>3. work'[o].belief.formed <= work'[o].at
        BY <4>1, <4>2 DEF SnapshotAccepts
      <4> QED
        BY <4>2, <4>3
    <3> QED
      BY <3>1, <3>2
  <2>2. CASE RegisterDecision(o) \/ ConsumeDecision(o) \/ AssimilateBelief(o) \/ CountStep(o)
    <3>1. CASE Fail(o)
      BY <1>4, <3>1
    <3>2. CASE ~Fail(o)
      <4>1. /\ UNCHANGED work
            /\ \/ pc[o] = "register" /\ Goto(o, "consume")
               \/ pc[o] = "consume" /\ Goto(o, "append")
               \/ Goto(o, "account") \/ Goto(o, "done")
        <5>1. CASE RegisterDecision(o)
          BY <3>2, <5>1 DEF RegisterDecision, StateStep
        <5>2. CASE ConsumeDecision(o)
          BY <3>2, <5>2 DEF ConsumeDecision, StateStep
        <5>3. CASE AssimilateBelief(o)
          BY <3>2, <5>3 DEF AssimilateBelief, StateStep
        <5>4. CASE CountStep(o)
          BY <3>2, <5>4 DEF CountStep, StateStep
        <5> QED
          BY <2>2, <5>1, <5>2, <5>3, <5>4
      <4> QED
        BY <1>1, <4>1 DEF Goto
    <3> QED
      BY <3>1, <3>2
  <2>3. CASE StoreTransition(o)
    <3>1. CASE pc'[o] = "failed"
      BY <3>1
    <3>2. CASE pc'[o] # "failed"
      <4>1. /\ pc'[o] = "assimilate" /\ o \notin Ids
            /\ work'[o].belief = work[o].belief /\ work'[o].at = work[o].at
            /\ work'[o].source.prior = work[o].belief.id
            /\ work'[o].source.posterior.model = work[o].belief.model
            /\ work'[o].source.posterior.id = o
            /\ Extends(work'[o].source.posterior, work[o].belief, o)
            /\ work'[o].source.posterior.formed >= work[o].at
        BY <2>3, <3>2, StoreFacts
      <4>2. work[o].belief.formed <= work[o].at
        BY <1>1, <2>3 DEF StoreTransition
      <4>3. o \notin work[o].belief.evidence
        <5>1. work[o].belief \in Known
          BY <1>1 DEF KnowledgeInv, SourcesInv
        <5>2. \A b \in Known : b.evidence \subseteq Ids
          BY DEF Known, TransitionsInv, KnowledgeInv, ReceiptsInv, Resulted, Published
        <5> QED
          BY <4>1, <5>1, <5>2
      <4>6. work[o].belief.id # o
        <5>1. work[o].belief \in Known
          BY <1>1 DEF KnowledgeInv, SourcesInv
        <5>2. \A t \in Entries : t.posterior.id \in Ids
          BY DEF KnowledgeInv, TransitionsInv, Entries, Ids, EntriesOf, IdsOf
        <5>3. \A l \in Resulted : l \in LearnCalls /\ work[l].receipt.resulting.id = l
          BY DEF Resulted, Published, KnowledgeInv, ReceiptsInv, ViewInv, Drafted
        <5> QED
          BY <1>1, <4>1, <5>1, <5>2, <5>3 DEF Known
      <4>4. work'[o].source.posterior.formed \in Nat /\ work[o].at \in Nat
            /\ work[o].belief.formed \in Nat
        <5>1. TypeInv'
          BY StepType
        <5>2. work'[o] \in Locals
          BY <1>1, <5>1 DEF TypeInv, TypeOK
        <5> QED
          BY <1>1, <5>2, MaxTickAssumption DEF Locals, Transition, Belief, Ticks
      <4>5. work'[o].source.posterior.formed >= work[o].belief.formed
        BY <4>1, <4>2, <4>4
      <4> QED
        BY <4>1, <4>2, <4>3, <4>5, <4>6
    <3> QED
      BY <3>1, <3>2
  <2> QED
    BY <1>5, <2>1, <2>2, <2>3 DEF Interact
<1> QED
  BY <1>1, <1>2, <1>3, <1>5, Actor DEF vars

\* The current belief stays one that is accounted for.
LEMMA BeliefStep ==
    ViewInv /\ LockInv' /\ KnowledgeInv /\ [Next]_vars => Learned.belief' \in Known'
<1> SUFFICES ASSUME ViewInv, LockInv', KnowledgeInv, [Next]_vars
             PROVE  Learned.belief' \in Known'
  OBVIOUS
<1>1. TypeInv /\ LockInv /\ Learned.belief \in Known
  BY DEF ViewInv, CustodyInv, KnowledgeInv
<1>2. Known \subseteq Known'
  <2>1. CASE UNCHANGED vars
    BY <2>1 DEF vars, Known, Entries, Resulted, Published
  <2> QED
    BY <1>1, <2>1, Actor, KnowledgeGrows
<1>3. CASE Still
  BY <1>1, <1>2, <1>3 DEF Still
<1>4. CASE Ticked
  <2>1. Learned.belief' = Learned.belief
    BY <1>4 DEF Ticked, Learned
  <2> QED
    BY <1>1, <1>2, <2>1
<1>5. ASSUME NEW l \in LearnCalls, CommittedBy(l) PROVE Learned.belief' \in Known'
  <2>1. /\ Learned.belief = work[l].stateToken.belief
        /\ Learned.belief' = ApplyUpdate(work[l].stateToken, work[l].receipt).belief
        /\ l \in Published' /\ UNCHANGED work
    BY <1>5 DEF CommittedBy, View
  <2>2. work[l].stateToken \in StateToken
    BY <1>1, <1>5 DEF CommittedBy, TypeInv, Prepared
  <2>3. ApplyUpdate(work[l].stateToken, work[l].receipt).belief
          = IF work[l].receipt.resulting # NoBelief THEN work[l].receipt.resulting
            ELSE work[l].stateToken.belief
    BY <2>2 DEF ApplyUpdate, StateToken
  <2>4. work[l].receipt.resulting # NoBelief => work[l].receipt.resulting \in Known'
    BY <2>1 DEF Known, Resulted
  <2> QED
    BY <1>1, <1>2, <2>1, <2>3, <2>4
<1>6. ASSUME NEW o \in ObserveCalls, AssimilatedBy(o) PROVE Learned.belief' \in Known'
  <2>1. Learned.belief' = work[o].source.posterior
    BY <1>6 DEF AssimilatedBy, Learned
  <2>2. work[o].source \in Entries
    BY DEF KnowledgeInv, SourcesInv, Calls
  <2>3. work[o].source.posterior \in Known
    BY <2>2 DEF Known
  <2> QED
    BY <1>2, <2>1, <2>3
<1> QED
  BY <1>3, <1>4, <1>5, <1>6, StepView

LEMMA KnowledgeHolds == Spec => [](ViewInv /\ KnowledgeInv)
<1>1. Init => KnowledgeInv
  <2> SUFFICES ASSUME Init PROVE KnowledgeInv
    OBVIOUS
  <2>1. Entries = {InitTransition} /\ Ids = {Genesis}
    BY DEF Init, Entries, Ids, EntriesOf, IdsOf, InitTransition
  <2>2. InitBelief \in Known
    BY <2>1 DEF Known, InitTransition
  <2>3. /\ \A l \in LearnCalls : pc[l] = "inputs"
        /\ \A o \in ObserveCalls : pc[o] = "decide"
        /\ \A c \in Calls : work[c] = NoWork
    BY CallsAssumption DEF Init, Calls
  <2>4. Learned.belief = InitBelief
    <3>1. Quiet
      BY <2>3 DEF Quiet, Committing
    <3> QED
      BY <3>1, QuietView DEF View, Init
  <2>5. TransitionsInv
    BY <2>1 DEF TransitionsInv, InitTransition, InitBelief
  <2>6. SourcesInv
    BY <2>1, <2>2, <2>3 DEF SourcesInv, NoWork
  <2>7. ReceiptsInv /\ ObserverInv
    BY <2>3, NoneAssumption DEF ReceiptsInv, ObserverInv, Published, NoWork, Calls
  <2> QED
    BY <2>2, <2>4, <2>5, <2>6, <2>7 DEF KnowledgeInv
<1>2. ViewInv /\ ViewInv' /\ KnowledgeInv /\ [Next]_vars => KnowledgeInv'
  BY TransitionsStep, SourcesStep, ReceiptsStep, ObserverStep, BeliefStep
     DEF ViewInv, CustodyInv, KnowledgeInv
<1> QED
  BY <1>1, <1>2, ViewHolds, PTL DEF Spec

-----------------------------------------------------------------------------
(* The refinement.                                                         *)

LEMMA LearnedTyped ==
    ASSUME TypeInv, LockInv
    PROVE  Learned \in Views
<1>1. CASE Quiet
  <2>1. Learned = View(state) /\ state \in AgentStates
    BY <1>1, QuietView DEF TypeInv, TypeOK
  <2> QED
    BY <2>1 DEF View, Views, AgentStates
<1>2. CASE ~Quiet
  <2>1. PICK l \in LearnCalls : pc[l] \in WithTokens
    BY <1>2, QuietOrCommitting
  <2>2. Learned = View(work[l].stateToken) /\ work[l].stateToken \in StateToken
    BY <2>1, CommitView DEF TypeInv, Prepared
  <2> QED
    BY <2>2 DEF View, Views, StateToken
<1> QED
  BY <1>1, <1>2

\* Beliefs are told apart by their identities.
LEMMA KnownById ==
    ASSUME ViewInv, KnowledgeInv, NEW a \in Known, NEW b \in Known, a.id = b.id
    PROVE  a = b
<1>1. \A t \in Entries : t \in Transition
  <2>1. ledger.transitions \in Seq(Transition)
    BY DEF ViewInv, CustodyInv, TypeInv, TypeOK, Ledgers
  <2> QED
    BY <2>1 DEF Entries, EntriesOf
<1>2. \A t \in Entries : t.posterior.id = t.id /\ t.id \notin LearnCalls
  BY <1>1, CallsAssumption DEF KnowledgeInv, TransitionsInv, Transition, Evidence, Calls
<1>3. \A l \in Resulted : l \in LearnCalls /\ work[l].receipt.resulting.id = l
  BY DEF Resulted, Published, KnowledgeInv, ReceiptsInv, ViewInv, Drafted
<1> QED
  BY <1>2, <1>3 DEF Known, KnowledgeInv, TransitionsInv

\* An assimilated posterior continues the current belief.
LEMMA AssimilationFacts ==
    ASSUME ViewInv, KnowledgeInv, NEW o \in ObserveCalls, AssimilatedBy(o)
    PROVE  LET p == work[o].source.posterior IN
           /\ p.model = Learned.belief.model
           /\ p.id = o /\ Learned.belief.id # o
           /\ Extends(p, Learned.belief, o) /\ o \notin Learned.belief.evidence
           /\ p.formed >= Learned.belief.formed
           /\ p \in Known
<1>1. Learned.belief = work[o].belief
  <2>1. work[o].belief \in Known /\ Learned.belief \in Known
    BY DEF KnowledgeInv, SourcesInv, Calls
  <2>2. work[o].belief.id = Learned.belief.id
    BY DEF AssimilatedBy, KnowledgeInv, ObserverInv
  <2> QED
    BY <2>1, <2>2, KnownById
<1>2. work[o].source \in Entries
  BY DEF KnowledgeInv, SourcesInv, Calls
<1> QED
  BY <1>1, <1>2 DEF AssimilatedBy, KnowledgeInv, ObserverInv, Known

\* What a commit makes of the view.
LEMMA CommitFacts ==
    ASSUME ViewInv, NEW l \in LearnCalls, CommittedBy(l)
    PROVE  /\ work[l].receipt \in Receipt /\ work[l].receipt.call = l
           /\ WellFormed(work[l].receipt)
           /\ UpdateAccepts(Learned, work[l].receipt)
           /\ Learned'.latest = work[l].receipt
           /\ Learned'.model = work[l].receipt.newModel
           /\ Learned'.policy = work[l].receipt.newPolicy
           /\ Learned'.lastTime = work[l].receipt.completed
           /\ Learned'.belief = IF work[l].receipt.resulting = NoBelief THEN Learned.belief
                                ELSE work[l].receipt.resulting
           /\ OwnsModel => /\ Live.version = Learned.model
                           /\ Live'.version = work[l].receipt.newModel
                           /\ Live'.payload # Live.payload /\ Live'.payload = l
<1> DEFINE r == work[l].receipt
           token == work[l].stateToken
<1>1. /\ r \in Receipt /\ token \in StateToken /\ pc[l] \in WithTokens
      /\ ExactAt(l) /\ AgreementAt(l)
  BY DEF CommittedBy, ViewInv, CustodyInv, TypeInv, Prepared, WithReceipt, Exact, AgreeInv, Remembered
<1>2. r.call = l /\ WellFormed(r) /\ work[l].candidate.payload = l
  BY <1>1 DEF ViewInv, Drafted
<1>3. Learned = View(token) /\ Learned' = View(ApplyUpdate(token, r))
  BY DEF CommittedBy
<1>4. UpdateAccepts(token, r)
  BY <1>1 DEF ExactAt
<1>5. UpdateAccepts(Learned, r)
  BY <1>3, <1>4 DEF UpdateAccepts, View
<1>6. r.status = "rejected" => r.newModel = r.prevModel /\ r.newPolicy = r.prevPolicy
  BY <1>2 DEF WellFormed
<1>7. /\ ApplyUpdate(token, r).latest = r
      /\ ApplyUpdate(token, r).lastTime = r.completed
      /\ ApplyUpdate(token, r).model = IF r.status # "rejected" THEN r.newModel ELSE token.model
      /\ ApplyUpdate(token, r).policy = IF r.status # "rejected" THEN r.newPolicy ELSE token.policy
      /\ ApplyUpdate(token, r).belief = IF r.resulting # NoBelief THEN r.resulting ELSE token.belief
  BY <1>1 DEF StateToken, ApplyUpdate
<1>8. /\ token.model = r.prevModel /\ token.policy = r.prevPolicy
  BY <1>4 DEF UpdateAccepts
<1>9. /\ Learned'.latest = r /\ Learned'.lastTime = r.completed
      /\ Learned'.model = r.newModel /\ Learned'.policy = r.newPolicy
      /\ Learned'.belief = IF r.resulting = NoBelief THEN Learned.belief ELSE r.resulting
  BY <1>3, <1>6, <1>7, <1>8 DEF View
<1>10. OwnsModel => /\ Live.version = Learned.model
                    /\ Live'.version = r.newModel
                    /\ Live'.payload # Live.payload /\ Live'.payload = l
  <2> SUFFICES ASSUME OwnsModel
               PROVE  /\ Live.version = Learned.model /\ Live'.version = r.newModel
                      /\ Live'.payload # Live.payload /\ Live'.payload = l
    OBVIOUS
  <2>1. Live = work[l].expected /\ Live' = work[l].candidate
    BY DEF CommittedBy
  <2>2. work[l].candidate.version = r.newModel
    BY <1>1 DEF ViewInv, AgreeInv, ReceiptFits, WithReceipt
  <2>3. Learned.model = token.model
    BY <1>3 DEF View
  <2> QED
    BY <1>1, <1>2, <2>1, <2>2, <2>3 DEF AgreementAt, ExactAt
<1> QED
  BY <1>1, <1>2, <1>5, <1>9, <1>10

LEMMA RefinedStep ==
    ViewInv /\ LockInv' /\ KnowledgeInv /\ [Next]_vars => [Atomic!Next]_(Atomic!vars)
<1> SUFFICES ASSUME ViewInv, LockInv', KnowledgeInv, [Next]_vars
             PROVE  Atomic!Next \/ UNCHANGED <<Learned, Stored, Live>>
  BY DEF Atomic!vars
<1>1. Learned \in Views
  BY LearnedTyped DEF ViewInv, CustodyInv
<1>2. CASE Still
  BY <1>2 DEF Still
<1>3. CASE Ticked
  <2>1. PICK at \in Ticks : /\ at >= Learned.lastTime
                            /\ Learned' = [Learned EXCEPT !.lastTime = at]
                            /\ UNCHANGED <<Stored, Live>>
    BY <1>3 DEF Ticked
  <2>2. Learned'.lastTime = at
    BY <1>1, <2>1 DEF Views
  <2>3. Learned.lastTime <= Learned'.lastTime
    BY <1>1, <2>1, <2>2, MaxTickAssumption DEF Views, Ticks
  <2>4. Atomic!Advance
    BY <2>1, <2>2, <2>3 DEF Atomic!Advance
  <2> QED
    BY <2>4 DEF Atomic!Next
<1>4. ASSUME NEW l \in LearnCalls, CommittedBy(l) PROVE Atomic!Next
  <2> DEFINE r == work[l].receipt
  <2>1. /\ r # NoReceipt
        /\ r.prevModel = Learned.model /\ r.newModel = Learned'.model
        /\ r.prevPolicy = Learned.policy /\ r.newPolicy = Learned'.policy
        /\ Learned'.latest = r
        /\ Learned'.belief = IF r.resulting = NoBelief THEN Learned.belief ELSE r.resulting
    BY <1>4, CommitFacts, NoneAssumption DEF UpdateAccepts
  <2>2. Learned.lastTime <= r.completed /\ r.completed = Learned'.lastTime
    BY <1>1, <1>4, CommitFacts, MaxTickAssumption DEF UpdateAccepts, Views, Ticks, Receipt
  <2>3. Learned.belief.evidence \subseteq Learned'.belief.evidence
    BY <1>4, <2>1, CommitFacts DEF UpdateAccepts
  <2>4. Stored' = Append(Stored, r) /\ (~OwnsModel => Live' = Live)
    BY <1>4 DEF CommittedBy
  <2>5. OwnsModel => /\ Live.version = r.prevModel /\ Live'.version = r.newModel
                     /\ Live'.payload # Live.payload
    BY <1>4, <2>1, CommitFacts
  <2>6. Atomic!Commit
    BY <2>1, <2>2, <2>3, <2>4, <2>5 DEF Atomic!Commit
  <2> QED
    BY <2>6 DEF Atomic!Next
<1>5. ASSUME NEW o \in ObserveCalls, AssimilatedBy(o) PROVE Atomic!Next
  <2> DEFINE p == work[o].source.posterior
  <2>1. /\ p.model = Learned.belief.model
        /\ p.id = o /\ Learned.belief.id # o
        /\ Learned.belief.evidence \subseteq p.evidence
    BY <1>5, AssimilationFacts DEF Extends
  <2>2. /\ p.formed >= Learned.lastTime /\ UNCHANGED <<Stored, Live>>
        /\ Learned' = [Learned EXCEPT !.belief = p, !.lastTime = p.formed]
    BY <1>5 DEF AssimilatedBy
  <2>3. p \in Belief
    BY DEF ViewInv, CustodyInv, TypeInv, TypeOK, Calls, Locals, Transition
  <2> HIDE DEF p
  <2>4. Learned'.belief = p /\ Learned'.lastTime = p.formed
    BY <1>1, <2>2 DEF Views
  <2>5. Learned.lastTime <= Learned'.lastTime
    BY <1>1, <2>2, <2>3, <2>4, MaxTickAssumption DEF Views, Ticks, Belief
  <2>6. /\ Learned.belief.evidence \subseteq Learned'.belief.evidence
        /\ Learned.belief.id # Learned'.belief.id
        /\ Learned'.belief.model = Learned.belief.model
    BY <2>1, <2>4
  <2>7. Atomic!Assimilation
    BY <2>2, <2>4, <2>5, <2>6 DEF Atomic!Assimilation
  <2> QED
    BY <2>7 DEF Atomic!Next
<1> QED
  BY <1>2, <1>3, <1>4, <1>5, StepView

LEMMA RefinedInit == Init => Atomic!Init
<1> SUFFICES ASSUME Init PROVE Atomic!Init
  OBVIOUS
<1>1. \A l \in LearnCalls : pc[l] = "inputs"
  BY DEF Init, Calls
<1>2. Quiet
  BY <1>1 DEF Quiet, Committing
<1>3. Learned = View(state) /\ Stored = ledger.updates /\ Live = model.live
  BY <1>2, QuietView
<1> QED
  BY <1>3 DEF Init, Atomic!Init, View, InitBelief, InitModel

\* Learning is atomic to everyone else: however a commit is interrupted, belief, versions,
\* receipt list and model bytes change together in one step or not at all, whatever the
\* other calls do in between (agent.py 462-610, AtomicLearning).
THEOREM CommitAlwaysAtomic == Spec => CommitIsAtomic
<1>1. ViewInv /\ ViewInv' /\ KnowledgeInv /\ [Next]_vars => [Atomic!Next]_(Atomic!vars)
  BY RefinedStep DEF ViewInv, CustodyInv
<1> QED
  BY <1>1, RefinedInit, KnowledgeHolds, PTL DEF Spec, CommitIsAtomic, Atomic!Spec

-----------------------------------------------------------------------------
(* The history of receipts.                                                *)

\* Every stored receipt is of a published call, and every published call has one.
StoredInv ==
    /\ Stored \in Seq(Receipt)
    /\ \A i \in DOMAIN Stored : \E l \in Published : Stored[i] = work[l].receipt
    /\ \A i, j \in DOMAIN Stored : Stored[i].call = Stored[j].call => i = j
    /\ \A l \in Published : \E i \in DOMAIN Stored : Stored[i] = work[l].receipt

CurrentInv ==
    /\ Live.payload \in {Genesis} \cup Published
    /\ Learned.latest # NoReceipt => \E l \in Published : Learned.latest = work[l].receipt

Linked(before, after) ==
    /\ after.prevModel = before.newModel
    /\ after.prevPolicy = before.newPolicy
    /\ after.completed >= before.completed
    /\ OwnsModel => work[after.call].expected = work[before.call].candidate

\* The history is linked, and its end is what is current.
LineageInv ==
    /\ \A i \in 1..(Len(Stored) - 1) : Linked(Stored[i], Stored[i + 1])
    /\ Stored # <<>> =>
         LET last == Stored[Len(Stored)] IN
         /\ last.newModel = Learned.model /\ last.newPolicy = Learned.policy
         /\ last.completed <= Learned.lastTime
         /\ OwnsModel => Live = work[last.call].candidate

\* An assimilated belief keeps the evidence of the learned one before it, and differs
\* from it when the observation it brought was a new one.
Descends(belief, resulting) ==
    /\ resulting.evidence \subseteq belief.evidence
    /\ belief.formed >= resulting.formed
    /\ belief.id \in ObserveCalls
    /\ belief.id \in belief.evidence => resulting.evidence # belief.evidence

\* What a snapshot asks of belief, versions and latest receipt, with a known observation
\* let pass.
Settled(s) ==
    /\ s.belief.model = s.model
    /\ s.latest # NoReceipt =>
         /\ s.model = s.latest.newModel
         /\ s.policy = s.latest.newPolicy
         /\ s.latest.resulting # NoBelief =>
              \/ s.belief.id = s.latest.resulting.id
              \/ Descends(s.belief, s.latest.resulting)

\* Without rolled-back receipts the state is settled after every commit.
CoherentInv == "rolled_back" \notin Statuses => Settled(Learned)

HistoryInv == StoredInv /\ CurrentInv /\ LineageInv /\ CoherentInv

\* A published call has written its receipt for good.
LEMMA PublishedKept ==
    ASSUME TypeInv, [Next]_vars, NEW l \in Published
    PROVE  l \in Published' /\ work'[l] = work[l]
<1>1. CASE UNCHANGED vars
  BY <1>1 DEF vars, Published
<1> QED
  BY <1>1, Actor, PublishedStep

LEMMA PublishedCall ==
    ASSUME ViewInv, KnowledgeInv, NEW l \in Published
    PROVE  /\ l \in LearnCalls /\ work[l].receipt \in Receipt /\ work[l].receipt.call = l
           /\ WellFormed(work[l].receipt)
           /\ work[l].receipt.resulting # NoBelief =>
                /\ work[l].receipt.resulting.id = l
                /\ work[l].receipt.resulting.model = work[l].receipt.newModel
                /\ work[l].receipt.resulting \in Known
  BY DEF Published, KnowledgeInv, ReceiptsInv, ViewInv, Drafted, Known, Resulted

LEMMA StoredStep ==
    ViewInv /\ LockInv' /\ KnowledgeInv /\ StoredInv /\ [Next]_vars => StoredInv'
<1> SUFFICES ASSUME ViewInv, LockInv', KnowledgeInv, StoredInv, [Next]_vars PROVE StoredInv'
  OBVIOUS
<1>1. /\ TypeInv
      /\ \A l \in Published : l \in Published' /\ work'[l] = work[l]
  BY PublishedKept DEF ViewInv, CustodyInv
<1>2. CASE UNCHANGED <<Stored, Published>>
  BY <1>1, <1>2 DEF StoredInv
<1>3. ASSUME NEW l \in LearnCalls, CommittedBy(l) PROVE StoredInv'
  <2> DEFINE r == work[l].receipt
  <2>1. /\ r \in Receipt /\ r.call = l
        /\ Stored' = Append(Stored, r) /\ Published' = Published \cup {l} /\ UNCHANGED work
        /\ l \notin Published
    BY <1>3, CommitFacts DEF CommittedBy, Published, WithTokens
  <2>2. /\ Stored \in Seq(Receipt) /\ Stored' \in Seq(Receipt)
        /\ DOMAIN Stored' = DOMAIN Stored \cup {Len(Stored) + 1}
        /\ Len(Stored) + 1 \notin DOMAIN Stored
        /\ Stored'[Len(Stored) + 1] = r
        /\ \A i \in DOMAIN Stored : Stored'[i] = Stored[i]
    BY <2>1 DEF StoredInv
  <2>3. \A i \in DOMAIN Stored : Stored[i].call \in Published
    BY PublishedCall DEF StoredInv
  <2> HIDE DEF r
  <2>4. \A i \in DOMAIN Stored' : \E k \in Published' : Stored'[i] = work'[k].receipt
    BY <2>1, <2>2 DEF StoredInv, r
  <2>5. \A i, j \in DOMAIN Stored' : Stored'[i].call = Stored'[j].call => i = j
    BY <2>1, <2>2, <2>3 DEF StoredInv
  <2>6. \A k \in Published' : \E i \in DOMAIN Stored' : Stored'[i] = work'[k].receipt
    BY <2>1, <2>2 DEF StoredInv, r
  <2> QED
    BY <2>2, <2>4, <2>5, <2>6 DEF StoredInv
<1> QED
  BY <1>2, <1>3, StepView DEF Still, Ticked, AssimilatedBy

LEMMA CurrentStep ==
    ViewInv /\ LockInv' /\ KnowledgeInv /\ CurrentInv /\ [Next]_vars => CurrentInv'
<1> SUFFICES ASSUME ViewInv, LockInv', KnowledgeInv, CurrentInv, [Next]_vars PROVE CurrentInv'
  OBVIOUS
<1>1. /\ TypeInv /\ Learned \in Views
      /\ \A l \in Published : l \in Published' /\ work'[l] = work[l]
  BY PublishedKept, LearnedTyped DEF ViewInv, CustodyInv
<1>2. CASE UNCHANGED <<Live, Published>> /\ Learned'.latest = Learned.latest
  BY <1>1, <1>2 DEF CurrentInv
<1>3. ASSUME NEW l \in LearnCalls, CommittedBy(l) PROVE CurrentInv'
  <2>1. /\ Learned'.latest = work[l].receipt /\ UNCHANGED work
        /\ Published' = Published \cup {l}
        /\ OwnsModel => Live'.payload = l
        /\ ~OwnsModel => Live' = Live
    BY <1>3, CommitFacts DEF CommittedBy
  <2> QED
    BY <2>1 DEF CurrentInv
<1>4. CASE Ticked
  BY <1>1, <1>2, <1>4 DEF Ticked, Views
<1>5. ASSUME NEW o \in ObserveCalls, AssimilatedBy(o) PROVE CurrentInv'
  BY <1>1, <1>2, <1>5 DEF AssimilatedBy, Views
<1>6. CASE Still
  BY <1>2, <1>6 DEF Still
<1> QED
  BY <1>3, <1>4, <1>5, <1>6, StepView

LEMMA LineageStep ==
    ViewInv /\ LockInv' /\ KnowledgeInv /\ StoredInv /\ LineageInv /\ [Next]_vars => LineageInv'
<1> SUFFICES ASSUME ViewInv, LockInv', KnowledgeInv, StoredInv, LineageInv, [Next]_vars
             PROVE  LineageInv'
  OBVIOUS
<1>1. /\ TypeInv /\ Learned \in Views /\ Stored \in Seq(Receipt)
      /\ \A l \in Published : l \in Published' /\ work'[l] = work[l]
      /\ \A i \in DOMAIN Stored : Stored[i] \in Receipt /\ Stored[i].call \in Published
  BY PublishedKept, PublishedCall, LearnedTyped DEF ViewInv, CustodyInv, StoredInv
<1>2. ASSUME UNCHANGED <<Stored, Live>>, Learned'.model = Learned.model,
             Learned'.policy = Learned.policy, Learned'.lastTime >= Learned.lastTime,
             Learned'.lastTime \in Ticks
      PROVE  LineageInv'
  <2>1. \A i \in 1..(Len(Stored) - 1) : Linked(Stored[i], Stored[i + 1])'
    <3> TAKE i \in 1..(Len(Stored) - 1)
    <3>1. i \in DOMAIN Stored /\ i + 1 \in DOMAIN Stored
      BY <1>1
    <3>2. Linked(Stored[i], Stored[i + 1])
      BY DEF LineageInv
    <3> QED
      BY <1>1, <1>2, <3>1, <3>2 DEF Linked
  <2>2. CASE Stored # <<>>
    <3>1. Len(Stored) \in DOMAIN Stored
      BY <1>1, <2>2
    <3>2. Stored[Len(Stored)].completed <= Learned'.lastTime
      <4>1. /\ Stored[Len(Stored)].completed \in Nat /\ Learned.lastTime \in Nat
            /\ Learned'.lastTime \in Nat
        BY <1>1, <1>2, <3>1, MaxTickAssumption DEF Views, Ticks, Receipt
      <4> QED
        BY <1>2, <2>2, <4>1 DEF LineageInv
    <3> QED
      BY <1>1, <1>2, <2>1, <2>2, <3>1, <3>2 DEF LineageInv
  <2> QED
    BY <1>2, <2>1, <2>2 DEF LineageInv
<1>3. ASSUME NEW l \in LearnCalls, CommittedBy(l) PROVE LineageInv'
  <2> DEFINE r == work[l].receipt
             n == Len(Stored)
  <2>1. /\ r \in Receipt /\ r.call = l /\ UNCHANGED work
        /\ Stored' = Append(Stored, r)
        /\ OwnsModel => Live = work[l].expected /\ Live' = work[l].candidate
        /\ r.prevModel = Learned.model /\ r.prevPolicy = Learned.policy
        /\ r.completed >= Learned.lastTime
        /\ Learned'.model = r.newModel /\ Learned'.policy = r.newPolicy
        /\ Learned'.lastTime = r.completed
    BY <1>3, CommitFacts DEF CommittedBy, UpdateAccepts
  <2> HIDE DEF r
  <2>2. /\ n \in Nat /\ Len(Stored') = n + 1 /\ Stored'[n + 1] = r /\ Stored' # <<>>
        /\ DOMAIN Stored = 1..n
        /\ \A i \in DOMAIN Stored : Stored'[i] = Stored[i]
    BY <1>1, <2>1
  <2> HIDE DEF n
  <2>3. ASSUME NEW i \in 1..n PROVE Linked(Stored[i], Stored[i + 1])'
    <3>1. Stored'[i] = Stored[i] /\ Stored[i] \in Receipt
      BY <1>1, <2>2
    <3>2. CASE i = n
      <4>1. Stored # <<>>
        BY <1>1, <2>2, <3>2
      <4>2. /\ Stored[n].newModel = Learned.model /\ Stored[n].newPolicy = Learned.policy
            /\ Stored[n].completed <= Learned.lastTime
            /\ OwnsModel => Live = work[Stored[n].call].candidate
        BY <4>1 DEF LineageInv, n
      <4>3. Stored[n].completed \in Nat /\ Learned.lastTime \in Nat /\ r.completed \in Nat
        BY <1>1, <2>1, <3>1, <3>2, MaxTickAssumption DEF Views, Ticks, Receipt
      <4>4. r.completed >= Stored[n].completed
        BY <2>1, <4>2, <4>3
      <4> QED
        BY <2>1, <2>2, <3>1, <3>2, <4>2, <4>4 DEF Linked, r
    <3>3. CASE i # n
      <4>1. i \in 1..(Len(Stored) - 1) /\ i + 1 \in DOMAIN Stored
        <5>1. i \in 1..(n - 1) /\ i + 1 \in 1..n
          BY <2>2, <3>3
        <5> QED
          BY <2>2, <5>1 DEF n
      <4>2. Linked(Stored[i], Stored[i + 1])
        BY <4>1 DEF LineageInv
      <4> QED
        BY <2>1, <2>2, <3>1, <4>1, <4>2 DEF Linked
    <3> QED
      BY <3>2, <3>3
  <2>4. r.completed \in Nat
    BY <2>1, MaxTickAssumption DEF Ticks, Receipt
  <2> QED
    BY <2>1, <2>2, <2>3, <2>4 DEF LineageInv, r
<1>4. CASE Ticked
  <2>1. PICK at \in Ticks : at >= Learned.lastTime /\ Learned' = [Learned EXCEPT !.lastTime = at]
                            /\ UNCHANGED <<Stored, Live>>
    BY <1>4 DEF Ticked
  <2> QED
    BY <1>1, <1>2, <2>1 DEF Views
<1>5. ASSUME NEW o \in ObserveCalls, AssimilatedBy(o) PROVE LineageInv'
  <2>1. work[o].source.posterior.formed \in Ticks
    BY <1>1 DEF TypeInv, TypeOK, Calls, Locals, Transition, Belief
  <2>2. /\ Learned'.model = Learned.model /\ Learned'.policy = Learned.policy
        /\ Learned'.lastTime = work[o].source.posterior.formed
        /\ Learned'.lastTime >= Learned.lastTime /\ UNCHANGED <<Stored, Live>>
    BY <1>1, <1>5 DEF AssimilatedBy, Views
  <2> QED
    BY <1>2, <2>1, <2>2
<1>6. CASE Still
  <2>1. Learned.lastTime \in Ticks /\ Learned.lastTime \in Nat
    BY <1>1, MaxTickAssumption DEF Views, Ticks
  <2> QED
    BY <1>2, <1>6, <2>1 DEF Still
<1> QED
  BY <1>3, <1>4, <1>5, <1>6, StepView

\* A view that can be captured stays one.
LEMMA CoherentStep ==
    ViewInv /\ LockInv' /\ KnowledgeInv /\ CurrentInv /\ CoherentInv /\ [Next]_vars => CoherentInv'
<1> SUFFICES ASSUME ViewInv, LockInv', KnowledgeInv, CurrentInv, [Next]_vars,
                    "rolled_back" \notin Statuses, Settled(Learned)
             PROVE  Settled(Learned')
  BY DEF CoherentInv, Settled, Descends
<1>1. TypeInv /\ Learned \in Views
  BY LearnedTyped DEF ViewInv, CustodyInv
<1>2. CASE Still
  BY <1>2 DEF Still
<1>3. CASE Ticked
  BY <1>1, <1>3 DEF Ticked, Views, Settled
<1>4. ASSUME NEW l \in LearnCalls, CommittedBy(l) PROVE Settled(Learned')
  <2> DEFINE r == work[l].receipt
  <2>1. /\ r \in Receipt /\ WellFormed(r)
        /\ r.prevModel = Learned.model
        /\ Learned'.latest = r /\ Learned'.model = r.newModel /\ Learned'.policy = r.newPolicy
        /\ Learned'.belief = IF r.resulting = NoBelief THEN Learned.belief ELSE r.resulting
    BY <1>4, CommitFacts DEF UpdateAccepts
  <2>2. r.status \in {"applied", "rejected"}
    BY <2>1, StatusesAssumption DEF Receipt
  <2>3. r.resulting # NoBelief => r.resulting.model = r.newModel
    BY <1>4, <2>1 DEF ViewInv, Drafted
  <2>4. r.resulting = NoBelief => r.newModel = Learned.model
    BY <2>1, <2>2 DEF WellFormed
  <2> QED
    BY <2>1, <2>3, <2>4 DEF Settled
<1>5. ASSUME NEW o \in ObserveCalls, AssimilatedBy(o) PROVE Settled(Learned')
  <2> DEFINE p == work[o].source.posterior
  <2>1. /\ p.model = Learned.belief.model
        /\ p.id = o /\ Extends(p, Learned.belief, o) /\ o \notin Learned.belief.evidence
        /\ p.formed >= Learned.belief.formed
    BY <1>5, AssimilationFacts
  <2>2. /\ Learned'.belief = p /\ Learned'.model = Learned.model
        /\ Learned'.policy = Learned.policy /\ Learned'.latest = Learned.latest
    BY <1>1, <1>5 DEF AssimilatedBy, Views
  <2>3. p \in Belief
    BY <1>1 DEF TypeInv, TypeOK, Calls, Locals, Transition
  <2> HIDE DEF p
  <2>4. ASSUME Learned.latest # NoReceipt, Learned.latest.resulting # NoBelief
        PROVE  Descends(p, Learned.latest.resulting)
    <3> DEFINE b == Learned.latest.resulting
    <3>1. b \in Known /\ b \in Belief
      <4>1. PICK l \in Published : Learned.latest = work[l].receipt
        BY <2>4 DEF CurrentInv
      <4> QED
        BY <2>4, <4>1, PublishedCall DEF Receipt
    <3>2. Learned.belief \in Known /\ Learned.belief \in Belief
      BY <1>1 DEF KnowledgeInv, Views
    <3>3. Learned.belief.id = b.id \/ Descends(Learned.belief, b)
      BY <2>4 DEF Settled
    <3>4. /\ b.formed \in Nat /\ p.formed \in Nat /\ Learned.belief.formed \in Nat
      BY <2>3, <3>1, <3>2, MaxTickAssumption DEF Belief, Ticks
    <3> HIDE DEF b
    <3>5. CASE Learned.belief.id = b.id
      <4>1. Learned.belief = b
        BY <3>1, <3>2, <3>5, KnownById
      <4> QED
        BY <2>1, <3>4, <4>1 DEF Descends, Extends, b
    <3>6. CASE Descends(Learned.belief, b)
      <4>1. b.evidence \subseteq p.evidence /\ (o \in p.evidence => b.evidence # p.evidence)
        BY <2>1, <3>6 DEF Descends, Extends
      <4>2. p.formed >= b.formed
        BY <2>1, <3>4, <3>6 DEF Descends
      <4> QED
        BY <2>1, <4>1, <4>2 DEF Descends, b
    <3> QED
      BY <3>3, <3>5, <3>6
  <2> QED
    BY <2>1, <2>2, <2>4 DEF Settled
<1> QED
  BY <1>2, <1>3, <1>4, <1>5, StepView

LEMMA HistoryHolds == Spec => [](ViewInv /\ KnowledgeInv /\ HistoryInv)
<1>1. Init => HistoryInv
  <2> SUFFICES ASSUME Init PROVE HistoryInv
    OBVIOUS
  <2>1. Quiet /\ Published = {}
    <3>1. \A l \in LearnCalls : pc[l] = "inputs"
      BY DEF Init, Calls
    <3> QED
      BY <3>1 DEF Quiet, Committing, Published
  <2>2. Learned = View(state) /\ Stored = ledger.updates /\ Live = model.live
    BY <2>1, QuietView
  <2>3. /\ Stored = <<>> /\ Live.payload = Genesis /\ Learned.latest = NoReceipt
        /\ Learned.belief.model = Learned.model
    BY <2>2 DEF Init, View, InitModel, InitBelief
  <2> QED
    BY <2>1, <2>3 DEF HistoryInv, StoredInv, CurrentInv, LineageInv, CoherentInv, Settled
<1>2. ViewInv /\ ViewInv' /\ KnowledgeInv /\ HistoryInv /\ [Next]_vars => HistoryInv'
  BY StoredStep, CurrentStep, LineageStep, CoherentStep DEF ViewInv, CustodyInv, HistoryInv
<1> QED
  BY <1>1, <1>2, KnowledgeHolds, PTL DEF Spec

-----------------------------------------------------------------------------
(* The participants themselves, in the middle of a commit too.             *)

\* The ledger holds the visible history, or one receipt more.
LEMMA LedgerNow ==
    ASSUME ViewInv
    PROVE  \/ ledger.updates = Stored
           \/ \E l \in LearnCalls : /\ pc[l] \in WithTokens
                                    /\ ledger.updates = Append(Stored, work[l].receipt)
<1>1. CASE Quiet
  BY <1>1, QuietView
<1>2. CASE ~Quiet
  <2>1. PICK l \in LearnCalls : pc[l] \in WithTokens
    BY <1>2, QuietOrCommitting
  <2>2. Stored = StoredAt(l) /\ ledger.updates \in Seq(Receipt) /\ CompensableAt(l)
    BY <2>1, CommitView DEF ViewInv, CustodyInv, TypeInv, TypeOK, Ledgers, Compensable
  <2>3. CASE LedgerOpen(l)
    BY <2>2, <2>3 DEF StoredAt
  <2>4. CASE ~LedgerOpen(l)
    <3>1. LedgerDone(l)
      BY <2>1, <2>2, <2>4 DEF CompensableAt, WithTokens
    <3>2. Stored = SubSeq(ledger.updates, 1, Len(ledger.updates) - 1)
      BY <2>2, <2>4 DEF StoredAt
    <3> QED
      BY <2>1, <2>2, <3>1, <3>2, AppendBack DEF LedgerDone, LedgerRollsBack
  <2> QED
    BY <2>3, <2>4
<1> QED
  BY <1>1, <1>2

\* The state is as seen, or has the receipt of a commit applied.
Shown ==
    \/ state.belief = Learned.belief /\ state.latest = Learned.latest
    \/ \E l \in LearnCalls :
         /\ pc[l] \in WithTokens /\ work[l].receipt \in Receipt
         /\ state.latest = work[l].receipt
         /\ state.belief \in {Learned.belief, work[l].receipt.resulting}
         /\ state.belief = Learned.belief \/ work[l].receipt.resulting # NoBelief

\* The state and the model are as seen, or as a commit is about to leave them.
LEMMA ParticipantsNow ==
    ASSUME ViewInv
    PROVE  /\ Shown
           /\ \/ model.live = Live
              \/ \E l \in LearnCalls : pc[l] \in WithTokens /\ model.live = work[l].candidate
<1>1. CASE Quiet
  BY <1>1, QuietView DEF View, Shown
<1>2. CASE ~Quiet
  <2>1. PICK l \in LearnCalls : pc[l] \in WithTokens
    BY <1>2, QuietOrCommitting
  <2> DEFINE token == work[l].stateToken
             r == work[l].receipt
  <2>2. /\ Learned = View(token)
        /\ Live = IF OwnsModel THEN work[l].expected ELSE model.live
        /\ CompensableAt(l) /\ AgreementAt(l) /\ ExactAt(l)
        /\ r \in Receipt /\ token \in StateToken
    BY <2>1, CommitView DEF ViewInv, CustodyInv, AgreeInv, Remembered, Exact, Compensable, TypeInv,
                            Prepared, WithReceipt
  <2>3. StateOpen(l) \/ StateDone(l)
    BY <2>1, <2>2 DEF CompensableAt, AgreementAt, WithTokens
  <2>4. ASSUME StateOpen(l) PROVE Shown
    <3>1. LearningState(state) = token
      BY <2>2, <2>4 DEF ExactAt
    <3>2. state.belief = Learned.belief /\ state.latest = Learned.latest
      BY <2>2, <3>1 DEF LearningState, View
    <3> QED
      BY <3>2 DEF Shown
  <2>5. ASSUME StateDone(l) PROVE Shown
    <3>1. LearningState(state) = ApplyUpdate(token, r)
      BY <2>2, <2>5 DEF ExactAt
    <3>2. /\ LearningState(state).latest = state.latest
          /\ LearningState(state).belief = state.belief
      BY DEF LearningState
    <3>3. /\ ApplyUpdate(token, r).latest = r
          /\ ApplyUpdate(token, r).belief = IF r.resulting # NoBelief THEN r.resulting
                                            ELSE token.belief
      BY <2>2 DEF ApplyUpdate, StateToken
    <3>4. Learned.belief = token.belief
      BY <2>2 DEF View
    <3> QED
      BY <2>1, <2>2, <3>1, <3>2, <3>3, <3>4 DEF Shown
  <2>6. model.live = Live \/ model.live = work[l].candidate
    BY <2>1, <2>2 DEF CompensableAt, AgreementAt, WithTokens, Reserved, SwapRollsBack
  <2> QED
    BY <2>1, <2>3, <2>4, <2>5, <2>6
<1> QED
  BY <1>1, <1>2

\* However many calls fail at whatever stage, a call that raised has left nothing in the
\* ledger, the state or the model, and one that returned is in the ledger exactly once
\* (agent.py 530-610).
THEOREM AlwaysAllOrNothing == Spec => []AllOrNothing
<1>1. ViewInv /\ KnowledgeInv /\ HistoryInv => AllOrNothing
  <2> SUFFICES ASSUME ViewInv, KnowledgeInv, HistoryInv, NEW l \in LearnCalls
               PROVE  LET mine == {i \in DOMAIN ledger.updates : ledger.updates[i].call = l} IN
                      /\ pc[l] = "done" => Cardinality(mine) = 1
                      /\ pc[l] = "failed" => /\ mine = {}
                                             /\ model.live.payload # l
                                             /\ state.belief.id # l
                                             /\ \/ state.latest = NoReceipt
                                                \/ state.latest.call # l
    BY DEF AllOrNothing
  <2> DEFINE mine == {i \in DOMAIN ledger.updates : ledger.updates[i].call = l}
  <2>1. \A k \in LearnCalls : pc[k] \in WithTokens =>
          /\ work[k].receipt \in Receipt /\ work[k].receipt.call = k
          /\ work[k].candidate.payload = k
          /\ work[k].receipt.resulting # NoBelief => work[k].receipt.resulting.id = k
    BY DEF ViewInv, CustodyInv, TypeInv, Prepared, WithReceipt, Drafted
  <2>2. /\ Stored \in Seq(Receipt)
        /\ \A i \in DOMAIN Stored : Stored[i].call \in Published
        /\ \A i, j \in DOMAIN Stored : Stored[i].call = Stored[j].call => i = j
        /\ \A k \in Published : \E i \in DOMAIN Stored : Stored[i].call = k
    BY PublishedCall DEF HistoryInv, StoredInv
  <2>3. CASE pc[l] = "done"
    <3>1. l \in Published /\ pc[l] \notin WithTokens
      BY <2>3 DEF Published, WithTokens
    <3>2. PICK i \in DOMAIN Stored : Stored[i].call = l
      BY <2>2, <3>1
    <3>3. mine = {i}
      <4>1. CASE ledger.updates = Stored
        BY <2>2, <3>2, <4>1
      <4>2. CASE ledger.updates # Stored
        <5>1. PICK k \in LearnCalls : /\ pc[k] \in WithTokens
                                      /\ ledger.updates = Append(Stored, work[k].receipt)
          BY <4>2, LedgerNow
        <5>2. /\ DOMAIN ledger.updates = DOMAIN Stored \cup {Len(Stored) + 1}
              /\ ledger.updates[Len(Stored) + 1] = work[k].receipt
              /\ \A j \in DOMAIN Stored : ledger.updates[j] = Stored[j]
          BY <2>1, <2>2, <5>1
        <5>3. work[k].receipt.call # l
          BY <2>1, <3>1, <5>1
        <5> QED
          BY <2>2, <3>2, <5>2, <5>3
      <4> QED
        BY <4>1, <4>2
    <3> QED
      BY <2>3, <3>3, FS_Singleton
  <2>4. CASE pc[l] = "failed"
    <3>1. l \notin Published /\ pc[l] \notin WithTokens
      BY <2>4 DEF Published, WithTokens
    <3>2. mine = {}
      <4>1. CASE ledger.updates = Stored
        BY <2>2, <3>1, <4>1
      <4>2. CASE ledger.updates # Stored
        <5>1. PICK k \in LearnCalls : /\ pc[k] \in WithTokens
                                      /\ ledger.updates = Append(Stored, work[k].receipt)
          BY <4>2, LedgerNow
        <5>2. /\ DOMAIN ledger.updates = DOMAIN Stored \cup {Len(Stored) + 1}
              /\ ledger.updates[Len(Stored) + 1] = work[k].receipt
              /\ \A j \in DOMAIN Stored : ledger.updates[j] = Stored[j]
          BY <2>1, <2>2, <5>1
        <5>3. work[k].receipt.call # l
          BY <2>1, <3>1, <5>1
        <5> QED
          BY <2>2, <3>1, <5>2, <5>3
      <4> QED
        BY <4>1, <4>2
    <3>3. model.live.payload # l
      BY <2>1, <3>1, ParticipantsNow, CallsAssumption DEF HistoryInv, CurrentInv, Calls
    <3>4. \A b \in Known : b.id # l
      <4>1. \A t \in Entries : t.id # l /\ t.posterior.id = t.id
        <5>1. ledger.transitions \in Seq(Transition)
          BY DEF ViewInv, CustodyInv, TypeInv, TypeOK, Ledgers
        <5>2. \A t \in Entries : t \in Transition
          BY <5>1 DEF Entries, EntriesOf
        <5>3. \A t \in Entries : t.id \in Evidence
          BY <5>2 DEF Transition
        <5> QED
          BY <5>3, CallsAssumption DEF Evidence, Calls, KnowledgeInv, TransitionsInv
      <4>2. \A k \in Resulted : k # l /\ work[k].receipt.resulting.id = k
        BY <3>1, PublishedCall DEF Resulted
      <4> QED
        BY <4>1, <4>2 DEF Known
    <3>5. state.belief.id # l
      BY <2>1, <3>1, <3>4, ParticipantsNow DEF KnowledgeInv, Shown
    <3>6. state.latest = NoReceipt \/ state.latest.call # l
      BY <2>1, <3>1, ParticipantsNow, PublishedCall DEF HistoryInv, CurrentInv, Shown
    <3> QED
      BY <2>4, <3>2, <3>3, <3>5, <3>6
  <2> QED
    BY <2>3, <2>4
<1> QED
  BY <1>1, HistoryHolds, PTL

\* Consecutive receipts continue one another, down to the bytes their learners worked
\* from, even when version labels come back (learning.py 125-140, agent.py 496-520).
THEOREM LineageNeverBroken == Spec => []LineageUnbroken
<1>1. ViewInv /\ KnowledgeInv /\ HistoryInv => LineageUnbroken
  <2> SUFFICES ASSUME ViewInv, KnowledgeInv, HistoryInv,
                      NEW i \in 1..(Len(ledger.updates) - 1)
               PROVE  Linked(ledger.updates[i], ledger.updates[i + 1])
    BY DEF LineageUnbroken, Linked
  <2>1. /\ Stored \in Seq(Receipt) /\ LineageInv
        /\ \A j \in DOMAIN Stored : Stored[j] \in Receipt
    BY DEF HistoryInv, StoredInv
  <2>2. CASE ledger.updates = Stored
    BY <2>1, <2>2 DEF LineageInv
  <2>3. CASE ledger.updates # Stored
    <3>1. PICK l \in LearnCalls : /\ pc[l] \in WithTokens
                                  /\ ledger.updates = Append(Stored, work[l].receipt)
      BY <2>3, LedgerNow
    <3> DEFINE r == work[l].receipt
               n == Len(Stored)
    <3>2. /\ r \in Receipt /\ r.call = l /\ ExactAt(l) /\ LockInv /\ TypeInv
          /\ work[l].stateToken \in StateToken
      BY <3>1 DEF ViewInv, CustodyInv, TypeInv, Prepared, WithReceipt, Drafted, Exact
    <3>3. /\ n \in Nat /\ DOMAIN Stored = 1..n /\ i \in 1..n
          /\ ledger.updates[n + 1] = r
          /\ \A j \in 1..n : ledger.updates[j] = Stored[j]
      BY <2>1, <3>1, <3>2
    <3>4. CASE i = n
      <4>1. /\ Learned = View(work[l].stateToken)
            /\ OwnsModel => Live = work[l].expected
        BY <3>1, <3>2, CommitView
      <4>2. /\ r.prevModel = Learned.model /\ r.prevPolicy = Learned.policy
            /\ r.completed >= Learned.lastTime
        BY <3>2, <4>1 DEF ExactAt, UpdateAccepts, View
      <4>3. Stored # <<>>
        BY <2>1, <3>3, <3>4
      <4>4. /\ Stored[n].newModel = Learned.model /\ Stored[n].newPolicy = Learned.policy
            /\ Stored[n].completed <= Learned.lastTime
            /\ OwnsModel => Live = work[Stored[n].call].candidate
        BY <2>1, <4>3 DEF LineageInv
      <4>5. Stored[n].completed \in Nat /\ Learned.lastTime \in Nat /\ r.completed \in Nat
        BY <2>1, <3>2, <3>3, <3>4, LearnedTyped, MaxTickAssumption DEF Views, Ticks, Receipt
      <4>6. r.completed >= Stored[n].completed
        BY <4>2, <4>4, <4>5
      <4>7. ledger.updates[i] = Stored[n] /\ ledger.updates[i + 1] = r
        BY <3>3, <3>4
      <4> HIDE DEF r, n
      <4>8. Linked(Stored[n], r)
        BY <3>2, <4>1, <4>2, <4>4, <4>6 DEF Linked
      <4> QED
        BY <4>7, <4>8
    <3>5. CASE i # n
      <4> HIDE DEF n
      <4>1. i \in 1..(n - 1) /\ i + 1 \in 1..n
        BY <3>3, <3>5
      <4>2. Linked(Stored[i], Stored[i + 1])
        BY <2>1, <4>1 DEF LineageInv, n
      <4> QED
        BY <3>3, <4>1, <4>2
    <3> QED
      BY <3>4, <3>5
  <2> QED
    BY <2>2, <2>3
<1> QED
  BY <1>1, HistoryHolds, PTL

\* No sequence of commits and assimilations, in any order, leaves an agent that cannot be
\* captured, as long as no learner returns a rolled-back receipt and the last observation
\* was a new one; the belief is of the state's model in any case (docs/architecture.md
\* 97-104; the runs learning_rollback_receipt and learning_repeated_observation show what
\* such a receipt and a known observation do).
THEOREM SnapshotAlwaysCoherent ==
    "rolled_back" \notin Statuses => (Spec => []SnapshotCoherent)
<1> SUFFICES ASSUME "rolled_back" \notin Statuses PROVE Spec => []SnapshotCoherent
  OBVIOUS
<1>1. HistoryInv => SnapshotCoherent
  <2> SUFFICES ASSUME HistoryInv, Quiet
               PROVE  /\ state.belief.model = state.model
                      /\ NewlyObserved => Coherent(state)
    BY DEF SnapshotCoherent
  <2>1. Settled(Learned) /\ Learned = View(state)
    BY QuietView DEF HistoryInv, CoherentInv
  <2>2. Settled(state)
    BY <2>1 DEF Settled, View
  <2> QED
    BY <2>2 DEF Settled, Descends, Coherent, StrictDescendant, NewlyObserved
<1> QED
  BY <1>1, HistoryHolds, PTL

=============================================================================
