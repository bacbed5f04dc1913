---------------------- MODULE LearningTransactionProofs ----------------------
(***************************************************************************)
(* What LearningTransaction guarantees for any number of learners and      *)
(* observers, any versions and any clock: types, exclusive custody of the  *)
(* participants during a commit, that compensation never fails, and that   *)
(* the calls neither block one another for ever nor go round in circles.   *)
(***************************************************************************)
EXTENDS LearningTransaction, TLAPS

\* Where a learn call has a validated receipt, and where it also has rollback tokens.
WithTokens == {"commitLedger", "commitState", "commitModel",
               "rollbackModel", "rollbackState", "rollbackLedger"}
WithReceipt == WithTokens \cup {"lockState", "lockLedger", "lockModel", "preflight"}

Prepared ==
    \A l \in LearnCalls :
      /\ pc[l] \in WithReceipt => work[l].receipt \in Receipt
      /\ pc[l] \in WithTokens => /\ work[l].stateToken \in StateToken
                                 /\ work[l].ledgerToken \in LedgerTokens

TypeInv == TypeOK /\ Prepared

-----------------------------------------------------------------------------
(* The operators of the participants keep their types.                     *)

\* Registering and consuming a decision keep an agent state well typed.
LEMMA DecisionStepsType ==
    ASSUME NEW s \in AgentStates, NEW o \in ObserveCalls, NEW d, d.id = o, d.at \in Ticks
    PROVE  /\ Register(s, d) \in AgentStates
           /\ Consume(s, d) \in AgentStates
<1>1. s.gen + 1 \in Nat
  BY DEF AgentStates
<1>2. s.pending \cup {o} \in SUBSET ObserveCalls /\ s.pending \ {o} \in SUBSET ObserveCalls
  BY DEF AgentStates
<1>3. Register(s, d) \in AgentStates
  BY <1>1, <1>2 DEF AgentStates, Register
<1>4. Consume(s, d) \in AgentStates
  BY <1>1, <1>2 DEF AgentStates, Consume
<1> QED
  BY <1>3, <1>4

\* So do assimilating a stored transition and counting its step.
LEMMA EvidenceStepsType ==
    ASSUME NEW s \in AgentStates, NEW u \in Transition
    PROVE  /\ Assimilate(s, u) \in AgentStates
           /\ AddResource(s, u.at) \in AgentStates
<1>1. s.gen + 1 \in Nat /\ s.steps + 1 \in Nat
  BY DEF AgentStates
<1>2. u.posterior \in Belief /\ u.posterior.formed \in Ticks /\ u.at \in Ticks
  BY DEF Transition, Belief
<1>3. Assimilate(s, u) \in AgentStates
  BY <1>1, <1>2 DEF AgentStates, Assimilate
<1>4. AddResource(s, u.at) \in AgentStates
  BY <1>1, <1>2 DEF AgentStates, AddResource
<1> QED
  BY <1>3, <1>4

\* Applying a receipt and taking it back keep an agent state well typed.
LEMMA ApplyType ==
    ASSUME NEW s \in AgentStates, NEW r \in Receipt
    PROVE  ApplyUpdate(s, r) \in AgentStates
<1> DEFINE applied == r.status # "rejected"
           version == IF applied THEN r.newModel ELSE s.model
           policy == IF applied THEN r.newPolicy ELSE s.policy
           belief == IF r.resulting # NoBelief THEN r.resulting ELSE s.belief
<1>1. s.gen + 1 \in Nat
  BY DEF AgentStates
<1>2. version \in Versions /\ policy \in Policies /\ belief \in Belief
  BY DEF AgentStates, Receipt
<1>3. r \in Receipt \cup {NoReceipt} /\ r.completed \in Ticks
  BY DEF Receipt
<1>4. ApplyUpdate(s, r) = [s EXCEPT !.model = version, !.policy = policy, !.belief = belief,
                                    !.latest = r, !.lastTime = r.completed, !.gen = s.gen + 1]
  BY DEF ApplyUpdate, AgentStates
<1> HIDE DEF version, policy, belief
<1> QED
  BY <1>1, <1>2, <1>3, <1>4 DEF AgentStates

LEMMA RestoreType ==
    ASSUME NEW s \in AgentStates, NEW b \in StateToken
    PROVE  Restore(s, b) \in AgentStates
  BY DEF AgentStates, Restore, StateToken

LEMMA TokenType ==
    ASSUME NEW s \in AgentStates, NEW g \in Ledgers
    PROVE  /\ LearningState(s) \in StateToken
           /\ LedgerToken(g) \in LedgerTokens
  BY DEF AgentStates, LearningState, StateToken, Ledgers, LedgerToken, LedgerTokens

\* Appending to the ledger and removing the last receipt keep it well typed.
LEMMA AppendTransitionType ==
    ASSUME NEW g \in Ledgers, NEW t \in Transition
    PROVE  AppendTransition(g, t) \in Ledgers
<1>1. g.gen + 1 \in Nat /\ Append(g.transitions, t) \in Seq(Transition) /\ t.at \in Ticks
  BY DEF Ledgers, Transition
<1> QED
  BY <1>1 DEF Ledgers, AppendTransition

LEMMA AppendReceiptType ==
    ASSUME NEW g \in Ledgers, NEW r \in Receipt
    PROVE  AppendReceipt(g, r) \in Ledgers
<1>1. g.gen + 1 \in Nat /\ Append(g.updates, r) \in Seq(Receipt) /\ r.completed \in Ticks
  BY DEF Ledgers, Receipt
<1> QED
  BY <1>1 DEF Ledgers, AppendReceipt

LEMMA RemoveType ==
    ASSUME NEW g \in Ledgers, NEW k \in LedgerTokens, g.updates # <<>>
    PROVE  RemoveReceipt(g, k) \in Ledgers
<1>1. SubSeq(g.updates, 1, Len(g.updates) - 1) \in Seq(Receipt)
  BY DEF Ledgers
<1> QED
  BY <1>1 DEF Ledgers, RemoveReceipt, LedgerTokens

LEMMA OwnerType ==
    ASSUME NEW m \in Owners, NEW l \in LearnCalls, NEW c \in Model
    PROVE  /\ Reserve(m, l) \in Owners
           /\ CommitSwap(m, c) \in Owners
           /\ RestoreModel(m, c) \in Owners
  BY DEF Owners, Reserve, CommitSwap, RestoreModel

-----------------------------------------------------------------------------
(* One step of a call, as a change of its control state and its locals.    *)

LEMMA CallStep ==
    ASSUME TypeInv, NEW c \in Calls, NEW to \in PcStates, NEW w \in Locals,
           pc' = [pc EXCEPT ![c] = to],
           work' = [work EXCEPT ![c] = w],
           to \in WithReceipt => w.receipt \in Receipt,
           to \in WithTokens => w.stateToken \in StateToken /\ w.ledgerToken \in LedgerTokens,
           state' \in AgentStates, ledger' \in Ledgers, model' \in Owners,
           lock' \in [Participants -> LearnCalls \cup {NoCall}]
    PROVE  TypeInv'
<1>1. pc' \in [Calls -> PcStates] /\ work' \in [Calls -> Locals]
  BY DEF TypeInv, TypeOK
<1>2. Prepared'
  <2> SUFFICES ASSUME NEW l \in LearnCalls
               PROVE  /\ pc'[l] \in WithReceipt => work'[l].receipt \in Receipt
                      /\ pc'[l] \in WithTokens => /\ work'[l].stateToken \in StateToken
                                                  /\ work'[l].ledgerToken \in LedgerTokens
    BY DEF Prepared
  <2>1. l \in Calls
    BY DEF Calls
  <2>2. CASE l = c
    BY <2>1, <2>2 DEF TypeInv, TypeOK
  <2>3. CASE l # c
    BY <2>1, <2>3 DEF TypeInv, TypeOK, Prepared
  <2> QED
    BY <2>2, <2>3
<1> QED
  BY <1>1, <1>2 DEF TypeInv, TypeOK

\* The same for a step that keeps the call's locals.
LEMMA GotoStep ==
    ASSUME TypeInv, NEW c \in Calls, NEW to \in PcStates,
           Goto(c, to), UNCHANGED work,
           to \in WithReceipt => pc[c] \in WithReceipt,
           to \in WithTokens => pc[c] \in WithTokens,
           c \in LearnCalls \/ to \notin WithReceipt,
           state' \in AgentStates, ledger' \in Ledgers, model' \in Owners,
           lock' \in [Participants -> LearnCalls \cup {NoCall}]
    PROVE  TypeInv'
<1>1. work[c] \in Locals /\ work' = [work EXCEPT ![c] = work[c]]
  BY DEF TypeInv, TypeOK
<1>2. WithTokens \subseteq WithReceipt
  BY DEF WithReceipt
<1>3. to \in WithReceipt => work[c].receipt \in Receipt
  BY DEF TypeInv, Prepared
<1>4. to \in WithTokens => work[c].stateToken \in StateToken /\ work[c].ledgerToken \in LedgerTokens
  BY <1>2 DEF TypeInv, Prepared
<1> QED
  BY <1>1, <1>3, <1>4, CallStep DEF Goto

LEMMA NoWorkType == NoWork \in Locals
<1>1. InitBelief \in Belief /\ InitModel \in Model
  BY VersionsAssumption, MaxTickAssumption
     DEF InitBelief, InitModel, Belief, Model, BeliefIds, Evidence, Ticks
<1>2. InitTransition \in Transition
  BY <1>1, MaxTickAssumption DEF InitTransition, Transition, BeliefIds, Evidence, Ticks
<1> QED
  BY <1>1, <1>2, VersionsAssumption, MaxTickAssumption DEF NoWork, Locals, Ticks

\* The same for a call that raises.
LEMMA FailStep ==
    ASSUME TypeInv, NEW c \in Calls, Fail(c),
           state' \in AgentStates, ledger' \in Ledgers, model' \in Owners,
           lock' \in [Participants -> LearnCalls \cup {NoCall}]
    PROVE  TypeInv'
<1>1. "failed" \in PcStates /\ "failed" \notin WithReceipt /\ "failed" \notin WithTokens
  BY DEF PcStates, Terminal, WithReceipt, WithTokens
<1> QED
  BY <1>1, NoWorkType, CallStep DEF Fail, Goto

-----------------------------------------------------------------------------
(* Types: the initial state and every action of a learn call.              *)

LEMMA InitType == Init => TypeInv
<1> SUFFICES ASSUME Init PROVE TypeInv
  OBVIOUS
<1>1. InitBelief \in Belief /\ InitModel \in Model
  BY VersionsAssumption, MaxTickAssumption
     DEF InitBelief, InitModel, Belief, Model, BeliefIds, Evidence, Ticks
<1>2. InitTransition \in Transition
  BY <1>1, MaxTickAssumption DEF InitTransition, Transition, BeliefIds, Evidence, Ticks
<1>3. state \in AgentStates
  BY <1>1, VersionsAssumption, MaxTickAssumption DEF Init, AgentStates, Ticks
<1>4. ledger \in Ledgers
  <2>1. <<InitTransition>> \in Seq(Transition) /\ << >> \in Seq(Receipt) /\ 0 \in Ticks
    BY <1>2, MaxTickAssumption DEF Ticks
  <2> QED
    BY <2>1 DEF Init, Ledgers
<1>5. model \in Owners
  BY <1>1 DEF Init, Owners
<1>6. lock \in [Participants -> LearnCalls \cup {NoCall}]
  BY DEF Init
<1>7. pc \in [Calls -> PcStates] /\ \A c \in Calls : pc[c] \notin WithReceipt
  BY DEF Init, PcStates, Terminal, WithReceipt, WithTokens
<1>8. work \in [Calls -> Locals]
  BY NoWorkType DEF Init
<1>9. Prepared
  BY <1>7 DEF Prepared, WithReceipt, Calls
<1> QED
  BY <1>3, <1>4, <1>5, <1>6, <1>7, <1>8, <1>9 DEF TypeInv, TypeOK

LEMMA InputTypes ==
    ASSUME TypeInv, NEW l \in LearnCalls,
           CheckInputs(l) \/ TakeSnapshot(l) \/ ReadModel(l)
    PROVE  TypeInv'
<1>1. l \in Calls /\ work[l] \in Locals
  BY DEF TypeInv, TypeOK, Calls
<1>2. {"snapshot", "readModel", "propose"} \subseteq PcStates
  BY DEF PcStates
<1>3. {"snapshot", "readModel", "propose"} \cap WithReceipt = {} /\ WithTokens \subseteq WithReceipt
  BY DEF WithReceipt, WithTokens
<1>4. CASE CheckInputs(l)
  <2>1. PICK t \in EntriesOf(ledger.transitions) : work' = [work EXCEPT ![l].source = t]
    BY <1>4 DEF CheckInputs
  <2>2. t \in Transition
    BY DEF EntriesOf, TypeInv, TypeOK, Ledgers
  <2>3. [work[l] EXCEPT !.source = t] \in Locals
    BY <1>1, <2>2 DEF Locals
  <2>4. UNCHANGED <<state, ledger, model, lock>> /\ pc' = [pc EXCEPT ![l] = "snapshot"]
    BY <1>4 DEF CheckInputs, Goto
  <2> QED
    BY <1>1, <1>2, <1>3, <2>1, <2>3, <2>4, CallStep DEF TypeInv, TypeOK
<1>5. CASE TakeSnapshot(l)
  <2>1. UNCHANGED <<state, ledger, model, lock>>
    BY <1>5 DEF TakeSnapshot
  <2>2. CASE Fail(l)
    BY <1>1, <2>1, <2>2, FailStep DEF TypeInv, TypeOK
  <2>3. CASE ~Fail(l)
    <3>1. PICK at \in Ticks :
            /\ work' = [work EXCEPT ![l].belief = state.belief, ![l].model = state.model,
                                    ![l].policy = state.policy, ![l].at = at]
            /\ Goto(l, IF OwnsModel THEN "readModel" ELSE "propose")
      BY <1>5, <2>3 DEF TakeSnapshot
    <3> DEFINE w == [work[l] EXCEPT !.belief = state.belief, !.model = state.model,
                                    !.policy = state.policy, !.at = at]
    <3>2. w \in Locals
      BY <1>1 DEF Locals, TypeInv, TypeOK, AgentStates
    <3>3. work' = [work EXCEPT ![l] = w]
      BY <1>1, <3>1 DEF TypeInv, TypeOK
    <3> HIDE DEF w
    <3> QED
      BY <1>1, <1>2, <1>3, <2>1, <3>1, <3>2, <3>3, CallStep DEF TypeInv, TypeOK, Goto
  <2> QED
    BY <2>2, <2>3
<1>6. CASE ReadModel(l)
  <2>1. UNCHANGED <<state, ledger, model, lock>>
    BY <1>6 DEF ReadModel
  <2>2. CASE Fail(l)
    BY <1>1, <2>1, <2>2, FailStep DEF TypeInv, TypeOK
  <2>3. CASE ~Fail(l)
    <3>1. work' = [work EXCEPT ![l].expected = model.live] /\ Goto(l, "propose")
      BY <1>6, <2>3 DEF ReadModel
    <3>2. [work[l] EXCEPT !.expected = model.live] \in Locals
      BY <1>1 DEF Locals, TypeInv, TypeOK, Owners
    <3> QED
      BY <1>1, <1>2, <1>3, <2>1, <3>1, <3>2, CallStep DEF TypeInv, TypeOK, Goto
  <2> QED
    BY <2>2, <2>3
<1> QED
  BY <1>4, <1>5, <1>6

\* The receipt a learner may propose is well typed, and so is the candidate.
LEMMA ProposeType ==
    ASSUME TypeInv, NEW l \in LearnCalls, Propose(l)
    PROVE  TypeInv'
<1>1. l \in Calls /\ work[l] \in Locals
  BY DEF TypeInv, TypeOK, Calls
<1>2. "lockState" \in PcStates /\ "lockState" \notin WithTokens
  BY DEF PcStates, WithTokens
<1>3. UNCHANGED <<state, ledger, model, lock>>
  BY DEF Propose
<1>4. CASE Fail(l)
  BY <1>1, <1>3, <1>4, FailStep DEF TypeInv, TypeOK
<1>5. CASE ~Fail(l)
  <2>1. PICK id \in LearnCalls, status \in Statuses, version \in Versions, policy \in Policies,
             completed \in work[l].at..MaxTick, back \in LearnCalls \cup {NoCall} :
          \E b \in ResultingBeliefs(l, Draft(l, work[l], id, status, version, policy,
                                            completed, back), work[l]) :
             /\ Goto(l, "lockState")
             /\ work' = [work EXCEPT
                  ![l].receipt = [Draft(l, work[l], id, status, version, policy, completed, back)
                                    EXCEPT !.resulting = b],
                  ![l].candidate = [version |-> version, payload |-> l]]
    BY <1>5 DEF Propose
  <2>2. PICK draft : draft = Draft(l, work[l], id, status, version, policy, completed, back)
    OBVIOUS
  <2>3. PICK b \in ResultingBeliefs(l, draft, work[l]) :
             /\ Goto(l, "lockState")
             /\ work' = [work EXCEPT ![l].receipt = [draft EXCEPT !.resulting = b],
                                     ![l].candidate = [version |-> version, payload |-> l]]
    BY <2>1, <2>2
  <2>4. completed \in Ticks /\ \A f \in completed..MaxTick : f \in Ticks
    BY <1>1, MaxTickAssumption DEF Locals, Ticks
  <2>5. draft.completed = completed /\ draft.newModel = version
    BY <2>2 DEF Draft
  <2>6. b \in Belief \cup {NoBelief}
    <3>1. \A e \in ResultingEvidence(work[l]) : e \in SUBSET Evidence
      BY <1>1 DEF ResultingEvidence, Locals, Transition, Belief
    <3>2. \A e \in SUBSET Evidence, f \in Ticks : ResultingBelief(l, draft, e, f) \in Belief
      BY <2>5 DEF ResultingBelief, Belief, BeliefIds, Calls
    <3> QED
      BY <2>3, <2>4, <2>5, <3>1, <3>2 DEF ResultingBeliefs
  <2>7. [draft EXCEPT !.resulting = b] \in Receipt
    BY <1>1, <2>2, <2>4, <2>6 DEF Draft, Receipt, Locals
  <2>8. PICK r \in Receipt : r = [draft EXCEPT !.resulting = b]
    BY <2>7
  <2>9. [version |-> version, payload |-> l] \in Model
    BY DEF Model
  <2> DEFINE v == [work[l] EXCEPT !.receipt = r,
                                  !.candidate = [version |-> version, payload |-> l]]
  <2>10. v \in Locals /\ v.receipt \in Receipt
    BY <1>1, <2>8, <2>9 DEF Locals
  <2>11. work' = [work EXCEPT ![l] = v]
    BY <1>1, <2>3, <2>8 DEF TypeInv, TypeOK
  <2> HIDE DEF v
  <2> QED
    BY <1>1, <1>2, <1>3, <2>3, <2>10, <2>11, CallStep DEF TypeInv, TypeOK, Goto
<1> QED
  BY <1>4, <1>5

LEMMA AcquireType ==
    ASSUME TypeInv, NEW l \in LearnCalls, LockState(l) \/ LockLedger(l) \/ LockModel(l)
    PROVE  TypeInv'
<1>1. PICK p \in Participants, to \in {"lockLedger", "lockModel", "preflight"} : Acquire(l, p, to)
  BY DEF LockState, LockLedger, LockModel, Participants
<1>2. pc[l] \in WithReceipt
  BY DEF LockState, LockLedger, LockModel, WithReceipt
<1>3. to \in PcStates /\ to \in WithReceipt /\ to \notin WithTokens
  BY DEF PcStates, WithReceipt, WithTokens
<1>4. lock' \in [Participants -> LearnCalls \cup {NoCall}]
  BY <1>1 DEF Acquire, TypeInv, TypeOK
<1>5. Goto(l, to) /\ UNCHANGED <<state, ledger, model, work>> /\ l \in Calls
  BY <1>1 DEF Acquire, Calls
<1> QED
  BY <1>2, <1>3, <1>4, <1>5, GotoStep DEF TypeInv, TypeOK

LEMMA PreflightType ==
    ASSUME TypeInv, NEW l \in LearnCalls, Preflight(l)
    PROVE  TypeInv'
<1>1. l \in Calls /\ work[l] \in Locals /\ UNCHANGED <<state, ledger, lock>>
  BY DEF Preflight, TypeInv, TypeOK, Calls
<1>2. {"commitLedger", "abandon"} \subseteq PcStates /\ "abandon" \notin WithReceipt \cup WithTokens
  BY DEF PcStates, WithReceipt, WithTokens
<1>3. CASE Goto(l, "abandon") /\ UNCHANGED <<model, work>>
  BY <1>1, <1>2, <1>3, GotoStep DEF TypeInv, TypeOK
<1>4. CASE ~(Goto(l, "abandon") /\ UNCHANGED <<model, work>>)
  <2>1. /\ work' = [work EXCEPT ![l].stateToken = LearningState(state),
                                ![l].ledgerToken = LedgerToken(ledger)]
        /\ model' = IF OwnsModel THEN Reserve(model, l) ELSE model
        /\ Goto(l, "commitLedger")
    BY <1>4 DEF Preflight
  <2>2. LearningState(state) \in StateToken /\ LedgerToken(ledger) \in LedgerTokens
    BY TokenType DEF TypeInv, TypeOK
  <2> DEFINE w == [work[l] EXCEPT !.stateToken = LearningState(state),
                                  !.ledgerToken = LedgerToken(ledger)]
  <2>3. pc[l] \in WithReceipt /\ work[l].receipt \in Receipt
    BY DEF Preflight, WithReceipt, TypeInv, Prepared
  <2>4. /\ w \in Locals /\ w.receipt \in Receipt
        /\ w.stateToken \in StateToken /\ w.ledgerToken \in LedgerTokens
    BY <1>1, <2>2, <2>3 DEF Locals
  <2>5. work' = [work EXCEPT ![l] = w]
    BY <1>1, <2>1 DEF TypeInv, TypeOK
  <2>6. model' \in Owners
    BY <2>1, <1>1, OwnerType, model \in Owners, work[l].expected \in Model DEF TypeInv, TypeOK, Locals
  <2> HIDE DEF w
  <2> QED
    BY <1>1, <1>2, <2>1, <2>4, <2>5, <2>6, CallStep DEF TypeInv, TypeOK, Goto
<1> QED
  BY <1>3, <1>4

\* The stages of a commit and their compensations: only the participant they name changes.
LEMMA StageType ==
    ASSUME TypeInv, NEW l \in LearnCalls,
           \/ CommitLedger(l) \/ CommitState(l) \/ CommitModel(l)
           \/ RollbackModel(l) \/ RollbackState(l) \/ RollbackLedger(l)
    PROVE  TypeInv'
<1>1. l \in Calls /\ work[l] \in Locals /\ pc[l] \in WithTokens /\ WithTokens \subseteq WithReceipt
  BY DEF TypeInv, TypeOK, Calls, WithReceipt, WithTokens, CommitLedger, CommitState, CommitModel,
         RollbackModel, RollbackState, RollbackLedger
<1>2. /\ work[l].receipt \in Receipt
      /\ work[l].stateToken \in StateToken /\ work[l].ledgerToken \in LedgerTokens
      /\ work[l].expected \in Model /\ work[l].candidate \in Model
  BY <1>1 DEF TypeInv, Prepared, Locals
<1>3. UNCHANGED <<lock, work>>
  BY DEF CommitLedger, CommitState, CommitModel, RollbackModel, RollbackState, RollbackLedger
<1>4. PICK to \in WithTokens \cup {"publish", "abandon", "torn"} : Goto(l, to)
  <2>1. AfterState \in WithTokens \cup {"publish"} /\ FirstRollback \in WithTokens
    BY DEF AfterState, FirstRollback, WithTokens
  <2> QED
    BY <2>1 DEF WithTokens, CommitLedger, CommitState, CommitModel,
                RollbackModel, RollbackState, RollbackLedger
<1>5. to \in PcStates /\ (to \in WithReceipt => to \in WithTokens)
  BY DEF PcStates, WithReceipt, WithTokens
<1>6. state' \in AgentStates
  BY <1>2, ApplyType, RestoreType
     DEF TypeInv, TypeOK, CommitLedger, CommitState, CommitModel,
         RollbackModel, RollbackState, RollbackLedger
<1>7. ledger' \in Ledgers
  <2>1. CASE CommitLedger(l)
    BY <1>2, <2>1, AppendReceiptType DEF TypeInv, TypeOK, CommitLedger
  <2>2. CASE RollbackLedger(l)
    BY <1>2, <2>2, RemoveType DEF TypeInv, TypeOK, RollbackLedger, LedgerRollsBack
  <2> QED
    BY <2>1, <2>2 DEF TypeInv, TypeOK, CommitState, CommitModel, RollbackModel, RollbackState
<1>8. model' \in Owners
  BY <1>2, OwnerType
     DEF TypeInv, TypeOK, CommitLedger, CommitState, CommitModel,
         RollbackModel, RollbackState, RollbackLedger
<1> QED
  BY <1>1, <1>3, <1>4, <1>5, <1>6, <1>7, <1>8, GotoStep DEF TypeInv, TypeOK

LEMMA UnlockType ==
    ASSUME TypeInv, NEW l \in LearnCalls, Unlock(l)
    PROVE  TypeInv'
<1>1. l \in Calls /\ UNCHANGED <<state, ledger, model>>
  BY DEF Calls, Unlock
<1>2. lock' \in [Participants -> LearnCalls \cup {NoCall}]
  BY DEF Unlock, TypeInv, TypeOK
<1>3. {"done", "broken"} \subseteq PcStates /\ {"done", "broken"} \cap WithReceipt = {}
      /\ WithTokens \subseteq WithReceipt
  BY DEF PcStates, Terminal, WithReceipt, WithTokens
<1>4. CASE Fail(l)
  BY <1>1, <1>2, <1>4, FailStep DEF TypeInv, TypeOK
<1>5. CASE ~Fail(l)
  <2>1. PICK to \in {"done", "broken"} : Goto(l, to) /\ UNCHANGED work
    BY <1>5 DEF Unlock
  <2> QED
    BY <1>1, <1>2, <1>3, <2>1, GotoStep DEF TypeInv, TypeOK
<1> QED
  BY <1>4, <1>5

-----------------------------------------------------------------------------
(* Types: the actions of an observe call.                                  *)

LEMMA TransitionOfType ==
    ASSUME TypeInv, NEW o \in ObserveCalls, NEW seen \in Observations(o),
           NEW formed \in Ticks, NEW at \in Ticks
    PROVE  TransitionOf(o, seen, formed, at) \in Transition
<1>1. work[o].belief \in Belief
  BY DEF TypeInv, TypeOK, Calls, Locals
<1>2. [id |-> o, model |-> work[o].belief.model,
       evidence |-> work[o].belief.evidence \cup {seen}, formed |-> formed] \in Belief
  BY <1>1 DEF Belief, BeliefIds, Evidence, Calls, Observations
<1>3. work[o].belief.id \in BeliefIds
  BY <1>1 DEF Belief
<1> QED
  BY <1>2, <1>3 DEF TransitionOf, Transition, Evidence

LEMMA InteractType ==
    ASSUME TypeInv, NEW o \in ObserveCalls, Interact(o)
    PROVE  TypeInv'
<1>1. o \in Calls /\ work[o] \in Locals
  BY DEF TypeInv, TypeOK, Calls
<1> DEFINE Places == {"register", "consume", "append", "assimilate", "account", "done"}
<1>2. Places \subseteq PcStates /\ Places \cap WithReceipt = {} /\ WithTokens \subseteq WithReceipt
  BY DEF PcStates, Terminal, WithReceipt, WithTokens
<1>3. UNCHANGED <<model, lock>>
  BY DEF Interact, DecideSnapshot, RegisterDecision, ConsumeDecision, StoreTransition,
         AssimilateBelief, CountStep, StateStep
<1>4. state' \in AgentStates
  <2>1. Decision(o).id = o /\ Decision(o).at = work[o].at /\ work[o].at \in Ticks
    BY <1>1 DEF Decision, Locals
  <2>2. work[o].source \in Transition
    BY <1>1 DEF Locals
  <2>3. CASE RegisterDecision(o)
    BY <2>1, <2>3, DecisionStepsType DEF TypeInv, TypeOK, RegisterDecision, StateStep
  <2>4. CASE ConsumeDecision(o)
    BY <2>1, <2>4, DecisionStepsType DEF TypeInv, TypeOK, ConsumeDecision, StateStep
  <2>5. CASE AssimilateBelief(o)
    BY <2>2, <2>5, EvidenceStepsType DEF TypeInv, TypeOK, AssimilateBelief, StateStep
  <2>6. CASE CountStep(o)
    BY <2>2, <2>6, EvidenceStepsType DEF TypeInv, TypeOK, CountStep, StateStep
  <2> QED
    BY <2>3, <2>4, <2>5, <2>6 DEF TypeInv, TypeOK, Interact, DecideSnapshot, StoreTransition
<1>5. CASE StoreTransition(o)
  <2>f. PICK seen \in Observations(o), formed \in work[o].at..MaxTick : \E at \in formed..MaxTick :
          IF TransitionAccepts(ledger, TransitionOf(o, seen, formed, at))
          THEN /\ ledger' = AppendTransition(ledger, TransitionOf(o, seen, formed, at))
               /\ work' = [work EXCEPT ![o].source = TransitionOf(o, seen, formed, at)]
               /\ Goto(o, "assimilate")
          ELSE Fail(o) /\ UNCHANGED ledger
    BY <1>5 DEF StoreTransition
  <2>1. PICK at \in formed..MaxTick :
          IF TransitionAccepts(ledger, TransitionOf(o, seen, formed, at))
          THEN /\ ledger' = AppendTransition(ledger, TransitionOf(o, seen, formed, at))
               /\ work' = [work EXCEPT ![o].source = TransitionOf(o, seen, formed, at)]
               /\ Goto(o, "assimilate")
          ELSE Fail(o) /\ UNCHANGED ledger
    BY <2>f
  <2>2. formed \in Ticks /\ at \in Ticks
    BY <1>1, MaxTickAssumption DEF Locals, Ticks
  <2>3. CASE Fail(o) /\ UNCHANGED ledger
    BY <1>1, <1>3, <1>4, <2>3, FailStep DEF TypeInv, TypeOK
  <2>4. CASE ~(Fail(o) /\ UNCHANGED ledger)
    <3>1. TransitionOf(o, seen, formed, at) \in Transition
      BY <2>2, TransitionOfType
    <3>2. [work[o] EXCEPT !.source = TransitionOf(o, seen, formed, at)] \in Locals
      BY <1>1, <3>1 DEF Locals
    <3>3. ledger' = AppendTransition(ledger, TransitionOf(o, seen, formed, at))
      BY <2>1, <2>4
    <3>4. ledger' \in Ledgers
      BY <3>1, <3>3, AppendTransitionType DEF TypeInv, TypeOK
    <3>5. work' = [work EXCEPT ![o] = [work[o] EXCEPT !.source = TransitionOf(o, seen, formed, at)]]
          /\ pc' = [pc EXCEPT ![o] = "assimilate"]
      BY <2>1, <2>4 DEF Goto
    <3> QED
      BY <1>1, <1>2, <1>3, <1>4, <3>2, <3>4, <3>5, CallStep DEF TypeInv, TypeOK
  <2> QED
    BY <2>3, <2>4
<1>6. CASE DecideSnapshot(o)
  <2>1. UNCHANGED <<state, ledger, model, lock>>
    BY <1>6 DEF DecideSnapshot
  <2>2. CASE Fail(o)
    BY <1>1, <2>1, <2>2, FailStep DEF TypeInv, TypeOK
  <2>3. CASE ~Fail(o)
    <3>1. PICK at \in Ticks :
            /\ work' = [work EXCEPT ![o].belief = state.belief, ![o].policy = state.policy,
                                    ![o].at = at]
            /\ Goto(o, "register")
      BY <1>6, <2>3 DEF DecideSnapshot
    <3> DEFINE w == [work[o] EXCEPT !.belief = state.belief, !.policy = state.policy, !.at = at]
    <3>2. w \in Locals
      BY <1>1 DEF Locals, TypeInv, TypeOK, AgentStates
    <3>3. work' = [work EXCEPT ![o] = w]
      BY <1>1, <3>1 DEF TypeInv, TypeOK
    <3> HIDE DEF w
    <3> QED
      BY <1>1, <1>2, <2>1, <3>1, <3>2, <3>3, CallStep DEF TypeInv, TypeOK, Goto
  <2> QED
    BY <2>2, <2>3
<1>7. CASE ~StoreTransition(o) /\ ~DecideSnapshot(o)
  <2>1. UNCHANGED ledger
    BY <1>7 DEF Interact, RegisterDecision, ConsumeDecision, AssimilateBelief, CountStep, StateStep
  <2>2. CASE Fail(o)
    BY <1>1, <1>3, <1>4, <2>1, <2>2, FailStep DEF TypeInv, TypeOK
  <2>3. CASE ~Fail(o)
    <3>1. PICK to \in Places : Goto(o, to) /\ UNCHANGED work
      BY <1>7, <2>3 DEF Interact, RegisterDecision, ConsumeDecision, AssimilateBelief,
                        CountStep, StateStep
    <3> QED
      BY <1>1, <1>2, <1>3, <1>4, <2>1, <3>1, GotoStep DEF TypeInv, TypeOK
  <2> QED
    BY <2>2, <2>3
<1> QED
  BY <1>5, <1>6, <1>7

-----------------------------------------------------------------------------
(* Types: the theorem.                                                     *)

LEMMA StepType == TypeInv /\ [Next]_vars => TypeInv'
<1> SUFFICES ASSUME TypeInv, [Next]_vars PROVE TypeInv'
  OBVIOUS
<1>1. ASSUME NEW l \in LearnCalls, Learn(l) PROVE TypeInv'
  BY <1>1, InputTypes, ProposeType, AcquireType, PreflightType, StageType, UnlockType DEF Learn
<1>2. ASSUME NEW o \in ObserveCalls, Interact(o) PROVE TypeInv'
  BY <1>2, InteractType
<1>3. CASE UNCHANGED vars
  BY <1>3 DEF vars, TypeInv, TypeOK, Prepared
<1> QED
  BY <1>1, <1>2, <1>3 DEF Next, Finished

\* Every participant, lock and local variable keeps its type, for any number of calls
\* (agent.py 414-577 and the lock sections of 227-398).
THEOREM TypeCorrect == Spec => []TypeOK
<1>1. TypeInv => TypeOK
  BY DEF TypeInv
<1> QED
  BY <1>1, InitType, StepType, PTL DEF Spec

-----------------------------------------------------------------------------
(* Custody: a commit holds what it takes, and nobody else touches it.      *)

HoldsModel == WithTokens \cup {"preflight", "publish", "abandon", "torn"}
HoldsLedger == HoldsModel \cup {"lockModel"}
HoldsState == HoldsLedger \cup {"lockLedger"}

LockInv ==
    \A l \in LearnCalls :
      /\ pc[l] \in HoldsState => lock["state"] = l
      /\ pc[l] \in HoldsLedger => lock["ledger"] = l
      /\ pc[l] \in HoldsModel /\ OwnsModel => lock["model"] = l
      /\ pc[l] \in {"lockModel", "commitModel", "rollbackModel"} => OwnsModel

\* The swap is reserved and the model is still the one the learner started from.
Reserved(l) == OwnsModel => model.reservation = l /\ model.live = work[l].expected

LedgerOpen(l) == LedgerUntouched(ledger, work[l].ledgerToken)
LedgerDone(l) == LedgerRollsBack(ledger, work[l].ledgerToken, work[l].receipt)
StateOpen(l) == StateUntouched(state, work[l].stateToken)
StateDone(l) == StateRollsBack(state, work[l].stateToken, work[l].receipt)

\* At every stage of a commit each participant is as the commit found it, or exactly
\* one step ahead and by this very receipt.
CompensableAt(l) ==
    /\ pc[l] = "commitLedger" => LedgerOpen(l) /\ StateOpen(l) /\ Reserved(l)
    /\ pc[l] = "commitState" => LedgerDone(l) /\ StateOpen(l) /\ Reserved(l)
    /\ pc[l] = "commitModel" => LedgerDone(l) /\ StateDone(l) /\ Reserved(l)
    /\ pc[l] = "rollbackModel" => SwapRollsBack(model, l, work[l].expected, work[l].candidate)
    /\ pc[l] \in {"rollbackModel", "rollbackState"} => StateOpen(l) \/ StateDone(l)
    /\ pc[l] \in {"rollbackModel", "rollbackState", "rollbackLedger"} =>
         LedgerOpen(l) \/ LedgerDone(l)
    /\ pc[l] \notin {"torn", "broken"}

Compensable == \A l \in LearnCalls : CompensableAt(l)

CustodyInv == TypeInv /\ LockInv /\ Compensable

\* A step that leaves the locks alone keeps custody if its call keeps what it held.
LEMMA LockFrame ==
    ASSUME TypeInv, LockInv, UNCHANGED lock, NEW c \in Calls, NEW to, Goto(c, to),
           c \in LearnCalls =>
             /\ to \in HoldsState => pc[c] \in HoldsState
             /\ to \in HoldsLedger => pc[c] \in HoldsLedger
             /\ to \in HoldsModel => pc[c] \in HoldsModel
             /\ to \in {"lockModel", "commitModel", "rollbackModel"} => OwnsModel
    PROVE  LockInv'
<1> SUFFICES ASSUME NEW l \in LearnCalls
             PROVE  /\ pc'[l] \in HoldsState => lock'["state"] = l
                    /\ pc'[l] \in HoldsLedger => lock'["ledger"] = l
                    /\ pc'[l] \in HoldsModel /\ OwnsModel => lock'["model"] = l
                    /\ pc'[l] \in {"lockModel", "commitModel", "rollbackModel"} => OwnsModel
  BY DEF LockInv
<1>1. l \in Calls
  BY DEF Calls
<1>2. CASE l = c
  BY <1>1, <1>2 DEF LockInv, Goto, TypeInv, TypeOK
<1>3. CASE l # c
  BY <1>1, <1>3 DEF LockInv, Goto, TypeInv, TypeOK
<1> QED
  BY <1>2, <1>3

LEMMA LockAcquire ==
    ASSUME TypeInv, LockInv, NEW c \in LearnCalls, LockState(c) \/ LockLedger(c) \/ LockModel(c)
    PROVE  LockInv'
<1> SUFFICES ASSUME NEW l \in LearnCalls
             PROVE  /\ pc'[l] \in HoldsState => lock'["state"] = l
                    /\ pc'[l] \in HoldsLedger => lock'["ledger"] = l
                    /\ pc'[l] \in HoldsModel /\ OwnsModel => lock'["model"] = l
                    /\ pc'[l] \in {"lockModel", "commitModel", "rollbackModel"} => OwnsModel
  BY DEF LockInv
<1>1. l \in Calls /\ c \in Calls /\ l # NoCall
  BY CallsAssumption DEF Calls
<1>2. PICK p \in Participants, to \in PcStates : Acquire(c, p, to)
  BY OwnsModelAssumption DEF LockState, LockLedger, LockModel, Participants, PcStates
<1>3. /\ lock[p] = NoCall
      /\ lock' = [lock EXCEPT ![p] = c]
      /\ pc' = [pc EXCEPT ![c] = to]
  BY <1>2 DEF Acquire, Goto, Free
<1>4. CASE l # c
  BY <1>1, <1>3, <1>4 DEF LockInv, TypeInv, TypeOK, Participants
<1>5. CASE l = c
  <2>1. CASE LockState(c)
    <3>1. lock' = [lock EXCEPT !["state"] = c] /\ pc' = [pc EXCEPT ![c] = "lockLedger"]
      BY <2>1 DEF LockState, Acquire, Goto
    <3> QED
      BY <1>1, <1>5, <3>1 DEF TypeInv, TypeOK, Participants,
                              HoldsState, HoldsLedger, HoldsModel, WithTokens
  <2>2. CASE LockLedger(c)
    <3>1. /\ pc[c] = "lockLedger" /\ lock' = [lock EXCEPT !["ledger"] = c]
          /\ pc' = [pc EXCEPT ![c] = IF OwnsModel THEN "lockModel" ELSE "preflight"]
      BY <2>2 DEF LockLedger, Acquire, Goto
    <3>2. lock["state"] = c
      BY <3>1 DEF LockInv, HoldsState
    <3> QED
      BY <1>1, <1>5, <3>1, <3>2, OwnsModelAssumption
         DEF TypeInv, TypeOK, Participants, HoldsState, HoldsLedger, HoldsModel, WithTokens
  <2>3. CASE LockModel(c)
    <3>1. /\ pc[c] = "lockModel" /\ lock' = [lock EXCEPT !["model"] = c]
          /\ pc' = [pc EXCEPT ![c] = "preflight"]
      BY <2>3 DEF LockModel, Acquire, Goto
    <3>2. lock["state"] = c /\ lock["ledger"] = c
      BY <3>1 DEF LockInv, HoldsState, HoldsLedger
    <3> QED
      BY <1>1, <1>5, <3>1, <3>2
         DEF TypeInv, TypeOK, Participants, HoldsState, HoldsLedger, HoldsModel, WithTokens
  <2> QED
    BY <2>1, <2>2, <2>3
<1> QED
  BY <1>4, <1>5

LEMMA LockRelease ==
    ASSUME TypeInv, LockInv, NEW c \in LearnCalls, Unlock(c)
    PROVE  LockInv'
<1> SUFFICES ASSUME NEW l \in LearnCalls
             PROVE  /\ pc'[l] \in HoldsState => lock'["state"] = l
                    /\ pc'[l] \in HoldsLedger => lock'["ledger"] = l
                    /\ pc'[l] \in HoldsModel /\ OwnsModel => lock'["model"] = l
                    /\ pc'[l] \in {"lockModel", "commitModel", "rollbackModel"} => OwnsModel
  BY DEF LockInv
<1>1. l \in Calls /\ c \in Calls
  BY DEF Calls
<1>2. PICK to \in {"done", "failed", "broken"} : pc' = [pc EXCEPT ![c] = to]
  BY DEF Unlock, Goto, Fail
<1>3. \A p \in Participants : lock[p] # c => lock'[p] = lock[p]
  BY DEF Unlock
<1>4. CASE l = c
  BY <1>1, <1>2, <1>4 DEF TypeInv, TypeOK, HoldsState, HoldsLedger, HoldsModel, WithTokens
<1>5. CASE l # c
  BY <1>1, <1>2, <1>3, <1>5 DEF LockInv, TypeInv, TypeOK, Participants
<1> QED
  BY <1>4, <1>5

LEMMA LockStep == TypeInv /\ LockInv /\ [Next]_vars => LockInv'
<1> SUFFICES ASSUME TypeInv, LockInv, [Next]_vars PROVE LockInv'
  OBVIOUS
<1>1. ASSUME NEW l \in LearnCalls, Learn(l) PROVE LockInv'
  <2>0. l \in Calls
    BY DEF Calls
  <2>1. CASE CheckInputs(l) \/ TakeSnapshot(l) \/ ReadModel(l) \/ Propose(l)
    <3>1. PICK to \in {"snapshot", "readModel", "propose", "lockState", "failed"} : Goto(l, to)
      <4>1. CASE CheckInputs(l)
        BY <4>1 DEF CheckInputs
      <4>2. CASE TakeSnapshot(l)
        <5>1. Goto(l, IF OwnsModel THEN "readModel" ELSE "propose") \/ Goto(l, "failed")
          BY <4>2 DEF TakeSnapshot, Fail
        <5> QED
          BY <5>1
      <4>3. CASE ReadModel(l)
        BY <4>3 DEF ReadModel, Fail
      <4>4. CASE Propose(l)
        <5>1. Goto(l, "lockState") \/ Goto(l, "failed")
          BY <4>4 DEF Propose, Fail
        <5> QED
          BY <5>1
      <4> QED
        BY <2>1, <4>1, <4>2, <4>3, <4>4
    <3>2. UNCHANGED lock
      BY <2>1 DEF CheckInputs, TakeSnapshot, ReadModel, Propose
    <3>3. to \notin HoldsState \cup {"lockModel", "commitModel", "rollbackModel"}
          /\ HoldsModel \subseteq HoldsState /\ HoldsLedger \subseteq HoldsState
      BY DEF HoldsState, HoldsLedger, HoldsModel, WithTokens
    <3> QED
      BY <2>0, <3>1, <3>2, <3>3, LockFrame
  <2>2. CASE LockState(l) \/ LockLedger(l) \/ LockModel(l)
    BY <2>2, LockAcquire
  <2>3. CASE \/ Preflight(l) \/ CommitLedger(l) \/ CommitState(l) \/ CommitModel(l)
             \/ RollbackModel(l) \/ RollbackState(l) \/ RollbackLedger(l)
    <3> DEFINE Stays == {t \in HoldsModel : t \in {"commitModel", "rollbackModel"} => OwnsModel}
    <3>0. /\ AfterState \in Stays /\ FirstRollback \in Stays
          /\ {"commitLedger", "commitState", "rollbackState", "rollbackLedger",
              "publish", "abandon", "torn"} \subseteq Stays
      BY DEF HoldsModel, WithTokens, AfterState, FirstRollback
    <3>1. PICK to \in Stays : Goto(l, to)
      <4> HIDE DEF Stays
      <4> QED
        BY <2>3, <3>0 DEF Preflight, CommitLedger, CommitState, CommitModel, RollbackModel,
                          RollbackState, RollbackLedger
    <3>2. UNCHANGED lock /\ pc[l] \in HoldsModel
      BY <2>3 DEF Preflight, CommitLedger, CommitState, CommitModel, RollbackModel, RollbackState,
                  RollbackLedger, HoldsModel, WithTokens
    <3>3. HoldsModel \subseteq HoldsLedger /\ HoldsLedger \subseteq HoldsState /\ "lockModel" \notin HoldsModel
      BY DEF HoldsState, HoldsLedger, HoldsModel, WithTokens
    <3> QED
      BY <2>0, <3>1, <3>2, <3>3, LockFrame
  <2>4. CASE Unlock(l)
    BY <2>4, LockRelease
  <2> QED
    BY <1>1, <2>1, <2>2, <2>3, <2>4 DEF Learn
<1>2. ASSUME NEW o \in ObserveCalls, Interact(o) PROVE LockInv'
  <2>1. o \in Calls /\ o \notin LearnCalls
    BY CallsAssumption DEF Calls
  <2>2. UNCHANGED lock /\ \E to : Goto(o, to)
    BY <1>2 DEF Interact, DecideSnapshot, RegisterDecision, ConsumeDecision, StoreTransition,
                AssimilateBelief, CountStep, StateStep, Fail
  <2> QED
    BY <2>1, <2>2, LockFrame
<1>3. CASE UNCHANGED vars
  BY <1>3 DEF vars, LockInv
<1> QED
  BY <1>1, <1>2, <1>3 DEF Next, Finished

-----------------------------------------------------------------------------
(* Compensation: what a commit finds when it has to go back.               *)

\* A step of a call changes no other call's control state or locals.
LEMMA OwnStep ==
    ASSUME TypeInv, NEW c \in Calls, NEW l \in Calls, l # c,
           (c \in LearnCalls /\ Learn(c)) \/ (c \in ObserveCalls /\ Interact(c))
    PROVE  pc'[l] = pc[l] /\ work'[l] = work[l]
<1>1. pc \in [Calls -> PcStates] /\ work \in [Calls -> Locals]
  BY DEF TypeInv, TypeOK
<1>2. ASSUME NEW to, Goto(c, to) PROVE pc'[l] = pc[l]
  BY <1>1, <1>2 DEF Goto
<1>3. ASSUME Fail(c) PROVE pc'[l] = pc[l] /\ work'[l] = work[l]
  BY <1>1, <1>2, <1>3 DEF Fail
<1>4. CASE c \in ObserveCalls /\ Interact(c)
  <2>1. CASE DecideSnapshot(c)
    BY <1>1, <1>2, <1>3, <2>1 DEF DecideSnapshot
  <2>2. CASE RegisterDecision(c) \/ ConsumeDecision(c) \/ AssimilateBelief(c) \/ CountStep(c)
    BY <1>2, <1>3, <2>2 DEF RegisterDecision, ConsumeDecision, AssimilateBelief, CountStep, StateStep
  <2>3. CASE StoreTransition(c)
    BY <1>1, <1>2, <1>3, <2>3 DEF StoreTransition
  <2> QED
    BY <1>4, <2>1, <2>2, <2>3 DEF Interact
<1>5. CASE c \in LearnCalls /\ Learn(c)
  <2>1. CASE CheckInputs(c)
    BY <1>1, <1>2, <2>1 DEF CheckInputs
  <2>2. CASE TakeSnapshot(c)
    BY <1>1, <1>2, <1>3, <2>2 DEF TakeSnapshot
  <2>3. CASE ReadModel(c)
    BY <1>1, <1>2, <1>3, <2>3 DEF ReadModel
  <2>4. CASE Propose(c)
    BY <1>1, <1>2, <1>3, <2>4 DEF Propose
  <2>5. CASE LockState(c) \/ LockLedger(c) \/ LockModel(c)
    BY <1>2, <2>5 DEF LockState, LockLedger, LockModel, Acquire
  <2>6. CASE Preflight(c)
    BY <1>1, <1>2, <2>6 DEF Preflight
  <2>7. CASE \/ CommitLedger(c) \/ CommitState(c) \/ CommitModel(c)
             \/ RollbackModel(c) \/ RollbackState(c) \/ RollbackLedger(c)
    BY <1>2, <2>7 DEF CommitLedger, CommitState, CommitModel,
                      RollbackModel, RollbackState, RollbackLedger
  <2>8. CASE Unlock(c)
    BY <1>2, <1>3, <2>8 DEF Unlock
  <2> QED
    BY <1>5, <2>1, <2>2, <2>3, <2>4, <2>5, <2>6, <2>7, <2>8 DEF Learn
<1> QED
  BY <1>4, <1>5

\* While a call commits, nobody else changes the participants it holds.
LEMMA Undisturbed ==
    ASSUME TypeInv, LockInv, NEW l \in LearnCalls, pc[l] \in WithTokens,
           NEW c \in Calls, c # l,
           (c \in LearnCalls /\ Learn(c)) \/ (c \in ObserveCalls /\ Interact(c))
    PROVE  UNCHANGED <<state, ledger>> /\ (OwnsModel => UNCHANGED model)
<1>1. /\ lock["state"] = l /\ lock["ledger"] = l /\ (OwnsModel => lock["model"] = l)
      /\ l # NoCall
  BY CallsAssumption DEF LockInv, HoldsState, HoldsLedger, HoldsModel, Calls
<1>2. CASE c \in ObserveCalls /\ Interact(c)
  BY <1>1, <1>2 DEF Interact, DecideSnapshot, RegisterDecision, ConsumeDecision, StoreTransition,
                    AssimilateBelief, CountStep, StateStep, Free
<1>3. CASE c \in LearnCalls /\ Learn(c)
  <2>1. pc[c] \notin HoldsLedger /\ (OwnsModel => pc[c] \notin HoldsModel)
    BY <1>1, <1>3 DEF LockInv
  <2>2. pc[c] \notin WithTokens \cup {"preflight"}
    BY <2>1 DEF HoldsLedger, HoldsModel
  <2>3. ~Preflight(c) /\ ~CommitLedger(c) /\ ~CommitState(c) /\ ~CommitModel(c)
        /\ ~RollbackModel(c) /\ ~RollbackState(c) /\ ~RollbackLedger(c)
    BY <2>2 DEF Preflight, CommitLedger, CommitState, CommitModel,
                RollbackModel, RollbackState, RollbackLedger, WithTokens
  <2> QED
    BY <1>3, <2>3 DEF Learn, CheckInputs, TakeSnapshot, ReadModel, Propose, LockState, LockLedger,
                      LockModel, Acquire, Unlock
<1> QED
  BY <1>2, <1>3

\* A receipt that was applied or appended is what its rollback looks for.
LEMMA AppliedIsDone ==
    ASSUME NEW s \in AgentStates, NEW r \in Receipt
    PROVE  ApplyUpdate(s, r).gen = s.gen + 1 /\ ApplyUpdate(s, r).latest = r
  BY DEF AgentStates, ApplyUpdate

LEMMA AppendedIsDone ==
    ASSUME NEW g \in Ledgers, NEW r \in Receipt
    PROVE  LET g2 == AppendReceipt(g, r) IN
           /\ g2.gen = g.gen + 1 /\ g2.updates # <<>>
           /\ g2.updates[Len(g2.updates)] = r
<1>1. /\ Append(g.updates, r) # <<>>
      /\ Append(g.updates, r)[Len(Append(g.updates, r))] = r
  BY DEF Ledgers
<1> QED
  BY <1>1 DEF AppendReceipt, Ledgers

\* The first rollback of a commit that failed at any of its stages.
LEMMA StartRollback ==
    ASSUME TypeInv, NEW l \in LearnCalls, Goto(l, FirstRollback),
           OwnsModel => SwapRollsBack(model, l, work[l].expected, work[l].candidate)',
           (LedgerOpen(l) \/ LedgerDone(l))', (StateOpen(l) \/ StateDone(l))'
    PROVE  CompensableAt(l)'
<1>1. pc'[l] = FirstRollback
  BY DEF Goto, TypeInv, TypeOK, Calls
<1> QED
  BY <1>1, OwnsModelAssumption DEF CompensableAt, FirstRollback

LEMMA CommitCompensation ==
    ASSUME TypeInv, Compensable, NEW l \in LearnCalls,
           CommitLedger(l) \/ CommitState(l) \/ CommitModel(l)
    PROVE  CompensableAt(l)'
<1>1. /\ work[l].receipt \in Receipt
      /\ state \in AgentStates /\ ledger \in Ledgers /\ model \in Owners
      /\ l \in Calls /\ pc \in [Calls -> PcStates]
  BY DEF TypeInv, TypeOK, Prepared, Calls, CommitLedger, CommitState, CommitModel,
         WithReceipt, WithTokens
<1>2. UNCHANGED work
  BY DEF CommitLedger, CommitState, CommitModel
<1>3. CASE CommitLedger(l)
  <2>1. LedgerOpen(l) /\ StateOpen(l) /\ Reserved(l) /\ UNCHANGED <<state, model>>
    BY <1>3 DEF CommitLedger, Compensable, CompensableAt
  <2>2. /\ StateOpen(l)' /\ Reserved(l)'
        /\ OwnsModel => SwapRollsBack(model, l, work[l].expected, work[l].candidate)'
    BY <1>2, <2>1 DEF StateOpen, Reserved, SwapRollsBack
  <2>3. CASE ledger' = AppendReceipt(ledger, work[l].receipt)
    <3>1. LedgerDone(l)'
      BY <1>1, <1>2, <2>1, <2>3, AppendedIsDone
         DEF LedgerOpen, LedgerUntouched, LedgerDone, LedgerRollsBack
    <3>2. CASE Goto(l, "commitState")
      BY <1>1, <2>2, <3>1, <3>2 DEF Goto, CompensableAt
    <3>3. CASE Goto(l, FirstRollback)
      BY <2>2, <3>1, <3>3, StartRollback
    <3> QED
      BY <1>3, <3>2, <3>3 DEF CommitLedger
  <2>4. CASE UNCHANGED ledger /\ Goto(l, FirstRollback)
    <3>1. LedgerOpen(l)'
      BY <1>2, <2>1, <2>4 DEF LedgerOpen
    <3> QED
      BY <2>2, <2>4, <3>1, StartRollback
  <2> QED
    BY <1>3, <2>3, <2>4 DEF CommitLedger
<1>4. CASE CommitState(l)
  <2>1. LedgerDone(l) /\ StateOpen(l) /\ Reserved(l) /\ UNCHANGED <<ledger, model>>
    BY <1>4 DEF CommitState, Compensable, CompensableAt
  <2>2. /\ LedgerDone(l)' /\ Reserved(l)'
        /\ OwnsModel => SwapRollsBack(model, l, work[l].expected, work[l].candidate)'
    BY <1>2, <2>1 DEF LedgerDone, Reserved, SwapRollsBack
  <2>3. CASE state' = ApplyUpdate(state, work[l].receipt)
    <3>1. StateDone(l)'
      BY <1>1, <1>2, <2>1, <2>3, AppliedIsDone
         DEF StateOpen, StateUntouched, StateDone, StateRollsBack
    <3>2. CASE Goto(l, AfterState)
      BY <1>1, <2>2, <3>1, <3>2, OwnsModelAssumption DEF Goto, AfterState, CompensableAt
    <3>3. CASE Goto(l, FirstRollback)
      BY <2>2, <3>1, <3>3, StartRollback
    <3> QED
      BY <1>4, <3>2, <3>3 DEF CommitState
  <2>4. CASE UNCHANGED state /\ Goto(l, FirstRollback)
    <3>1. StateOpen(l)'
      BY <1>2, <2>1, <2>4 DEF StateOpen
    <3> QED
      BY <2>2, <2>4, <3>1, StartRollback
  <2> QED
    BY <1>4, <2>3, <2>4 DEF CommitState
<1>5. CASE CommitModel(l)
  <2>1. LedgerDone(l) /\ StateDone(l) /\ Reserved(l) /\ UNCHANGED <<ledger, state>>
    BY <1>5 DEF CommitModel, Compensable, CompensableAt
  <2>2. LedgerDone(l)' /\ StateDone(l)'
    BY <1>2, <2>1 DEF LedgerDone, StateDone
  <2>3. CASE model' = CommitSwap(model, work[l].candidate)
    <3>1. SwapRollsBack(model, l, work[l].expected, work[l].candidate)'
      BY <1>1, <1>2, <2>3 DEF SwapRollsBack, CommitSwap, Owners
    <3>2. CASE Goto(l, "publish")
      BY <1>1, <3>2 DEF Goto, CompensableAt
    <3>3. CASE Goto(l, FirstRollback)
      BY <2>2, <3>1, <3>3, StartRollback
    <3> QED
      BY <1>5, <3>2, <3>3 DEF CommitModel
  <2>4. CASE UNCHANGED model /\ Goto(l, FirstRollback)
    <3>1. OwnsModel => SwapRollsBack(model, l, work[l].expected, work[l].candidate)'
      BY <1>2, <2>1, <2>4 DEF Reserved, SwapRollsBack
    <3> QED
      BY <2>2, <2>4, <3>1, StartRollback
  <2> QED
    BY <1>5, <2>3, <2>4 DEF CommitModel
<1> QED
  BY <1>3, <1>4, <1>5

LEMMA RollbackCompensation ==
    ASSUME TypeInv, Compensable, NEW l \in LearnCalls,
           RollbackModel(l) \/ RollbackState(l) \/ RollbackLedger(l)
    PROVE  CompensableAt(l)'
<1>1. l \in Calls /\ pc \in [Calls -> PcStates] /\ CompensableAt(l)
  BY DEF TypeInv, TypeOK, Calls, Compensable
<1>2. CASE RollbackModel(l)
  <2>1. /\ LedgerOpen(l) \/ LedgerDone(l)
        /\ StateOpen(l) \/ StateDone(l)
        /\ Goto(l, "rollbackState") /\ UNCHANGED <<state, ledger, work>>
    BY <1>1, <1>2 DEF RollbackModel, CompensableAt
  <2> QED
    BY <1>1, <2>1 DEF Goto, CompensableAt, LedgerOpen, LedgerDone, StateOpen, StateDone
<1>3. CASE RollbackState(l)
  <2>1. /\ LedgerOpen(l) \/ LedgerDone(l)
        /\ Goto(l, "rollbackLedger") /\ UNCHANGED <<ledger, work>>
    BY <1>1, <1>3 DEF RollbackState, CompensableAt, StateOpen, StateDone
  <2> QED
    BY <1>1, <2>1 DEF Goto, CompensableAt, LedgerOpen, LedgerDone
<1>4. CASE RollbackLedger(l)
  <2>1. Goto(l, "abandon")
    BY <1>1, <1>4 DEF RollbackLedger, CompensableAt, LedgerOpen, LedgerDone
  <2> QED
    BY <1>1, <2>1 DEF Goto, CompensableAt
<1> QED
  BY <1>2, <1>3, <1>4

LEMMA PreflightCompensation ==
    ASSUME TypeInv, Compensable, NEW l \in LearnCalls, Preflight(l)
    PROVE  CompensableAt(l)'
<1>1. l \in Calls /\ pc \in [Calls -> PcStates] /\ work \in [Calls -> Locals] /\ model \in Owners
  BY DEF TypeInv, TypeOK, Calls
<1>2. CASE Goto(l, "abandon")
  BY <1>1, <1>2 DEF Goto, CompensableAt
<1>3. CASE ~Goto(l, "abandon")
  <2>1. /\ PreflightAccepts(work[l])
        /\ work' = [work EXCEPT ![l].stateToken = LearningState(state),
                                ![l].ledgerToken = LedgerToken(ledger)]
        /\ model' = IF OwnsModel THEN Reserve(model, l) ELSE model
        /\ Goto(l, "commitLedger")
        /\ UNCHANGED <<state, ledger>>
    BY <1>3 DEF Preflight
  <2>2. work[l] \in Locals
    BY <1>1
  <2>3. /\ work'[l].stateToken = LearningState(state)
        /\ work'[l].ledgerToken = LedgerToken(ledger)
        /\ work'[l].expected = work[l].expected
    BY <1>1, <2>1, <2>2 DEF Locals
  <2>4. LedgerOpen(l)' /\ StateOpen(l)'
    BY <2>1, <2>3 DEF LedgerOpen, LedgerUntouched, LedgerToken, StateOpen, StateUntouched, LearningState
  <2>5. Reserved(l)'
    BY <1>1, <2>1, <2>3 DEF Reserved, PreflightAccepts, SwapAccepts, Reserve, Owners
  <2> QED
    BY <1>1, <2>1, <2>4, <2>5 DEF Goto, CompensableAt
<1> QED
  BY <1>2, <1>3

\* Before and after the stages there is nothing to compensate.
LEMMA OtherCompensation ==
    ASSUME TypeInv, Compensable, NEW l \in LearnCalls, Learn(l),
           ~Preflight(l), ~CommitLedger(l), ~CommitState(l), ~CommitModel(l),
           ~RollbackModel(l), ~RollbackState(l), ~RollbackLedger(l)
    PROVE  CompensableAt(l)'
<1>1. l \in Calls /\ pc \in [Calls -> PcStates] /\ pc[l] # "torn"
  BY DEF TypeInv, TypeOK, Calls, Compensable, CompensableAt
<1> DEFINE Plain == {"snapshot", "readModel", "propose", "lockState", "lockLedger", "lockModel",
                     "preflight", "done", "failed"}
<1>2. PICK to \in Plain : Goto(l, to)
  <2>1. CASE CheckInputs(l)
    BY <2>1 DEF CheckInputs
  <2>2. CASE TakeSnapshot(l)
    <3>1. Goto(l, IF OwnsModel THEN "readModel" ELSE "propose") \/ Goto(l, "failed")
      BY <2>2 DEF TakeSnapshot, Fail
    <3> QED
      BY <3>1
  <2>3. CASE ReadModel(l)
    BY <2>3 DEF ReadModel, Fail
  <2>4. CASE Propose(l)
    <3>1. Goto(l, "lockState") \/ Goto(l, "failed")
      BY <2>4 DEF Propose, Fail
    <3> QED
      BY <3>1
  <2>5. CASE LockState(l) \/ LockLedger(l) \/ LockModel(l)
    <3>1. \/ Goto(l, "lockLedger") \/ Goto(l, "preflight")
          \/ Goto(l, IF OwnsModel THEN "lockModel" ELSE "preflight")
      BY <2>5 DEF LockState, LockLedger, LockModel, Acquire
    <3> QED
      BY <3>1
  <2>6. CASE Unlock(l)
    BY <1>1, <2>6 DEF Unlock, Fail
  <2> QED
    BY <2>1, <2>2, <2>3, <2>4, <2>5, <2>6 DEF Learn
<1> QED
  BY <1>1, <1>2 DEF Goto, CompensableAt

LEMMA CompensationStep == TypeInv /\ LockInv /\ Compensable /\ [Next]_vars => Compensable'
<1> SUFFICES ASSUME TypeInv, LockInv, Compensable, [Next]_vars, NEW l \in LearnCalls
             PROVE  CompensableAt(l)'
  BY DEF Compensable
<1>1. l \in Calls /\ CompensableAt(l)
  BY DEF Calls, Compensable
<1>2. CASE Learn(l)
  BY <1>2, PreflightCompensation, CommitCompensation, RollbackCompensation, OtherCompensation
<1>3. ASSUME NEW c \in Calls, c # l,
             (c \in LearnCalls /\ Learn(c)) \/ (c \in ObserveCalls /\ Interact(c))
      PROVE  CompensableAt(l)'
  <2>1. pc'[l] = pc[l] /\ work'[l] = work[l]
    BY <1>1, <1>3, OwnStep
  <2>2. CASE pc[l] \notin WithTokens
    BY <1>1, <2>1, <2>2 DEF CompensableAt, WithTokens
  <2>3. CASE pc[l] \in WithTokens
    <3>1. UNCHANGED <<state, ledger>> /\ (OwnsModel => UNCHANGED model)
      BY <1>3, <2>3, Undisturbed
    <3>2. pc[l] = "rollbackModel" => OwnsModel
      BY DEF LockInv
    <3> QED
      BY <1>1, <2>1, <3>1, <3>2 DEF CompensableAt, LedgerOpen, LedgerDone, StateOpen, StateDone,
                                     Reserved, SwapRollsBack
  <2> QED
    BY <2>2, <2>3
<1>4. CASE UNCHANGED vars
  BY <1>1, <1>4 DEF vars, CompensableAt, LedgerOpen, LedgerDone, StateOpen, StateDone,
                    Reserved, SwapRollsBack
<1>5. ASSUME NEW o \in ObserveCalls, Interact(o) PROVE CompensableAt(l)'
  BY <1>3, <1>5, CallsAssumption DEF Calls
<1>6. ASSUME NEW c \in LearnCalls, Learn(c) PROVE CompensableAt(l)'
  BY <1>2, <1>3, <1>6 DEF Calls
<1> QED
  BY <1>4, <1>5, <1>6 DEF Next, Finished

LEMMA InitCustody == Init => LockInv /\ Compensable
<1> SUFFICES ASSUME Init PROVE LockInv /\ Compensable
  OBVIOUS
<1>1. \A l \in LearnCalls : pc[l] = "inputs"
  BY DEF Init, Calls
<1> QED
  BY <1>1 DEF LockInv, Compensable, CompensableAt, HoldsState, HoldsLedger, HoldsModel, WithTokens

LEMMA CustodyHolds == Spec => []CustodyInv
<1>1. Init => CustodyInv
  BY InitType, InitCustody DEF CustodyInv
<1>2. CustodyInv /\ [Next]_vars => CustodyInv'
  BY StepType, LockStep, CompensationStep DEF CustodyInv
<1> QED
  BY <1>1, <1>2, PTL DEF Spec

\* A commit that fails at any stage, before or after the stage took effect, is undone to
\* its end: no rollback ever refuses and leaves the participants half-way
\* (agent.py 511-577, state.py 232-242, ledger.py 172-184, learning.py 215-234).
THEOREM RollbackNeverRefused == Spec => []RollbackAlwaysPossible
<1>1. CustodyInv => RollbackAlwaysPossible
  BY DEF CustodyInv, Compensable, CompensableAt, RollbackAlwaysPossible
<1> QED
  BY <1>1, CustodyHolds, PTL

-----------------------------------------------------------------------------
(* Agreement of the participants.                                          *)

LastOf(receipts) == IF receipts = <<>> THEN NoReceipt ELSE receipts[Len(receipts)]

Agreement ==
    /\ OwnsModel => model.live.version = state.model
    /\ state.latest = LastOf(ledger.updates)
    /\ model.reservation = NoCall

\* A receipt for an owned model installs the candidate's version.
ReceiptFits ==
    \A l \in LearnCalls :
      pc[l] \in WithReceipt /\ OwnsModel =>
        work[l].receipt.status # "rejected"
        /\ work[l].receipt.newModel = work[l].candidate.version

\* Without an owner nothing is ever reserved.
Unreserved == ~OwnsModel => model.reservation = NoCall

\* A commit's tokens remember participants that agreed, and each participant is as
\* remembered or as the receipt says.
AgreementAt(l) ==
    /\ OwnsModel => work[l].stateToken.model = work[l].expected.version
    /\ LedgerOpen(l) => LastOf(ledger.updates) = work[l].stateToken.latest
    /\ LedgerDone(l) =>
         LastOf(SubSeq(ledger.updates, 1, Len(ledger.updates) - 1)) = work[l].stateToken.latest
    /\ StateOpen(l) => /\ state.latest = work[l].stateToken.latest
                       /\ state.model = work[l].stateToken.model
    /\ StateDone(l) /\ OwnsModel => state.model = work[l].candidate.version
    /\ pc[l] = "rollbackLedger" => StateOpen(l)
    /\ pc[l] \in {"rollbackState", "rollbackLedger"} =>
         /\ model.reservation = NoCall
         /\ OwnsModel => model.live = work[l].expected

Remembered == \A l \in LearnCalls : pc[l] \in WithTokens => AgreementAt(l)

AgreeInv == ReceiptFits /\ Unreserved /\ Remembered /\ (Quiet => Agreement)

\* From the proposal on, a call keeps its receipt, its candidate and what it expects.
LEMMA ReceiptKept ==
    ASSUME TypeInv, NEW l \in LearnCalls, Learn(l), ~Propose(l), pc'[l] \in WithReceipt
    PROVE  /\ pc[l] \in WithReceipt
           /\ work'[l].receipt = work[l].receipt
           /\ work'[l].candidate = work[l].candidate
           /\ work'[l].expected = work[l].expected
<1>1. l \in Calls /\ pc \in [Calls -> PcStates] /\ work \in [Calls -> Locals]
  BY DEF TypeInv, TypeOK, Calls
<1>2. \A to \in {"snapshot", "readModel", "propose", "failed", "done", "broken"} : ~Goto(l, to)
  BY <1>1 DEF Goto, WithReceipt, WithTokens
<1>3. ~Fail(l)
  BY <1>2 DEF Fail
<1>4. ~CheckInputs(l) /\ ~ReadModel(l) /\ ~Unlock(l)
  BY <1>2, <1>3 DEF CheckInputs, ReadModel, Unlock
<1>5. ~TakeSnapshot(l)
  <2>1. ~Goto(l, IF OwnsModel THEN "readModel" ELSE "propose")
    BY <1>2
  <2> QED
    BY <1>3, <2>1 DEF TakeSnapshot
<1>6. CASE Preflight(l)
  <2>1. UNCHANGED work \/ work' = [work EXCEPT ![l].stateToken = LearningState(state),
                                               ![l].ledgerToken = LedgerToken(ledger)]
    BY <1>6 DEF Preflight
  <2>2. work[l] \in Locals
    BY <1>1
  <2>3. /\ work'[l].receipt = work[l].receipt /\ work'[l].candidate = work[l].candidate
        /\ work'[l].expected = work[l].expected
    BY <1>1, <2>1, <2>2 DEF Locals
  <2> QED
    BY <1>6, <2>3 DEF Preflight, WithReceipt
<1>7. CASE \/ LockState(l) \/ LockLedger(l) \/ LockModel(l)
           \/ CommitLedger(l) \/ CommitState(l) \/ CommitModel(l)
           \/ RollbackModel(l) \/ RollbackState(l) \/ RollbackLedger(l)
  BY <1>7 DEF LockState, LockLedger, LockModel, Acquire, CommitLedger, CommitState, CommitModel,
              RollbackModel, RollbackState, RollbackLedger, WithReceipt, WithTokens
<1> QED
  BY <1>4, <1>5, <1>6, <1>7 DEF Learn

\* A proposal that passes its validation fits the candidate.
LEMMA ProposalFits ==
    ASSUME TypeInv, NEW l \in LearnCalls, Propose(l), pc'[l] \in WithReceipt, OwnsModel
    PROVE  /\ work'[l].receipt.status # "rejected"
           /\ work'[l].receipt.newModel = work'[l].candidate.version
<1>1. l \in Calls /\ pc \in [Calls -> PcStates] /\ work \in [Calls -> Locals] /\ work[l] \in Locals
  BY DEF TypeInv, TypeOK, Calls
<1>2. ~Fail(l)
  BY <1>1 DEF Fail, Goto, WithReceipt, WithTokens
<1>3. PICK id \in LearnCalls, status \in Statuses, version \in Versions, policy \in Policies,
           completed \in work[l].at..MaxTick, back \in LearnCalls \cup {NoCall} :
        \E b \in ResultingBeliefs(l, Draft(l, work[l], id, status, version, policy,
                                          completed, back), work[l]) :
          LET r == [Draft(l, work[l], id, status, version, policy, completed, back)
                      EXCEPT !.resulting = b]
          IN /\ WellFormed(r) /\ ValidPrepared(r, work[l])
             /\ work' = [work EXCEPT ![l].receipt = r,
                                     ![l].candidate = [version |-> version, payload |-> l]]
  BY <1>2 DEF Propose
<1>4. PICK b : LET r == [Draft(l, work[l], id, status, version, policy, completed, back)
                           EXCEPT !.resulting = b]
               IN /\ WellFormed(r) /\ ValidPrepared(r, work[l])
                  /\ work' = [work EXCEPT ![l].receipt = r,
                                          ![l].candidate = [version |-> version, payload |-> l]]
  BY <1>3
<1>5. PICK r : /\ r = [Draft(l, work[l], id, status, version, policy, completed, back)
                         EXCEPT !.resulting = b]
               /\ WellFormed(r) /\ ValidPrepared(r, work[l])
               /\ work' = [work EXCEPT ![l].receipt = r,
                                       ![l].candidate = [version |-> version, payload |-> l]]
  BY <1>4
<1>6. r.newModel = version
  BY <1>5 DEF Draft
<1>7. r.status # "rejected"
  BY <1>5 DEF WellFormed, ValidPrepared
<1>8. work'[l].receipt = r /\ work'[l].candidate.version = version
  BY <1>1, <1>5 DEF Locals
<1> QED
  BY <1>6, <1>7, <1>8

\* An action of Next is a step of one call or changes nothing.
LEMMA Actor ==
    ASSUME [Next]_vars
    PROVE  \/ \E c \in Calls : (c \in LearnCalls /\ Learn(c)) \/ (c \in ObserveCalls /\ Interact(c))
           \/ UNCHANGED vars
  BY DEF Next, Finished, Calls

LEMMA FitsStep == TypeInv /\ ReceiptFits /\ [Next]_vars => ReceiptFits'
<1> SUFFICES ASSUME TypeInv, ReceiptFits, [Next]_vars,
                    NEW l \in LearnCalls, pc'[l] \in WithReceipt, OwnsModel
             PROVE  /\ work'[l].receipt.status # "rejected"
                    /\ work'[l].receipt.newModel = work'[l].candidate.version
  BY DEF ReceiptFits
<1>1. l \in Calls
  BY DEF Calls
<1>2. CASE UNCHANGED vars
  BY <1>2 DEF vars, ReceiptFits
<1>3. ASSUME NEW c \in Calls, c # l,
             (c \in LearnCalls /\ Learn(c)) \/ (c \in ObserveCalls /\ Interact(c))
      PROVE  /\ work'[l].receipt.status # "rejected"
             /\ work'[l].receipt.newModel = work'[l].candidate.version
  <2>1. pc'[l] = pc[l] /\ work'[l] = work[l]
    BY <1>1, <1>3, OwnStep
  <2> QED
    BY <2>1 DEF ReceiptFits
<1>4. CASE Learn(l)
  <2>1. CASE Propose(l)
    BY <2>1, ProposalFits
  <2>2. CASE ~Propose(l)
    BY <1>4, <2>2, ReceiptKept DEF ReceiptFits
  <2> QED
    BY <2>1, <2>2
<1>5. l \notin ObserveCalls
  BY CallsAssumption
<1> QED
  BY <1>2, <1>3, <1>4, <1>5, Actor

LEMMA UnreservedStep == LockInv /\ Unreserved /\ [Next]_vars => Unreserved'
<1> SUFFICES ASSUME LockInv, Unreserved, [Next]_vars, ~OwnsModel PROVE model' = model
  BY DEF Unreserved
<1>1. ASSUME NEW l \in LearnCalls, Learn(l) PROVE model' = model
  <2>1. ~CommitModel(l) /\ ~RollbackModel(l)
    BY DEF CommitModel, RollbackModel, LockInv
  <2> QED
    BY <1>1, <2>1 DEF Learn, CheckInputs, TakeSnapshot, ReadModel, Propose, LockState, LockLedger,
                      LockModel, Acquire, Preflight, CommitLedger, CommitState,
                      RollbackState, RollbackLedger, Unlock
<1>2. ASSUME NEW o \in ObserveCalls, Interact(o) PROVE model' = model
  BY <1>2 DEF Interact, DecideSnapshot, RegisterDecision, ConsumeDecision, StoreTransition,
              AssimilateBelief, CountStep, StateStep
<1> QED
  BY <1>1, <1>2 DEF Next, Finished, vars

\* Outside a commit nothing touches versions, receipts or bytes.
LEMMA OutsideKeeps ==
    ASSUME TypeInv, NEW c \in Calls,
           (c \in LearnCalls /\ Learn(c)) \/ (c \in ObserveCalls /\ Interact(c)),
           c \in LearnCalls => pc[c] \notin WithTokens /\ pc'[c] \notin WithTokens
    PROVE  /\ state'.model = state.model /\ state'.latest = state.latest
           /\ ledger'.updates = ledger.updates
           /\ model' = model
<1>1. state \in AgentStates /\ ledger \in Ledgers /\ pc \in [Calls -> PcStates]
  BY DEF TypeInv, TypeOK
<1>2. CASE c \in ObserveCalls /\ Interact(c)
  <2>1. CASE DecideSnapshot(c)
    BY <2>1 DEF DecideSnapshot
  <2>2. CASE RegisterDecision(c) \/ ConsumeDecision(c) \/ AssimilateBelief(c) \/ CountStep(c)
    <3>1. \/ UNCHANGED state
          \/ state' = Register(state, Decision(c)) \/ state' = Consume(state, Decision(c))
          \/ state' = Assimilate(state, work[c].source)
          \/ state' = AddResource(state, work[c].source.at)
      BY <2>2 DEF RegisterDecision, ConsumeDecision, AssimilateBelief, CountStep, StateStep
    <3>2. state'.model = state.model /\ state'.latest = state.latest
      BY <1>1, <3>1 DEF AgentStates, Register, Consume, Assimilate, AddResource
    <3>3. UNCHANGED <<ledger, model>>
      BY <2>2 DEF RegisterDecision, ConsumeDecision, AssimilateBelief, CountStep, StateStep
    <3> QED
      BY <3>2, <3>3
  <2>3. CASE StoreTransition(c)
    <3>1. UNCHANGED ledger \/ \E t : ledger' = AppendTransition(ledger, t)
      BY <2>3 DEF StoreTransition
    <3>2. ledger'.updates = ledger.updates
      BY <1>1, <3>1 DEF Ledgers, AppendTransition
    <3> QED
      BY <2>3, <3>2 DEF StoreTransition
  <2> QED
    BY <1>2, <2>1, <2>2, <2>3 DEF Interact
<1>3. CASE c \in LearnCalls /\ Learn(c)
  <2>1. ~CommitLedger(c) /\ ~CommitState(c) /\ ~CommitModel(c)
        /\ ~RollbackModel(c) /\ ~RollbackState(c) /\ ~RollbackLedger(c)
    BY <1>3 DEF CommitLedger, CommitState, CommitModel,
                RollbackModel, RollbackState, RollbackLedger, WithTokens
  <2>2. CASE Preflight(c)
    <3>1. ~Goto(c, "commitLedger")
      BY <1>1, <1>3 DEF Goto, WithTokens
    <3> QED
      BY <2>2, <3>1 DEF Preflight
  <2>3. CASE ~Preflight(c)
    BY <1>3, <2>1, <2>3 DEF Learn, CheckInputs, TakeSnapshot, ReadModel, Propose,
                            LockState, LockLedger, LockModel, Acquire, Unlock
  <2> QED
    BY <2>2, <2>3
<1> QED
  BY <1>2, <1>3

\* The tokens of a commit that begins remember participants that agree.
LEMMA BeginAgreement ==
    ASSUME TypeInv, Agreement, NEW l \in LearnCalls, Preflight(l), pc'[l] \in WithTokens
    PROVE  AgreementAt(l)'
<1>1. /\ l \in Calls /\ pc \in [Calls -> PcStates] /\ work \in [Calls -> Locals]
      /\ work[l] \in Locals /\ state.gen \in Nat /\ ledger.gen \in Nat
  BY DEF TypeInv, TypeOK, Calls, AgentStates, Ledgers
<1>2. ~Goto(l, "abandon")
  BY <1>1 DEF Goto, WithTokens
<1>3. /\ PreflightAccepts(work[l]) /\ Goto(l, "commitLedger")
      /\ work' = [work EXCEPT ![l].stateToken = LearningState(state),
                              ![l].ledgerToken = LedgerToken(ledger)]
      /\ UNCHANGED <<state, ledger>>
  BY <1>2 DEF Preflight
<1>4. /\ work'[l].stateToken = LearningState(state)
      /\ work'[l].ledgerToken = LedgerToken(ledger)
      /\ work'[l].expected = work[l].expected
  BY <1>1, <1>3 DEF Locals
<1>5. /\ work'[l].stateToken.latest = state.latest /\ work'[l].stateToken.model = state.model
      /\ work'[l].stateToken.gen = state.gen /\ work'[l].ledgerToken.gen = ledger.gen
  BY <1>4 DEF LearningState, LedgerToken
<1>6. OwnsModel => work'[l].stateToken.model = work'[l].expected.version
  BY <1>3, <1>4, <1>5 DEF PreflightAccepts, SwapAccepts, Agreement
<1>7. ~LedgerDone(l)' /\ ~StateDone(l)'
  BY <1>1, <1>3, <1>5 DEF LedgerDone, LedgerRollsBack, StateDone, StateRollsBack
<1>8. LastOf(ledger.updates)' = work'[l].stateToken.latest
  BY <1>3, <1>5 DEF Agreement, LastOf
<1>9. state'.latest = work'[l].stateToken.latest /\ state'.model = work'[l].stateToken.model
  BY <1>3, <1>5
<1>10. pc'[l] = "commitLedger"
  BY <1>1, <1>3 DEF Goto
<1> QED
  BY <1>6, <1>7, <1>8, <1>9, <1>10 DEF AgreementAt, LastOf

\* Removing what was appended leaves what was there.
LEMMA AppendedIsRemoved ==
    ASSUME NEW u \in Seq(Receipt), NEW r \in Receipt
    PROVE  SubSeq(Append(u, r), 1, Len(Append(u, r)) - 1) = u
  OBVIOUS

\* A stage of a commit, applied or not, keeps the agreement with the tokens.
LEMMA CommitAgreement ==
    ASSUME TypeInv, LockInv, Compensable, ReceiptFits, Unreserved, Remembered,
           NEW l \in LearnCalls, CommitLedger(l) \/ CommitState(l) \/ CommitModel(l),
           pc'[l] \in WithTokens
    PROVE  AgreementAt(l)'
<1>1. /\ l \in Calls /\ pc \in [Calls -> PcStates] /\ UNCHANGED work /\ pc[l] \in WithTokens
      /\ work[l].receipt \in Receipt /\ state \in AgentStates /\ ledger \in Ledgers
      /\ work[l].stateToken.gen \in Nat /\ work[l].ledgerToken.gen \in Nat
  BY DEF TypeInv, TypeOK, Calls, CommitLedger, CommitState, CommitModel, WithTokens, WithReceipt,
         Prepared, StateToken, LedgerTokens
<1>2. AgreementAt(l)
  BY <1>1 DEF Remembered
<1>3. /\ pc'[l] # "rollbackLedger"
      /\ pc'[l] \in {"rollbackState", "rollbackLedger"} => ~OwnsModel
  <2>1. Goto(l, "commitState") \/ Goto(l, AfterState) \/ Goto(l, FirstRollback) \/ Goto(l, "publish")
    BY DEF CommitLedger, CommitState, CommitModel
  <2> QED
    BY <1>1, <2>1 DEF Goto, AfterState, FirstRollback
<1>4. ~OwnsModel => model'.reservation = NoCall
  BY DEF CommitLedger, CommitState, CommitModel, LockInv, Unreserved
<1>5. CASE CommitLedger(l)
  <2>1. LedgerOpen(l) /\ UNCHANGED <<state, model>>
    BY <1>5 DEF CommitLedger, Compensable, CompensableAt
  <2>2. CASE ledger' = AppendReceipt(ledger, work[l].receipt)
    <3>1. ledger.updates \in Seq(Receipt) /\ ledger'.updates = Append(ledger.updates, work[l].receipt)
          /\ ledger'.gen = ledger.gen + 1
      BY <1>1, <2>2 DEF Ledgers, AppendReceipt
    <3>2. SubSeq(ledger'.updates, 1, Len(ledger'.updates) - 1) = ledger.updates
      BY <1>1, <3>1, AppendedIsRemoved
    <3>3. ~LedgerOpen(l)'
      BY <1>1, <2>1, <3>1 DEF LedgerOpen, LedgerUntouched
    <3>4. (StateOpen(l)' = StateOpen(l)) /\ (StateDone(l)' = StateDone(l))
      BY <1>1, <2>1 DEF StateOpen, StateDone
    <3>5. LastOf(SubSeq(ledger.updates, 1, Len(ledger.updates) - 1))' = work'[l].stateToken.latest
      BY <1>1, <1>2, <2>1, <3>2 DEF AgreementAt, LastOf
    <3> QED
      BY <1>1, <1>2, <1>3, <1>4, <2>1, <3>3, <3>4, <3>5 DEF AgreementAt
  <2>3. CASE UNCHANGED ledger
    BY <1>1, <1>2, <1>3, <1>4, <2>1, <2>3 DEF AgreementAt, LedgerOpen, LedgerDone, StateOpen,
                                              StateDone, LastOf
  <2> QED
    BY <1>5, <2>2, <2>3 DEF CommitLedger
<1>6. CASE CommitState(l)
  <2>1. LedgerDone(l) /\ StateOpen(l) /\ UNCHANGED <<ledger, model>>
    BY <1>6 DEF CommitState, Compensable, CompensableAt
  <2>2. CASE state' = ApplyUpdate(state, work[l].receipt)
    <3>1. ~StateOpen(l)'
      BY <1>1, <2>1, <2>2, AppliedIsDone DEF StateOpen, StateUntouched
    <3>2. OwnsModel => state'.model = work[l].candidate.version
      BY <1>1, <2>2 DEF ReceiptFits, WithReceipt, ApplyUpdate, AgentStates
    <3>3. (LedgerOpen(l)' = LedgerOpen(l)) /\ (LedgerDone(l)' = LedgerDone(l))
      BY <1>1, <2>1 DEF LedgerOpen, LedgerDone
    <3> QED
      BY <1>1, <1>2, <1>3, <1>4, <2>1, <3>1, <3>2, <3>3 DEF AgreementAt, LastOf
  <2>3. CASE UNCHANGED state
    BY <1>1, <1>2, <1>3, <1>4, <2>1, <2>3 DEF AgreementAt, LedgerOpen, LedgerDone, StateOpen,
                                              StateDone, LastOf
  <2> QED
    BY <1>6, <2>2, <2>3 DEF CommitState
<1>7. CASE CommitModel(l)
  <2>1. UNCHANGED <<state, ledger>>
    BY <1>7 DEF CommitModel
  <2> QED
    BY <1>1, <1>2, <1>3, <1>4, <2>1 DEF AgreementAt, LedgerOpen, LedgerDone, StateOpen,
                                        StateDone, LastOf
<1> QED
  BY <1>5, <1>6, <1>7

\* So does every rollback before the last.
LEMMA RollbackAgreement ==
    ASSUME TypeInv, LockInv, Compensable, Remembered, NEW l \in LearnCalls,
           RollbackModel(l) \/ RollbackState(l) \/ RollbackLedger(l), pc'[l] \in WithTokens
    PROVE  AgreementAt(l)'
<1>1. /\ l \in Calls /\ pc \in [Calls -> PcStates] /\ UNCHANGED work /\ pc[l] \in WithTokens
      /\ state \in AgentStates /\ model \in Owners
      /\ work[l].stateToken.gen \in Nat
  BY DEF TypeInv, TypeOK, Calls, RollbackModel, RollbackState, RollbackLedger, WithTokens,
         Prepared, StateToken
<1>2. AgreementAt(l)
  BY <1>1 DEF Remembered
<1>3. CASE RollbackModel(l)
  <2>1. /\ model' = RestoreModel(model, work[l].expected) /\ Goto(l, "rollbackState")
        /\ UNCHANGED <<state, ledger>>
    BY <1>3 DEF RollbackModel, Compensable, CompensableAt
  <2>2. pc'[l] = "rollbackState"
    BY <1>1, <2>1 DEF Goto
  <2>3. model'.reservation = NoCall /\ model'.live = work[l].expected
    BY <1>1, <2>1 DEF RestoreModel, Owners
  <2> QED
    BY <1>1, <1>2, <2>1, <2>2, <2>3 DEF AgreementAt, LedgerOpen, LedgerDone, StateOpen,
                                        StateDone, LastOf
<1>4. CASE RollbackState(l)
  <2>1. /\ pc[l] = "rollbackState" /\ UNCHANGED <<ledger, model>>
        /\ Goto(l, "rollbackLedger")
        /\ \/ StateOpen(l) /\ UNCHANGED state
           \/ state' = Restore(state, work[l].stateToken)
    BY <1>4 DEF RollbackState, Compensable, CompensableAt, StateOpen, StateDone
  <2>2. pc'[l] = "rollbackLedger"
    BY <1>1, <2>1 DEF Goto
  <2>3. /\ state'.gen = work[l].stateToken.gen
        /\ state'.latest = work[l].stateToken.latest /\ state'.model = work[l].stateToken.model
    <3>1. CASE StateOpen(l) /\ UNCHANGED state
      BY <1>2, <3>1 DEF AgreementAt, StateOpen, StateUntouched
    <3>2. CASE state' = Restore(state, work[l].stateToken)
      BY <1>1, <3>2 DEF Restore, AgentStates
    <3> QED
      BY <2>1, <3>1, <3>2
  <2>4. StateOpen(l)' /\ ~StateDone(l)'
    BY <1>1, <2>3 DEF StateOpen, StateUntouched, StateDone, StateRollsBack
  <2>5. (LedgerOpen(l)' = LedgerOpen(l)) /\ (LedgerDone(l)' = LedgerDone(l))
    BY <1>1, <2>1 DEF LedgerOpen, LedgerDone
  <2> QED
    BY <1>1, <1>2, <2>1, <2>2, <2>3, <2>4, <2>5 DEF AgreementAt, LastOf
<1>5. CASE RollbackLedger(l)
  <2>1. Goto(l, "abandon") \/ Goto(l, "torn")
    BY <1>5 DEF RollbackLedger
  <2> QED
    BY <1>1, <2>1 DEF Goto, WithTokens
<1> QED
  BY <1>3, <1>4, <1>5

\* A commit that ends, either way, leaves participants that agree.
LEMMA EndAgreement ==
    ASSUME TypeInv, LockInv, Compensable, ReceiptFits, Unreserved, Remembered,
           NEW l \in LearnCalls, Learn(l), pc[l] \in WithTokens, pc'[l] \notin WithTokens
    PROVE  Agreement'
<1>1. /\ l \in Calls /\ pc \in [Calls -> PcStates] /\ work[l].receipt \in Receipt
      /\ state \in AgentStates /\ ledger \in Ledgers /\ model \in Owners
      /\ AgreementAt(l) /\ CompensableAt(l)
  BY DEF TypeInv, TypeOK, Calls, Prepared, WithReceipt, Remembered, Compensable
<1>2. /\ \A to \in {"commitState", "commitModel", "rollbackState", "rollbackLedger"} : ~Goto(l, to)
      /\ ~Goto(l, FirstRollback)
  BY <1>1 DEF Goto, WithTokens, FirstRollback
<1>3. CASE CommitState(l)
  <2>1. /\ state' = ApplyUpdate(state, work[l].receipt) /\ ~OwnsModel
        /\ LedgerDone(l) /\ UNCHANGED <<ledger, model>>
    BY <1>1, <1>2, <1>3 DEF CommitState, AfterState, CompensableAt
  <2>2. state'.latest = LastOf(ledger'.updates)
    BY <1>1, <2>1, AppliedIsDone DEF LedgerDone, LedgerRollsBack, LastOf
  <2> QED
    BY <2>1, <2>2 DEF Agreement, Unreserved, LastOf
<1>4. CASE CommitModel(l)
  <2>1. /\ model' = CommitSwap(model, work[l].candidate) /\ OwnsModel
        /\ LedgerDone(l) /\ StateDone(l) /\ UNCHANGED <<ledger, state>>
    BY <1>1, <1>2, <1>4 DEF CommitModel, CompensableAt, LockInv
  <2>2. model'.live = work[l].candidate /\ model'.reservation = NoCall
    BY <1>1, <2>1 DEF CommitSwap, Owners
  <2>3. state.model = work[l].candidate.version
    BY <1>1, <2>1 DEF AgreementAt
  <2>4. state'.latest = LastOf(ledger'.updates)
    BY <2>1 DEF LedgerDone, LedgerRollsBack, StateDone, StateRollsBack, LastOf
  <2> QED
    BY <2>1, <2>2, <2>3, <2>4 DEF Agreement, LastOf
<1>5. CASE RollbackLedger(l)
  <2>1. /\ pc[l] = "rollbackLedger" /\ UNCHANGED <<state, model>> /\ StateOpen(l)
        /\ \/ LedgerOpen(l) /\ UNCHANGED ledger
           \/ LedgerDone(l) /\ ledger' = RemoveReceipt(ledger, work[l].ledgerToken)
    BY <1>1, <1>5 DEF RollbackLedger, CompensableAt, AgreementAt, LedgerOpen, LedgerDone
  <2>2. LastOf(ledger'.updates) = work[l].stateToken.latest
    <3>1. CASE LedgerOpen(l) /\ UNCHANGED ledger
      BY <1>1, <3>1 DEF AgreementAt
    <3>2. CASE LedgerDone(l) /\ ledger' = RemoveReceipt(ledger, work[l].ledgerToken)
      <4>1. ledger'.updates = SubSeq(ledger.updates, 1, Len(ledger.updates) - 1)
        BY <1>1, <3>2 DEF RemoveReceipt, Ledgers
      <4> QED
        BY <1>1, <3>2, <4>1 DEF AgreementAt
    <3> QED
      BY <2>1, <3>1, <3>2
  <2>3. state.latest = work[l].stateToken.latest /\ state.model = work[l].stateToken.model
    BY <1>1, <2>1 DEF AgreementAt
  <2>4. /\ model.reservation = NoCall
        /\ OwnsModel => model.live.version = state.model
    BY <1>1, <2>1, <2>3 DEF AgreementAt
  <2> QED
    BY <2>1, <2>2, <2>3, <2>4 DEF Agreement, LastOf
<1>6. ~CommitLedger(l) /\ ~RollbackModel(l) /\ ~RollbackState(l)
  BY <1>1, <1>2 DEF CommitLedger, RollbackModel, RollbackState, CompensableAt,
                    StateOpen, StateDone
<1>7. CommitState(l) \/ CommitModel(l) \/ RollbackLedger(l)
  BY <1>6 DEF Learn, CheckInputs, TakeSnapshot, ReadModel, Propose, LockState, LockLedger, LockModel,
              Preflight, CommitLedger, CommitState, CommitModel, Unlock, WithTokens
<1> QED
  BY <1>3, <1>4, <1>5, <1>7

LEMMA RememberedStep ==
    TypeInv /\ LockInv /\ Compensable /\ AgreeInv /\ [Next]_vars => Remembered'
<1> SUFFICES ASSUME TypeInv, LockInv, Compensable, AgreeInv, [Next]_vars,
                    NEW l \in LearnCalls, pc'[l] \in WithTokens
             PROVE  AgreementAt(l)'
  BY DEF Remembered
<1>1. l \in Calls /\ l \notin ObserveCalls /\ ReceiptFits /\ Unreserved /\ Remembered /\ Unreserved'
  BY CallsAssumption, UnreservedStep DEF Calls, AgreeInv
<1>2. CASE UNCHANGED vars
  BY <1>1, <1>2 DEF vars, Remembered, AgreementAt, LedgerOpen, LedgerDone, StateOpen, StateDone, LastOf
<1>3. ASSUME NEW c \in Calls, c # l,
             (c \in LearnCalls /\ Learn(c)) \/ (c \in ObserveCalls /\ Interact(c))
      PROVE  AgreementAt(l)'
  <2>1. pc'[l] = pc[l] /\ work'[l] = work[l]
    BY <1>1, <1>3, OwnStep
  <2>2. UNCHANGED <<state, ledger>> /\ (OwnsModel => UNCHANGED model)
    BY <1>3, <2>1, Undisturbed
  <2>3. AgreementAt(l)
    BY <1>1, <2>1 DEF Remembered
  <2> QED
    BY <1>1, <2>1, <2>2, <2>3, OwnsModelAssumption
       DEF Unreserved, AgreementAt, LedgerOpen, LedgerDone, StateOpen, StateDone, LastOf
<1>4. CASE Learn(l)
  <2>1. CASE pc[l] \in WithTokens
    <3>1. \/ CommitLedger(l) \/ CommitState(l) \/ CommitModel(l)
          \/ RollbackModel(l) \/ RollbackState(l) \/ RollbackLedger(l)
      BY <1>4, <2>1 DEF Learn, CheckInputs, TakeSnapshot, ReadModel, Propose, LockState, LockLedger,
                        LockModel, Preflight, Unlock, WithTokens
    <3> QED
      BY <1>1, <3>1, CommitAgreement, RollbackAgreement
  <2>2. CASE pc[l] \notin WithTokens
    <3>1. pc \in [Calls -> PcStates]
      BY DEF TypeInv, TypeOK
    <3>2. Preflight(l)
      <4>1. \A to \in {"snapshot", "readModel", "propose", "lockState", "lockLedger", "lockModel",
                        "preflight", "failed", "done", "broken"} : ~Goto(l, to)
        BY <1>1, <3>1 DEF Goto, WithTokens
      <4>2. ~Fail(l)
        BY <4>1 DEF Fail
      <4>7. ~CheckInputs(l) /\ ~ReadModel(l) /\ ~Unlock(l)
        BY <4>1, <4>2 DEF CheckInputs, ReadModel, Unlock
      <4>8. ~Propose(l)
        <5>1. ASSUME Propose(l) PROVE Goto(l, "lockState") \/ Goto(l, "failed")
          BY <5>1 DEF Propose, Fail
        <5> QED
          BY <4>1, <5>1
      <4>3. ~TakeSnapshot(l)
        <5>1. ~Goto(l, IF OwnsModel THEN "readModel" ELSE "propose")
          BY <4>1
        <5> QED
          BY <4>2, <5>1 DEF TakeSnapshot
      <4>4. ~LockState(l) /\ ~LockModel(l)
        BY <4>1 DEF LockState, LockModel, Acquire
      <4>5. ~LockLedger(l)
        <5>1. ~Goto(l, IF OwnsModel THEN "lockModel" ELSE "preflight")
          BY <4>1
        <5> QED
          BY <5>1 DEF LockLedger, Acquire
      <4>6. ~CommitLedger(l) /\ ~CommitState(l) /\ ~CommitModel(l)
            /\ ~RollbackModel(l) /\ ~RollbackState(l) /\ ~RollbackLedger(l)
        BY <2>2 DEF CommitLedger, CommitState, CommitModel,
                    RollbackModel, RollbackState, RollbackLedger, WithTokens
      <4> QED
        BY <1>4, <4>3, <4>4, <4>5, <4>6, <4>7, <4>8 DEF Learn
    <3>3. Quiet
      <4>1. lock["state"] = l
        BY <3>2 DEF Preflight, LockInv, HoldsState, HoldsLedger, HoldsModel
      <4>2. \A k \in LearnCalls : pc[k] \in WithTokens => lock["state"] = k
        BY DEF LockInv, HoldsState, HoldsLedger, HoldsModel
      <4> QED
        BY <2>2, <4>1, <4>2 DEF Quiet, Committing, WithTokens
    <3> QED
      BY <3>2, <3>3, BeginAgreement DEF AgreeInv
  <2> QED
    BY <2>1, <2>2
<1> QED
  BY <1>1, <1>2, <1>3, <1>4, Actor

LEMMA AgreeStep == TypeInv /\ LockInv /\ Compensable /\ AgreeInv /\ [Next]_vars => AgreeInv'
<1> SUFFICES ASSUME TypeInv, LockInv, Compensable, AgreeInv, [Next]_vars PROVE AgreeInv'
  OBVIOUS
<1>1. ReceiptFits' /\ Unreserved' /\ Remembered'
  BY FitsStep, UnreservedStep, RememberedStep DEF AgreeInv
<1>2. ASSUME Quiet' PROVE Agreement'
  <2>1. \A l \in LearnCalls : pc'[l] \notin WithTokens
    BY <1>2 DEF Quiet, Committing, WithTokens
  <2>2. CASE UNCHANGED vars
    BY <1>2, <2>2 DEF vars, Quiet, Committing, AgreeInv, Agreement, LastOf
  <2>3. ASSUME NEW c \in Calls,
               (c \in LearnCalls /\ Learn(c)) \/ (c \in ObserveCalls /\ Interact(c))
        PROVE  Agreement'
    <3>1. CASE c \in LearnCalls /\ pc[c] \in WithTokens
      <4>1. Learn(c)
        BY <2>3, <3>1, CallsAssumption
      <4> QED
        BY <2>1, <3>1, <4>1, EndAgreement DEF AgreeInv
    <3>2. CASE c \in LearnCalls => pc[c] \notin WithTokens
      <4>1. \A l \in LearnCalls : l # c => pc[l] \notin WithTokens
        BY <2>1, <2>3, OwnStep DEF Calls
      <4>2. Agreement
        BY <3>2, <4>1 DEF Quiet, Committing, WithTokens, AgreeInv
      <4> QED
        BY <2>1, <2>3, <3>2, <4>2, OutsideKeeps DEF Agreement, LastOf
    <3> QED
      BY <3>1, <3>2
  <2> QED
    BY <2>2, <2>3, Actor
<1> QED
  BY <1>1, <1>2 DEF AgreeInv

LEMMA InitAgreement == Init => AgreeInv
<1> SUFFICES ASSUME Init PROVE AgreeInv
  OBVIOUS
<1>1. \A l \in LearnCalls : pc[l] \notin WithReceipt /\ pc[l] \notin WithTokens
  BY DEF Init, Calls, WithReceipt, WithTokens
<1>2. Agreement
  BY DEF Init, Agreement, LastOf, InitModel
<1> QED
  BY <1>1, <1>2 DEF AgreeInv, ReceiptFits, Unreserved, Remembered, Agreement

LEMMA AgreementHolds == Spec => [](CustodyInv /\ AgreeInv)
<1>1. Init => CustodyInv /\ AgreeInv
  BY InitType, InitCustody, InitAgreement DEF CustodyInv
<1>2. CustodyInv /\ AgreeInv /\ [Next]_vars => (CustodyInv /\ AgreeInv)'
  BY StepType, LockStep, CompensationStep, AgreeStep DEF CustodyInv
<1> QED
  BY <1>1, <1>2, PTL DEF Spec

\* Whenever no commit is under way, the owned bytes are of the state's version, the
\* state's latest receipt is the last of the ledger, and nothing is left reserved, however
\* many commits overlapped and failed at whatever stage (agent.py 530-577).
THEOREM ParticipantsAlwaysAgree == Spec => []ParticipantsAgree
<1>1. AgreeInv => ParticipantsAgree
  BY DEF AgreeInv, Agreement, LastOf, ParticipantsAgree
<1> QED
  BY <1>1, AgreementHolds, PTL

-----------------------------------------------------------------------------
(* No deadlock, and no step in vain: what EveryCallEnds rests on beside     *)
(* the fairness of the threads.                                             *)

Holds(p) == CASE p = "state" -> HoldsState
              [] p = "ledger" -> HoldsLedger
              [] p = "model" -> HoldsModel

\* A lock is held only by a commit that is between taking it and giving it back.
HolderInv == \A p \in Participants : lock[p] # NoCall => pc[lock[p]] \in Holds(p)

\* The locks the next step of a call asks for.
Wants(c) ==
    CASE pc[c] \in {"inputs", "lockLedger", "append"} -> {"ledger"}
      [] pc[c] \in {"readModel", "lockModel"} -> {"model"}
      [] pc[c] \in {"snapshot", "propose", "lockState", "decide", "register", "consume",
                    "assimilate", "account"} -> {"state"}
      [] OTHER -> {}

GoesOn(c) == pc[c] \notin Terminal /\ \A p \in Wants(c) : Free(p)

\* Whoever has a lock has all it needs, and while a call is not over some call goes on.
NoDeadlock ==
    /\ \A p \in Participants : lock[p] # NoCall => GoesOn(lock[p])
    /\ (\E c \in Calls : pc[c] \notin Terminal) => \E c \in Calls : GoesOn(c)

\* How many steps a call takes at most from where it is.
StepsLeft(c) ==
    CASE pc[c] = "inputs" -> 15
      [] pc[c] = "snapshot" -> 14
      [] pc[c] = "readModel" -> 13
      [] pc[c] = "propose" -> 12
      [] pc[c] = "lockState" -> 11
      [] pc[c] = "lockLedger" -> 10
      [] pc[c] = "lockModel" -> 9
      [] pc[c] = "preflight" -> 8
      [] pc[c] = "commitLedger" -> 7
      [] pc[c] \in {"commitState", "decide"} -> 6
      [] pc[c] \in {"commitModel", "register"} -> 5
      [] pc[c] \in {"rollbackModel", "consume"} -> 4
      [] pc[c] \in {"rollbackState", "append"} -> 3
      [] pc[c] \in {"rollbackLedger", "assimilate"} -> 2
      [] pc[c] \in {"publish", "abandon", "torn", "account"} -> 1
      [] OTHER -> 0

\* Every step of the system is one call's, and brings it nearer to its end.
CallsAdvance ==
    [][\E c \in Calls : /\ StepsLeft(c)' < StepsLeft(c)
                        /\ \A d \in Calls \ {c} : pc'[d] = pc[d]]_vars

LEMMA HoldsNested ==
    HoldsModel \subseteq HoldsLedger /\ HoldsLedger \subseteq HoldsState
  BY DEF HoldsState, HoldsLedger

\* A step under the locks keeps what its call holds; one outside has nothing to keep.
LEMMA HolderFrame ==
    ASSUME TypeInv, HolderInv, UNCHANGED lock, NEW c \in Calls, NEW to, Goto(c, to),
           c \in LearnCalls /\ pc[c] \in HoldsState => to \in HoldsModel
    PROVE  HolderInv'
<1> SUFFICES ASSUME NEW p \in Participants, lock[p] # NoCall
             PROVE  pc'[lock[p]] \in Holds(p)
  BY DEF HolderInv
<1>1. lock[p] \in LearnCalls /\ pc[lock[p]] \in Holds(p) /\ p \in {"state", "ledger", "model"}
  BY DEF TypeInv, TypeOK, HolderInv, Participants
<1>2. Holds(p) \subseteq HoldsState /\ HoldsModel \subseteq Holds(p)
  BY <1>1, HoldsNested DEF Holds
<1>3. CASE lock[p] = c
  BY <1>1, <1>2, <1>3 DEF Goto, TypeInv, TypeOK
<1>4. CASE lock[p] # c
  BY <1>1, <1>4 DEF Goto, TypeInv, TypeOK, Calls
<1> QED
  BY <1>3, <1>4

LEMMA HolderAcquire ==
    ASSUME TypeInv, HolderInv, NEW c \in LearnCalls, LockState(c) \/ LockLedger(c) \/ LockModel(c)
    PROVE  HolderInv'
<1> SUFFICES ASSUME NEW p \in Participants, lock'[p] # NoCall
             PROVE  pc'[lock'[p]] \in Holds(p)
  BY DEF HolderInv
<1>1. c \in Calls /\ p \in {"state", "ledger", "model"}
  BY DEF Calls, Participants
<1>2. PICK q \in Participants, to \in PcStates :
        /\ Acquire(c, q, to) /\ to \in Holds(q)
        /\ pc[c] \in Holds(p) => to \in Holds(p)
  <2>1. CASE LockState(c)
    <3>1. Acquire(c, "state", "lockLedger") /\ pc[c] = "lockState"
      BY <2>1 DEF LockState
    <3>2. "lockLedger" \in Holds("state") /\ "lockState" \notin Holds(p)
      BY <1>1 DEF Holds, HoldsState, HoldsLedger, HoldsModel, WithTokens
    <3> QED
      BY <3>1, <3>2 DEF Participants, PcStates
  <2>2. CASE LockLedger(c)
    <3> DEFINE to == IF OwnsModel THEN "lockModel" ELSE "preflight"
    <3>1. Acquire(c, "ledger", to) /\ pc[c] = "lockLedger"
      BY <2>2 DEF LockLedger
    <3>2. to \in Holds("ledger") /\ ("lockLedger" \in Holds(p) => to \in Holds(p))
      BY <1>1 DEF Holds, HoldsState, HoldsLedger, HoldsModel, WithTokens
    <3>3. to \in PcStates
      BY DEF PcStates
    <3> HIDE DEF to
    <3> QED
      BY <3>1, <3>2, <3>3 DEF Participants
  <2>3. CASE LockModel(c)
    <3>1. Acquire(c, "model", "preflight") /\ pc[c] = "lockModel"
      BY <2>3 DEF LockModel
    <3>2. "preflight" \in Holds("model") /\ "preflight" \in Holds(p)
      BY <1>1 DEF Holds, HoldsState, HoldsLedger, HoldsModel, WithTokens
    <3> QED
      BY <3>1, <3>2 DEF Participants, PcStates
  <2> QED
    BY <2>1, <2>2, <2>3
<1>3. /\ lock' = [lock EXCEPT ![q] = c]
      /\ pc' = [pc EXCEPT ![c] = to]
  BY <1>2 DEF Acquire, Goto
<1>4. CASE p = q
  BY <1>1, <1>2, <1>3, <1>4 DEF TypeInv, TypeOK
<1>5. CASE p # q
  <2>1. lock'[p] = lock[p] /\ lock[p] \in LearnCalls /\ pc[lock[p]] \in Holds(p)
    BY <1>3, <1>5 DEF TypeInv, TypeOK, HolderInv
  <2> QED
    BY <1>1, <1>2, <1>3, <2>1 DEF TypeInv, TypeOK, Calls
<1> QED
  BY <1>4, <1>5

LEMMA HolderRelease ==
    ASSUME TypeInv, HolderInv, NEW c \in LearnCalls, Unlock(c)
    PROVE  HolderInv'
<1> SUFFICES ASSUME NEW p \in Participants, lock'[p] # NoCall
             PROVE  pc'[lock'[p]] \in Holds(p)
  BY DEF HolderInv
<1>1. lock'[p] = lock[p] /\ lock[p] # c /\ lock[p] \in LearnCalls
  BY DEF Unlock, TypeInv, TypeOK
<1>2. PICK to \in {"done", "failed", "broken"} : pc' = [pc EXCEPT ![c] = to]
  BY DEF Unlock, Goto, Fail
<1> QED
  BY <1>1, <1>2 DEF TypeInv, TypeOK, HolderInv, Calls

LEMMA HolderStep == TypeInv /\ HolderInv /\ [Next]_vars => HolderInv'
<1> SUFFICES ASSUME TypeInv, HolderInv, [Next]_vars PROVE HolderInv'
  OBVIOUS
<1>1. ASSUME NEW l \in LearnCalls, Learn(l) PROVE HolderInv'
  <2>0. l \in Calls
    BY DEF Calls
  <2>1. CASE CheckInputs(l) \/ TakeSnapshot(l) \/ ReadModel(l) \/ Propose(l)
    <3>1. UNCHANGED lock /\ \E to : Goto(l, to)
      <4>1. TakeSnapshot(l) => \E to : Goto(l, to)
        <5>1. TakeSnapshot(l) => Goto(l, IF OwnsModel THEN "readModel" ELSE "propose")
                                 \/ Goto(l, "failed")
          BY DEF TakeSnapshot, Fail
        <5> QED
          BY <5>1
      <4>2. Propose(l) => Goto(l, "lockState") \/ Goto(l, "failed")
        BY DEF Propose, Fail
      <4> QED
        BY <2>1, <4>1, <4>2 DEF CheckInputs, TakeSnapshot, ReadModel, Propose, Fail
    <3>2. pc[l] \notin HoldsState
      BY <2>1 DEF CheckInputs, TakeSnapshot, ReadModel, Propose,
                  HoldsState, HoldsLedger, HoldsModel, WithTokens
    <3> QED
      BY <2>0, <3>1, <3>2, HolderFrame
  <2>2. CASE \/ Preflight(l) \/ CommitLedger(l) \/ CommitState(l) \/ CommitModel(l)
             \/ RollbackModel(l) \/ RollbackState(l) \/ RollbackLedger(l)
    <3>1. AfterState \in HoldsModel /\ FirstRollback \in HoldsModel
      BY DEF HoldsModel, WithTokens, AfterState, FirstRollback
    <3>2. UNCHANGED lock /\ \E to \in HoldsModel : Goto(l, to)
      <4>1. {"commitLedger", "commitState", "rollbackState", "rollbackLedger",
             "publish", "abandon", "torn"} \subseteq HoldsModel
        BY DEF HoldsModel, WithTokens
      <4> QED
        BY <2>2, <3>1, <4>1 DEF Preflight, CommitLedger, CommitState, CommitModel, RollbackModel,
                                RollbackState, RollbackLedger
    <3> QED
      BY <2>0, <3>2, HolderFrame
  <2> QED
    BY <1>1, <2>1, <2>2, HolderAcquire, HolderRelease DEF Learn
<1>2. ASSUME NEW o \in ObserveCalls, Interact(o) PROVE HolderInv'
  <2>1. o \in Calls /\ o \notin LearnCalls
    BY CallsAssumption DEF Calls
  <2>2. UNCHANGED lock /\ \E to : Goto(o, to)
    BY <1>2 DEF Interact, DecideSnapshot, RegisterDecision, ConsumeDecision, StoreTransition,
                AssimilateBelief, CountStep, StateStep, Fail
  <2> QED
    BY <2>1, <2>2, HolderFrame
<1>3. CASE UNCHANGED vars
  BY <1>3 DEF vars, HolderInv, Holds
<1> QED
  BY <1>1, <1>2, <1>3 DEF Next, Finished

\* Three locks are nested and every other operation takes one: learning commits take
\* them in one order, so whoever has a lock is never waiting for another's, and the
\* calls cannot all wait for each other (agent.py 543-548).
THEOREM NeverDeadlocked == Spec => []NoDeadlock
<1>1. Init => HolderInv
  BY DEF Init, HolderInv
<1>2. ASSUME CustodyInv, HolderInv PROVE NoDeadlock
  <2> USE DEF HoldsState, HoldsLedger, HoldsModel, WithTokens
  <2>1. ASSUME NEW p \in Participants, lock[p] # NoCall PROVE GoesOn(lock[p])
    <3> DEFINE l == lock[p]
    <3>1. l \in LearnCalls /\ l # NoCall /\ pc[l] \in HoldsState
      BY <1>2, <2>1, CallsAssumption
         DEF CustodyInv, TypeInv, TypeOK, HolderInv, Holds, Participants, Calls
    <3>2. ASSUME NEW q \in Participants, lock[q] # NoCall PROVE lock[q] = l
      <4>1. lock[q] \in LearnCalls /\ pc[lock[q]] \in HoldsState
        BY <1>2, <3>2 DEF CustodyInv, TypeInv, TypeOK, HolderInv, Holds, Participants
      <4> QED
        BY <1>2, <3>1, <4>1 DEF CustodyInv, LockInv
    <3>3. pc[l] = "lockLedger" => Free("ledger")
      BY <1>2, <3>2 DEF HolderInv, Holds, Participants, Free
    <3>4. pc[l] = "lockModel" => Free("model")
      BY <1>2, <3>2 DEF HolderInv, Holds, Participants, Free
    <3> QED
      BY <3>1, <3>3, <3>4 DEF GoesOn, Wants, Terminal
  <2>2. CASE \E p \in Participants : lock[p] # NoCall
    <3>1. PICK p \in Participants : lock[p] # NoCall
      BY <2>2
    <3>2. lock[p] \in Calls /\ GoesOn(lock[p])
      BY <1>2, <2>1, <3>1 DEF CustodyInv, TypeInv, TypeOK, Calls
    <3> QED
      BY <2>1, <3>2 DEF NoDeadlock
  <2>3. CASE \A p \in Participants : lock[p] = NoCall
    <3>1. \A c \in Calls : \A p \in Wants(c) : Free(p)
      BY <2>3 DEF Wants, Free, Participants
    <3> QED
      BY <2>1, <3>1 DEF NoDeadlock, GoesOn
  <2> QED
    BY <2>2, <2>3
<1>3. TypeInv /\ HolderInv /\ [Next]_vars => HolderInv'
  BY HolderStep
<1>4. CustodyInv => TypeInv
  BY DEF CustodyInv
<1> QED
  BY <1>1, <1>2, <1>3, <1>4, AgreementHolds, PTL DEF Spec

\* No path through a call goes round in circles, whatever stage raises: a call ends
\* after at most fifteen steps of its own (agent.py 414-577).
THEOREM CallsAlwaysAdvance == Spec => CallsAdvance
<1>1. ASSUME TypeInv, NEW c \in Calls, NEW to, Goto(c, to) PROVE pc'[c] = to
  BY <1>1 DEF Goto, TypeInv, TypeOK
<1>2. ASSUME TypeInv, NEW l \in LearnCalls, Learn(l) PROVE StepsLeft(l)' < StepsLeft(l)
  <2>0. l \in Calls
    BY DEF Calls
  <2>1. CASE CheckInputs(l)
    BY <1>1, <1>2, <2>0, <2>1 DEF CheckInputs, StepsLeft
  <2>2. CASE TakeSnapshot(l)
    <3>1. Goto(l, "readModel") \/ Goto(l, "propose") \/ Goto(l, "failed")
      BY <2>2 DEF TakeSnapshot, Fail
    <3> QED
      BY <1>1, <1>2, <2>0, <2>2, <3>1 DEF TakeSnapshot, StepsLeft
  <2>3. CASE ReadModel(l)
    BY <1>1, <1>2, <2>0, <2>3 DEF ReadModel, Fail, StepsLeft
  <2>4. CASE Propose(l)
    <3>1. Goto(l, "lockState") \/ Goto(l, "failed")
      BY <2>4 DEF Propose, Fail
    <3> QED
      BY <1>1, <1>2, <2>0, <2>4, <3>1 DEF Propose, StepsLeft
  <2>5. CASE LockState(l) \/ LockLedger(l) \/ LockModel(l)
    <3>1. \/ pc[l] = "lockState" /\ Goto(l, "lockLedger")
          \/ pc[l] = "lockLedger" /\ (Goto(l, "lockModel") \/ Goto(l, "preflight"))
          \/ pc[l] = "lockModel" /\ Goto(l, "preflight")
      BY <2>5 DEF LockState, LockLedger, LockModel, Acquire
    <3> QED
      BY <1>1, <1>2, <2>0, <3>1 DEF StepsLeft
  <2>6. CASE Preflight(l)
    <3>1. Goto(l, "commitLedger") \/ Goto(l, "abandon")
      BY <2>6 DEF Preflight
    <3> QED
      BY <1>1, <1>2, <2>0, <2>6, <3>1 DEF Preflight, StepsLeft
  <2>7. CASE CommitLedger(l) \/ CommitState(l) \/ CommitModel(l)
    <3>1. \/ pc[l] = "commitLedger" /\ Goto(l, "commitState")
          \/ pc[l] = "commitState" /\ (Goto(l, "commitModel") \/ Goto(l, "publish"))
          \/ pc[l] = "commitModel" /\ Goto(l, "publish")
          \/ /\ pc[l] \in {"commitLedger", "commitState", "commitModel"}
             /\ Goto(l, "rollbackModel") \/ Goto(l, "rollbackState")
      <4>1. AfterState \in {"commitModel", "publish"}
            /\ FirstRollback \in {"rollbackModel", "rollbackState"}
        BY DEF AfterState, FirstRollback
      <4> QED
        BY <2>7, <4>1 DEF CommitLedger, CommitState, CommitModel
    <3> QED
      BY <1>1, <1>2, <2>0, <3>1 DEF StepsLeft
  <2>8. CASE RollbackModel(l) \/ RollbackState(l) \/ RollbackLedger(l)
    <3>1. \/ pc[l] = "rollbackModel" /\ (Goto(l, "rollbackState") \/ Goto(l, "torn"))
          \/ pc[l] = "rollbackState" /\ (Goto(l, "rollbackLedger") \/ Goto(l, "torn"))
          \/ pc[l] = "rollbackLedger" /\ (Goto(l, "abandon") \/ Goto(l, "torn"))
      BY <2>8 DEF RollbackModel, RollbackState, RollbackLedger
    <3> QED
      BY <1>1, <1>2, <2>0, <3>1 DEF StepsLeft
  <2>9. CASE Unlock(l)
    BY <1>1, <1>2, <2>0, <2>9 DEF Unlock, Fail, StepsLeft
  <2> QED
    BY <1>2, <2>1, <2>2, <2>3, <2>4, <2>5, <2>6, <2>7, <2>8, <2>9 DEF Learn
<1>3. ASSUME TypeInv, NEW o \in ObserveCalls, Interact(o) PROVE StepsLeft(o)' < StepsLeft(o)
  <2>0. o \in Calls
    BY DEF Calls
  <2>1. \/ pc[o] = "decide" /\ (Goto(o, "register") \/ Goto(o, "failed"))
        \/ pc[o] = "register" /\ (Goto(o, "consume") \/ Goto(o, "failed"))
        \/ pc[o] = "consume" /\ (Goto(o, "append") \/ Goto(o, "failed"))
        \/ pc[o] = "append" /\ (Goto(o, "assimilate") \/ Goto(o, "failed"))
        \/ pc[o] = "assimilate" /\ (Goto(o, "account") \/ Goto(o, "failed"))
        \/ pc[o] = "account" /\ (Goto(o, "done") \/ Goto(o, "failed"))
    BY <1>3 DEF Interact, DecideSnapshot, RegisterDecision, ConsumeDecision, StoreTransition,
                AssimilateBelief, CountStep, StateStep, Fail
  <2> QED
    BY <1>1, <1>3, <2>0, <2>1 DEF StepsLeft
<1>4. ASSUME TypeInv, [Next]_vars
      PROVE  [\E c \in Calls : /\ StepsLeft(c)' < StepsLeft(c)
                               /\ \A d \in Calls \ {c} : pc'[d] = pc[d]]_vars
  <2>1. ASSUME NEW c \in Calls,
               (c \in LearnCalls /\ Learn(c)) \/ (c \in ObserveCalls /\ Interact(c))
        PROVE  /\ StepsLeft(c)' < StepsLeft(c)
               /\ \A d \in Calls \ {c} : pc'[d] = pc[d]
    BY <1>2, <1>3, <1>4, <2>1, OwnStep
  <2> QED
    BY <1>4, <2>1, Actor
<1> QED
  BY <1>4, InitType, StepType, PTL DEF Spec, CallsAdvance
=============================================================================
