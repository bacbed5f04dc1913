------------------------ MODULE InteractionLifecycle ------------------------
(***************************************************************************)
(* decide and observe of EpistemicAgent (runtime/agent.py 227-398 and      *)
(* 579-695) over the experience store, the ledger, the agent state, the    *)
(* replay index and the lifecycle journal.                                 *)
(*                                                                         *)
(* observe holds no lock from one of these to the next, so each step below *)
(* is one call of one participant.  A caller may observe the same decision *)
(* or the same step several times, retry after a failure, and, where       *)
(* Concurrent, from several threads.  A learning commit is one step: that  *)
(* is what LearningTransaction establishes.                                *)
(***************************************************************************)
EXTENDS AgentState, EpistemicLedger, ExperienceStore, LifecycleJournal, FiniteSets

CONSTANTS DecideCalls, ObserveCalls, LearnCalls,
          Contexts,      \* step identities: records of an episode and a step index
          Genesis,       \* the belief and transition an agent is restored with
          NoCall,        \* no call: the prior of the restored transition
          HasReplay,     \* is a replay index configured
          StepStore,     \* does the store offer find_step
          Concurrent,    \* do calls overlap
          MaxTick        \* bound: the clock of the model

Calls == DecideCalls \cup ObserveCalls \cup LearnCalls
Ticks == 0..MaxTick

ASSUME CallsAssumption ==
    /\ DecideCalls \cap ObserveCalls = {}
    /\ DecideCalls \cap LearnCalls = {}
    /\ ObserveCalls \cap LearnCalls = {}
    /\ Genesis \notin Calls
    /\ NoCall \notin Calls \cup {Genesis}
ASSUME ContextsAssumption == \A c \in Contexts : c.step \in Nat
ASSUME OptionsAssumption == {HasReplay, StepStore, Concurrent} \subseteq BOOLEAN
ASSUME MaxTickAssumption == MaxTick \in Nat

VARIABLES state, ledger, store,
          replay,     \* identities of the indexed experiences
          journal,    \* history of each step
          pc,
          made,       \* the decision a decide call took from its snapshot
          work        \* the local variables of an observe call

vars == <<state, ledger, store, replay, journal, pc, made, work>>

-----------------------------------------------------------------------------

InitBelief == [id |-> Genesis, model |-> Genesis, evidence |-> {Genesis}, formed |-> 0]
InitTransition == [id |-> Genesis, prior |-> NoCall, posterior |-> InitBelief, at |-> 0]
NoDecision == [id |-> NoCall, belief |-> InitBelief, policy |-> Genesis, at |-> 0]
NoEvent == [id |-> NoCall, decision |-> NoCall, context |-> NoCall, closed |-> 0, terminal |-> FALSE]
NoWork == [decision |-> NoDecision, event |-> NoEvent, found |-> {}, transition |-> InitTransition,
           attempted |-> "none"]

Init ==
    /\ state = [belief |-> InitBelief, model |-> Genesis, policy |-> Genesis, pending |-> {},
                latest |-> NoReceipt, lastTime |-> 0, gen |-> 0, steps |-> 0]
    /\ ledger = [transitions |-> <<InitTransition>>, transitionLast |-> 0,
                 updates |-> <<>>, updateLast |-> 0, gen |-> 0]
    /\ store = <<>>
    /\ replay = {}
    /\ journal = [c \in Contexts |-> <<>>]
    /\ pc = [c \in Calls |-> IF c \in DecideCalls THEN "snapshot"
                             ELSE IF c \in LearnCalls THEN "learn" ELSE "start"]
    /\ made = [d \in DecideCalls |-> NoDecision]
    /\ work = [o \in ObserveCalls |-> NoWork]

Goto(c, to) == pc' = [pc EXCEPT ![c] = to]

Terminal == {"decided", "learned", "refused",
             "returned", "already", "failure", "unknown", "raised"}
Waiting == {"snapshot", "learn", "start"}

\* Without concurrency a call begins only when no other is under way.
MayBegin == Concurrent \/ \A c \in Calls : pc[c] \in Terminal \cup Waiting

-----------------------------------------------------------------------------
(* decide, and a learning commit as one step.                              *)

DecideSnapshot(d) ==
    /\ pc[d] = "snapshot" /\ MayBegin
    /\ \E at \in Ticks :
         IF SnapshotAccepts(state, at)
         THEN /\ made' = [made EXCEPT ![d] = [id |-> d, belief |-> state.belief,
                                              policy |-> state.policy, at |-> at]]
              /\ Goto(d, "register")
         ELSE Goto(d, "refused") /\ UNCHANGED made
    /\ UNCHANGED <<state, ledger, store, replay, journal, work>>

RegisterDecision(d) ==
    /\ pc[d] = "register"
    /\ IF RegisterAccepts(state, made[d])
       THEN state' = Register(state, made[d]) /\ Goto(d, "decided")
       ELSE Goto(d, "refused") /\ UNCHANGED state
    /\ UNCHANGED <<ledger, store, replay, journal, made, work>>

\* A receipt for one stored transition: a new model under a resulting belief, or a
\* new policy.
Receipt(l, t, at, newModel, evidence) ==
    [call |-> l, id |-> l, status |-> "applied",
     prevModel |-> state.model, newModel |-> IF newModel THEN l ELSE state.model,
     prevPolicy |-> state.policy, newPolicy |-> IF newModel THEN state.policy ELSE l,
     source |-> t, completed |-> at, rollbackOf |-> NoCall,
     resulting |-> IF newModel
                   THEN [id |-> l, model |-> l, evidence |-> evidence, formed |-> at]
                   ELSE NoBelief]

Learn(l) ==
    /\ pc[l] = "learn" /\ MayBegin
    /\ \E t \in EntriesOf(ledger.transitions), at \in Ticks, newModel \in BOOLEAN :
         \E evidence \in {t.posterior.evidence, t.posterior.evidence \cup state.belief.evidence} :
           LET r == Receipt(l, t, at, newModel, evidence) IN
           IF /\ SnapshotAccepts(state, at) /\ at >= t.at
              /\ UpdateAccepts(state, r) /\ ReceiptAccepts(ledger, r)
           THEN /\ state' = ApplyUpdate(state, r)
                /\ ledger' = AppendReceipt(ledger, r)
                /\ Goto(l, "learned")
           ELSE Goto(l, "refused") /\ UNCHANGED <<state, ledger>>
    /\ UNCHANGED <<store, replay, journal, made, work>>

-----------------------------------------------------------------------------
(* observe, before anything is written.                                    *)

Event(o) == work[o].event
ContextOf(o) == Event(o).context
History(o) == journal[ContextOf(o)]

Find(context) == IF StepStore THEN FindStep(store, context) ELSE {}

\* Where observe goes next; when it returns or raises its local variables are gone.
Continue(o, to) ==
    /\ Goto(o, to)
    /\ work' = IF to \in Terminal THEN [work EXCEPT ![o] = NoWork] ELSE work

\* A caller supplies a decision it was given, a step and what the environment did.
Start(o) ==
    /\ pc[o] = "start" /\ MayBegin
    /\ \E d \in {d \in DecideCalls : pc[d] = "decided"}, context \in Contexts,
          closed \in Ticks, terminal \in BOOLEAN :
         /\ closed >= made[d].at
         /\ work' = [work EXCEPT
                       ![o].decision = made[d],
                       ![o].event = [id |-> o, decision |-> d, context |-> context,
                                     closed |-> closed, terminal |-> terminal],
                       ![o].found = Find(context)]
         /\ Goto(o, "history")
    /\ UNCHANGED <<state, ledger, store, replay, journal, made>>

\* A step with a history was observed; a stored experience without one is recorded as
\* discovered.  (The code reads the history twice here; histories only grow, so one
\* read at the time of the second has the same outcomes.)
ReadHistory(o) ==
    /\ pc[o] = "history"
    /\ \/ History(o) # <<>> /\ Continue(o, "already")
       \/ History(o) = <<>> /\ work[o].found # {} /\ Continue(o, "discover")
       \/ History(o) = <<>> /\ work[o].found = {} /\ Continue(o, "consume")
    /\ UNCHANGED <<state, ledger, store, replay, journal, made>>

\* One append to the history of the call's step; a refused append raises ValueError.
Journal(o, accepts, record, to) ==
    /\ IF accepts
       THEN journal' = [journal EXCEPT ![ContextOf(o)] = Append(@, record)] /\ Continue(o, to)
       ELSE Continue(o, "raised") /\ UNCHANGED journal
    /\ UNCHANGED <<state, ledger, store, replay, made>>

\* Bug: a discovered experience is reported and not recorded.
RecordDiscoveredSilently(o) ==
    /\ pc[o] = "discover"
    /\ Continue(o, "already")
    /\ UNCHANGED <<state, ledger, store, replay, journal, made>>

RecordDiscovered(o) ==
    /\ pc[o] = "discover"
    /\ \E e \in work[o].found :
         Journal(o, StageAccepts(History(o), "experience_stored", e.closed),
                 StageRecord("experience_stored", e.id, e.closed), "already")

ConsumeDecision(o) ==
    /\ pc[o] = "consume"
    /\ IF ConsumeAccepts(state, work[o].decision)
       THEN state' = Consume(state, work[o].decision) /\ Continue(o, "append")
       ELSE Continue(o, "unknown") /\ UNCHANGED state
    /\ UNCHANGED <<ledger, store, replay, journal, made>>

-----------------------------------------------------------------------------
(* observe, the writes.  A backend may raise instead of doing its work; the *)
(* store, being a service, may also raise after it has stored the event.    *)

\* The handler of a failed stage: the failure is what the journal gets next.
Handle(o, attempted) ==
    work' = [work EXCEPT ![o].attempted = attempted] /\ Goto(o, "fail")

StoreExperience(o) ==
    /\ pc[o] = "append"
    /\ \/ /\ StoreAccepts(store, Event(o))
          /\ store' = Append(store, Event(o))
          /\ \E to \in {"journalExperience", "lookAgain"} : Goto(o, to)
       \/ Goto(o, "lookAgain") /\ UNCHANGED store
    /\ UNCHANGED <<state, ledger, replay, journal, made, work>>

\* A failed append of a step that turns out to be stored is a discovery.
LookAgain(o) ==
    /\ pc[o] = "lookAgain"
    /\ LET found == Find(ContextOf(o)) IN
       IF found = {} THEN Handle(o, "experience_stored")
       ELSE work' = [work EXCEPT ![o].found = found] /\ Goto(o, "history")
    /\ UNCHANGED <<state, ledger, store, replay, journal, made>>

RecordStage(o, from, stage, at, to) ==
    /\ pc[o] = from
    /\ Journal(o, StageAccepts(History(o), stage, at), StageRecord(stage, o, at), to)

RecordExperience(o) ==
    RecordStage(o, "journalExperience", "experience_stored", Event(o).closed, "derive")

\* Evidence is told apart here by the experience it came with, whether or not the
\* environment names its observation anew; LearningTransaction has the repeated names.
TransitionOf(o, formed, at) ==
    LET prior == work[o].decision.belief IN
    [id |-> o, prior |-> prior.id, at |-> at,
     posterior |-> [id |-> o, model |-> prior.model,
                    evidence |-> prior.evidence \cup {o}, formed |-> formed]]

\* Bug: a refused transition is swallowed and the step goes on.
StoreTransitionSwallowed(o) ==
    /\ pc[o] = "derive"
    /\ \E formed \in Event(o).closed..MaxTick : \E at \in formed..MaxTick :
         LET t == TransitionOf(o, formed, at) IN
         /\ ledger' = IF TransitionAccepts(ledger, t) THEN AppendTransition(ledger, t) ELSE ledger
         /\ work' = [work EXCEPT ![o].transition = t]
         /\ Goto(o, "journalTransition")
    /\ UNCHANGED <<state, store, replay, journal, made>>

\* Belief update, score and effect are derived from the decision's own belief.
StoreTransition(o) ==
    /\ pc[o] = "derive"
    /\ \/ \E formed \in Event(o).closed..MaxTick : \E at \in formed..MaxTick :
            LET t == TransitionOf(o, formed, at) IN
            /\ Event(o) \in EventsOf(store)
            /\ TransitionAccepts(ledger, t)
            /\ ledger' = AppendTransition(ledger, t)
            /\ work' = [work EXCEPT ![o].transition = t]
            /\ Goto(o, "journalTransition")
       \/ Handle(o, "transition_stored") /\ UNCHANGED ledger
    /\ UNCHANGED <<state, store, replay, journal, made>>

RecordTransition(o) ==
    RecordStage(o, "journalTransition", "transition_stored", work[o].transition.at, "assimilate")

AssimilateBelief(o) ==
    /\ pc[o] = "assimilate"
    /\ IF AssimilateAccepts(state, work[o].transition)
       THEN state' = Assimilate(state, work[o].transition) /\ Goto(o, "account") /\ UNCHANGED work
       ELSE Handle(o, "state_applied") /\ UNCHANGED state
    /\ UNCHANGED <<ledger, store, replay, journal, made>>

CountStep(o) ==
    LET at == work[o].transition.at IN
    /\ pc[o] = "account"
    /\ IF AddResourceAccepts(state, at)
       THEN state' = AddResource(state, at) /\ Goto(o, "journalState") /\ UNCHANGED work
       ELSE Handle(o, "state_applied") /\ UNCHANGED state
    /\ UNCHANGED <<ledger, store, replay, journal, made>>

\* Bug: a configured replay index is passed by.
RecordStateOnly(o) ==
    RecordStage(o, "journalState", "state_applied", work[o].transition.at, "returned")

RecordState(o) ==
    RecordStage(o, "journalState", "state_applied", work[o].transition.at,
                IF HasReplay THEN "index" ELSE "returned")

IndexReplay(o) ==
    /\ pc[o] = "index"
    /\ \/ o \notin replay /\ replay' = replay \cup {o} /\ Goto(o, "journalReplay") /\ UNCHANGED work
       \/ Handle(o, "replay_indexed") /\ UNCHANGED replay
    /\ UNCHANGED <<state, ledger, store, journal, made>>

RecordReplay(o) ==
    RecordStage(o, "journalReplay", "replay_indexed", work[o].transition.at, "returned")

\* The times the handlers pass on: the close of the step until a transition exists.
RecordFailure(o) ==
    LET attempted == work[o].attempted
        at == IF attempted \in {"experience_stored", "transition_stored"}
              THEN Event(o).closed ELSE work[o].transition.at
    IN /\ pc[o] = "fail"
       /\ Journal(o, FailureAccepts(History(o), attempted, at),
                  FailureRecord(attempted, o, at), "failure")

Observe(o) ==
    \/ Start(o) \/ ReadHistory(o) \/ RecordDiscovered(o) \/ ConsumeDecision(o)
    \/ StoreExperience(o) \/ LookAgain(o) \/ RecordExperience(o)
    \/ StoreTransition(o) \/ RecordTransition(o) \/ AssimilateBelief(o) \/ CountStep(o)
    \/ RecordState(o) \/ IndexReplay(o) \/ RecordReplay(o) \/ RecordFailure(o)

-----------------------------------------------------------------------------

\* No call is under way: nothing is left to do, or nothing has been asked for.
Idle == \A c \in Calls : pc[c] \in Terminal \cup Waiting

Rest == Idle /\ UNCHANGED vars

Next ==
    \/ \E d \in DecideCalls : DecideSnapshot(d) \/ RegisterDecision(d)
    \/ \E l \in LearnCalls : Learn(l)
    \/ \E o \in ObserveCalls : Observe(o)
    \/ Rest

Spec == Init /\ [][Next]_vars

-----------------------------------------------------------------------------
(* Properties.                                                             *)

Ids == Calls \cup {Genesis}
Belief == [id : Ids, model : Ids, evidence : SUBSET Ids, formed : Ticks]
Transition == [id : Ids, prior : Ids \cup {NoCall}, posterior : Belief, at : Ticks]
StoredEvent == [id : ObserveCalls, decision : DecideCalls, context : Contexts,
                closed : Ticks, terminal : BOOLEAN]
Record == [stage : Stages \cup {"failed"}, experience : ObserveCalls, at : Ticks,
           attempted : Stages \cup {"none"}]

\* Types of what the calls write.
TypeOK ==
    /\ state.belief \in Belief
    /\ state.pending \subseteq DecideCalls
    /\ state.lastTime \in Ticks
    /\ EntriesOf(ledger.transitions) \subseteq Transition
    /\ EventsOf(store) \subseteq StoredEvent
    /\ replay \subseteq ObserveCalls
    /\ \A c \in Contexts : {journal[c][i] : i \in DOMAIN journal[c]} \subseteq Record

\* A decision leads to at most one stored experience, however often and by however
\* many callers it is observed (state.py 160-170, agent.py 278-286).
DecisionUsedOnce ==
    \A d \in DecideCalls : Cardinality({e \in EventsOf(store) : e.decision = d}) <= 1

Journaled(stage) == {c \in Contexts : stage \in StagesOf(journal[c])}
StoredAt(c) == {e.id : e \in FindStep(store, c)}

\* What a step's writes are, read from the participants themselves.
Written(stage, c) ==
    CASE stage = "experience_stored" -> StoredAt(c) # {}
      [] stage = "transition_stored" -> StoredAt(c) \cap IdsOf(ledger.transitions) # {}
      [] stage = "state_applied"     -> StoredAt(c) \cap state.belief.evidence # {}
      [] stage = "replay_indexed"    -> StoredAt(c) \cap replay # {}

\* A stage the journal shows was carried out, and stays so whatever is learned or
\* observed later: no later belief drops the observation (agent.py 287-392).
JournalSound ==
    \A stage \in Stages : \A c \in Journaled(stage) : Written(stage, c)

\* The belief rests on nothing but recorded transitions of stored experience: no
\* belief is revised ahead of its evidence (agent.py 311-366, ledger.py 79-105).
BeliefIsBacked ==
    \A o \in state.belief.evidence \ {Genesis} :
      /\ o \in IdsOf(ledger.transitions)
      /\ \E e \in EventsOf(store) : e.id = o

\* A call that returns has its step completely recorded under its own experience,
\* whatever other callers of the step did meanwhile (agent.py 394-398).
ReturnedIsComplete ==
    \A o \in ObserveCalls : pc[o] = "returned" =>
      /\ o \in IdsOf(ledger.transitions) \cap state.belief.evidence
      /\ HasReplay => o \in replay
      /\ \E c \in Contexts :
           /\ StoredAt(c) = {o}
           /\ LastStage(journal[c]) = IF HasReplay THEN "replay_indexed" ELSE "state_applied"

\* Evidence that reached a belief through a learning receipt: a learner may build on a
\* stored transition whose own assimilation was refused.
LearnedEvidence ==
    UNION {r.resulting.evidence : r \in {r \in EntriesOf(ledger.updates) : r.resulting # NoBelief}}

\* "... without guessing which canonical writes already occurred" (journal.py 109-114):
\* when no call is under way the journal shows every write that was made, and the step
\* counter counts the steps whose assimilation it shows.
JournalExact ==
    Idle =>
      /\ \A stage \in Stages, c \in Contexts :
           Written(stage, c) =>
             \/ c \in Journaled(stage)
             \/ stage = "state_applied" /\ StoredAt(c) \subseteq LearnedEvidence
      /\ state.steps = Cardinality(Journaled("state_applied"))
=============================================================================
