--------------------- MODULE InteractionLifecycleProofs ---------------------
(***************************************************************************)
(* What InteractionLifecycle guarantees for any number of callers, steps   *)
(* and ticks, whether callers overlap or take turns: types, one use of a   *)
(* decision, a belief that is backed by what is stored, a sound journal,   *)
(* complete returns.  And for callers that take turns, a journal that is   *)
(* exact.                                                                  *)
(***************************************************************************)
EXTENDS InteractionLifecycle, FiniteSetTheorems, TLAPS

-----------------------------------------------------------------------------
(* Types of all variables, the local ones of a call included.              *)

DecidePoints == {"snapshot", "register", "decided", "refused"}
LearnPoints == {"learn", "learned", "refused"}

\* From the point at which a stage of an observation is done until the call has ended.
Indexed == {"journalReplay"}
Applied == {"account", "journalState", "index"} \cup Indexed
Derived == {"journalTransition", "assimilate"} \cup Applied
Kept == {"journalExperience", "derive"} \cup Derived

\* An observe call is under way and has not stored its experience, or has not seen it.
Early == {"history", "discover", "consume", "append", "lookAgain", "fail"}

UnderWay == Early \cup Kept
ObservePoints == {"start", "returned", "already", "failure", "unknown", "raised"} \cup UnderWay

Decision == [id : DecideCalls \cup {NoCall}, belief : Belief, policy : Ids, at : Ticks]
EventShape == [id : ObserveCalls \cup {NoCall}, decision : DecideCalls \cup {NoCall},
           context : Contexts \cup {NoCall}, closed : Ticks, terminal : BOOLEAN]
Locals == [decision : Decision, event : EventShape, found : SUBSET StoredEvent,
           transition : Transition, attempted : Stages \cup {"none"}]
UpdateReceipt ==
    [call : LearnCalls, id : LearnCalls, status : {"applied"}, prevModel : Ids, newModel : Ids,
     prevPolicy : Ids, newPolicy : Ids, source : Transition, completed : Ticks,
     rollbackOf : {NoCall}, resulting : Belief \cup {NoBelief}]
AgentStates == [belief : Belief, model : Ids, policy : Ids, pending : SUBSET DecideCalls,
                latest : UpdateReceipt \cup {NoReceipt}, lastTime : Ticks, gen : Nat, steps : Nat]
Ledgers == [transitions : Seq(Transition), transitionLast : Ticks,
            updates : Seq(UpdateReceipt), updateLast : Ticks, gen : Nat]

TypeInv ==
    /\ state \in AgentStates
    /\ ledger \in Ledgers
    /\ store \in Seq(StoredEvent)
    /\ replay \subseteq ObserveCalls
    /\ journal \in [Contexts -> Seq(Record)]
    /\ pc \in [Calls -> DecidePoints \cup LearnPoints \cup ObservePoints]
    /\ \A d \in DecideCalls : pc[d] \in DecidePoints
    /\ \A l \in LearnCalls : pc[l] \in LearnPoints
    /\ \A o \in ObserveCalls : pc[o] \in ObservePoints
    /\ made \in [DecideCalls -> Decision]
    /\ work \in [ObserveCalls -> Locals]

\* What a call under way works with: the decision as it was given out, the step and its
\* own event, and what it found stored under that step.
CallInv ==
    /\ \A d \in DecideCalls : pc[d] \in {"register", "decided"} => made[d].id = d
    /\ \A o \in ObserveCalls : pc[o] \in UnderWay =>
         /\ Event(o) \in StoredEvent
         /\ Event(o).id = o
         /\ pc[Event(o).decision] = "decided"
         /\ work[o].decision = made[Event(o).decision]
         /\ work[o].found \subseteq FindStep(store, ContextOf(o))
         /\ pc[o] = "discover" => work[o].found # {}
         /\ pc[o] = "fail" => work[o].attempted \in Stages

-----------------------------------------------------------------------------
(* Beliefs and their backing.                                              *)

\* A belief the ledger knows: the posterior of a stored transition or the result of a
\* stored receipt.
OfRecord(b) ==
    \/ \E t \in EntriesOf(ledger.transitions) : b = t.posterior
    \/ \E r \in EntriesOf(ledger.updates) : r.resulting # NoBelief /\ b = r.resulting

Backed(evidence) ==
    \A o \in evidence \ {Genesis} :
      /\ o \in IdsOf(ledger.transitions)
      /\ \E e \in EventsOf(store) : e.id = o

\* An identity names one record, a record names its belief.
RecordInv ==
    /\ InitTransition \in EntriesOf(ledger.transitions)
    /\ \A t \in EntriesOf(ledger.transitions) :
         /\ t.id \in ObserveCalls \cup {Genesis}
         /\ t.posterior.id = t.id
         /\ Backed(t.posterior.evidence)
    /\ \A t, u \in EntriesOf(ledger.transitions) : t.id = u.id => t = u
    /\ \A r \in EntriesOf(ledger.updates) : r.resulting # NoBelief =>
         /\ r.resulting.id = r.id
         /\ Backed(r.resulting.evidence)
    /\ \A r, q \in EntriesOf(ledger.updates) : r.id = q.id => r = q
    /\ OfRecord(state.belief)
    /\ \A d \in DecideCalls : OfRecord(made[d].belief)

\* What a call has written by the point it has reached.
WrittenInv ==
    \A o \in ObserveCalls :
      /\ pc[o] \in Kept => Event(o) \in EventsOf(store)
      /\ pc[o] \in Derived =>
           LET t == work[o].transition IN
           /\ t \in EntriesOf(ledger.transitions)
           /\ t.id = o
           /\ t.prior = work[o].decision.belief.id
           /\ t.posterior.evidence = work[o].decision.belief.evidence \cup {o}
      /\ pc[o] \in Applied => o \in state.belief.evidence
      /\ pc[o] \in Indexed => o \in replay

-----------------------------------------------------------------------------
(* Decisions and steps are used once.                                      *)

UseInv ==
    /\ \A d \in state.pending : pc[d] = "decided"
    /\ \A e \in EventsOf(store) : pc[e.decision] = "decided" /\ e.decision \notin state.pending
    /\ \A e, f \in EventsOf(store) : e.decision = f.decision \/ e.context = f.context => e = f
    /\ \A o \in ObserveCalls : pc[o] = "append" =>
         /\ Event(o).decision \notin state.pending
         /\ \A e \in EventsOf(store) : e.decision # Event(o).decision
         /\ \A p \in ObserveCalls :
              pc[p] = "append" /\ Event(p).decision = Event(o).decision => p = o

ReplayInv ==
    HasReplay \/ \A o \in ObserveCalls :
                   pc[o] \notin {"index", "journalReplay"} /\ work[o].attempted # "replay_indexed"

IInv == /\ TypeInv /\ CallInv /\ RecordInv /\ WrittenInv /\ UseInv
        /\ JournalSound /\ ReplayInv /\ ReturnedIsComplete

\* The time of the last record of a history.
LastAt(h) == IF h = <<>> THEN 0 ELSE h[Len(h)].at
-----------------------------------------------------------------------------
(* Sequences of records, read as sets.                                     *)

LEMMA AppendedEntries ==
    ASSUME NEW S, NEW s \in Seq(S), NEW x \in S
    PROVE  /\ {Append(s, x)[i] : i \in DOMAIN Append(s, x)} = {s[i] : i \in DOMAIN s} \cup {x}
           /\ Append(s, x) \in Seq(S)
<1>1. DOMAIN Append(s, x) = DOMAIN s \cup {Len(s) + 1} /\ Append(s, x)[Len(s) + 1] = x
  OBVIOUS
<1>2. \A i \in DOMAIN s : Append(s, x)[i] = s[i]
  OBVIOUS
<1>3. Append(s, x) \in Seq(S)
  OBVIOUS
<1> QED
  BY <1>1, <1>2, <1>3

\* The entries of a sequence have its type, and its identities are those of its entries.
LEMMA EntryTypes ==
    ASSUME NEW S, NEW s \in Seq(S)
    PROVE  {s[i] : i \in DOMAIN s} \subseteq S
  OBVIOUS

LEMMA IdsOfEntries ==
    ASSUME NEW s
    PROVE  IdsOf(s) = {e.id : e \in EntriesOf(s)}
  BY DEF IdsOf, EntriesOf

LEMMA EventsAppended ==
    ASSUME NEW s \in Seq(StoredEvent), NEW e \in StoredEvent
    PROVE  /\ EventsOf(Append(s, e)) = EventsOf(s) \cup {e}
           /\ Append(s, e) \in Seq(StoredEvent)
  BY AppendedEntries DEF EventsOf

LEMMA TransitionAppended ==
    ASSUME NEW g \in Ledgers, NEW t \in Transition
    PROVE  LET h == AppendTransition(g, t) IN
           /\ h \in Ledgers
           /\ EntriesOf(h.transitions) = EntriesOf(g.transitions) \cup {t}
           /\ IdsOf(h.transitions) = IdsOf(g.transitions) \cup {t.id}
           /\ h.updates = g.updates
<1>1. g.gen + 1 \in Nat /\ t.at \in Ticks /\ g.transitions \in Seq(Transition)
  BY DEF Ledgers, Transition
<1>2. /\ EntriesOf(Append(g.transitions, t)) = EntriesOf(g.transitions) \cup {t}
      /\ Append(g.transitions, t) \in Seq(Transition)
  BY <1>1, AppendedEntries DEF EntriesOf
<1>3. AppendTransition(g, t) = [g EXCEPT !.transitions = Append(g.transitions, t),
                                         !.transitionLast = t.at, !.gen = g.gen + 1]
  BY DEF AppendTransition, Ledgers
<1>4. /\ AppendTransition(g, t) \in Ledgers
      /\ AppendTransition(g, t).transitions = Append(g.transitions, t)
      /\ AppendTransition(g, t).updates = g.updates
  BY <1>1, <1>2, <1>3 DEF Ledgers
<1> QED
  BY <1>2, <1>4, IdsOfEntries

LEMMA ReceiptAppended ==
    ASSUME NEW g \in Ledgers, NEW r \in UpdateReceipt
    PROVE  LET h == AppendReceipt(g, r) IN
           /\ h \in Ledgers
           /\ EntriesOf(h.updates) = EntriesOf(g.updates) \cup {r}
           /\ h.transitions = g.transitions
<1>1. g.gen + 1 \in Nat /\ r.completed \in Ticks /\ g.updates \in Seq(UpdateReceipt)
  BY DEF Ledgers, UpdateReceipt
<1>2. /\ EntriesOf(Append(g.updates, r)) = EntriesOf(g.updates) \cup {r}
      /\ Append(g.updates, r) \in Seq(UpdateReceipt)
  BY <1>1, AppendedEntries DEF EntriesOf
<1>3. AppendReceipt(g, r) = [g EXCEPT !.updates = Append(g.updates, r),
                                      !.updateLast = r.completed, !.gen = g.gen + 1]
  BY DEF AppendReceipt, Ledgers
<1> QED
  BY <1>1, <1>2, <1>3 DEF Ledgers

\* The four stages, and what a record appended to a history changes.
LEMMA StageNames ==
    Stages = {"experience_stored", "transition_stored", "state_applied", "replay_indexed"}
<1>1. DOMAIN StageOrder = {1, 2, 3, 4}
  BY DEF StageOrder
<1> QED
  BY <1>1 DEF Stages, StageOrder

LEMMA HistoryAppended ==
    ASSUME NEW h \in Seq(Record), NEW x \in Record
    PROVE  /\ Append(h, x) \in Seq(Record)
           /\ StagesOf(Append(h, x)) = StagesOf(h) \cup {x.stage}
           /\ LastStage(Append(h, x)) = x.stage
           /\ LastAt(Append(h, x)) = x.at
           /\ Append(h, x) # <<>>
<1>1. /\ DOMAIN Append(h, x) = DOMAIN h \cup {Len(h) + 1} /\ Append(h, x)[Len(h) + 1] = x
      /\ Len(Append(h, x)) = Len(h) + 1
  OBVIOUS
<1>2. \A i \in DOMAIN h : Append(h, x)[i] = h[i]
  OBVIOUS
<1>3. Append(h, x) \in Seq(Record)
  OBVIOUS
<1>4. Append(h, x) # <<>>
  BY <1>1
<1> QED
  BY <1>1, <1>2, <1>3, <1>4 DEF StagesOf, LastStage, LastAt

\* A history that is not empty ends with a record.
LEMMA HistoryEnds ==
    ASSUME NEW h \in Seq(Record), h # <<>>
    PROVE  /\ h[Len(h)] \in Record
           /\ LastStage(h) = h[Len(h)].stage
           /\ LastStage(h) \in StagesOf(h)
           /\ LastStage(h) # "none"
<1>1. Len(h) \in DOMAIN h /\ h[Len(h)] \in Record
  OBVIOUS
<1>2. h[Len(h)].stage \in Stages \cup {"failed"}
  BY <1>1 DEF Record
<1> QED
  BY <1>1, <1>2, StageNames DEF LastStage, StagesOf

-----------------------------------------------------------------------------
(* Types.                                                                  *)

LEMMA DecisionStepsType ==
    ASSUME NEW s \in AgentStates, NEW d \in Decision
    PROVE  /\ d.id \in DecideCalls => Register(s, d) \in AgentStates
           /\ Consume(s, d) \in AgentStates
<1>1. s.gen + 1 \in Nat /\ d.at \in Ticks
  BY DEF AgentStates, Decision
<1>2. /\ d.id \in DecideCalls => s.pending \cup {d.id} \in SUBSET DecideCalls
      /\ s.pending \ {d.id} \in SUBSET DecideCalls
  BY DEF AgentStates
<1>3. d.id \in DecideCalls => Register(s, d) \in AgentStates
  BY <1>1, <1>2 DEF AgentStates, Register
<1>4. Consume(s, d) \in AgentStates
  BY <1>1, <1>2 DEF AgentStates, Consume
<1> QED
  BY <1>3, <1>4

LEMMA EvidenceStepsType ==
    ASSUME NEW s \in AgentStates, NEW t \in Transition
    PROVE  Assimilate(s, t) \in AgentStates /\ AddResource(s, t.at) \in AgentStates
<1>1. s.gen + 1 \in Nat /\ s.steps + 1 \in Nat
  BY DEF AgentStates
<1>2. t.posterior \in Belief /\ t.posterior.formed \in Ticks /\ t.at \in Ticks
  BY DEF Transition, Belief
<1>3. Assimilate(s, t) \in AgentStates
  BY <1>1, <1>2 DEF AgentStates, Assimilate
<1>4. AddResource(s, t.at) \in AgentStates
  BY <1>1, <1>2 DEF AgentStates, AddResource
<1> QED
  BY <1>3, <1>4

LEMMA UpdateType ==
    ASSUME NEW s \in AgentStates, NEW r \in UpdateReceipt
    PROVE  /\ ApplyUpdate(s, r) \in AgentStates
           /\ ApplyUpdate(s, r).belief = IF r.resulting # NoBelief THEN r.resulting ELSE s.belief
           /\ ApplyUpdate(s, r).pending = s.pending
           /\ ApplyUpdate(s, r).steps = s.steps
<1> DEFINE belief == IF r.resulting # NoBelief THEN r.resulting ELSE s.belief
<1>1. s.gen + 1 \in Nat
  BY DEF AgentStates
<1>2. r.newModel \in Ids /\ r.newPolicy \in Ids /\ belief \in Belief /\ r.status # "rejected"
  BY DEF AgentStates, UpdateReceipt
<1>3. r \in UpdateReceipt \cup {NoReceipt} /\ r.completed \in Ticks
  BY DEF UpdateReceipt
<1>4. ApplyUpdate(s, r) = [s EXCEPT !.model = r.newModel, !.policy = r.newPolicy, !.belief = belief,
                                    !.latest = r, !.lastTime = r.completed, !.gen = s.gen + 1]
  BY <1>2 DEF ApplyUpdate, AgentStates
<1> HIDE DEF belief
<1>5. ApplyUpdate(s, r) \in AgentStates
  BY <1>1, <1>2, <1>3, <1>4 DEF AgentStates
<1>6. /\ ApplyUpdate(s, r).belief = belief
      /\ ApplyUpdate(s, r).pending = s.pending
      /\ ApplyUpdate(s, r).steps = s.steps
  BY <1>4 DEF AgentStates
<1> QED
  BY <1>5, <1>6 DEF belief

\* What a call starts and ends with is well typed.
LEMMA InitialTypes ==
    /\ InitBelief \in Belief
    /\ InitTransition \in Transition
    /\ NoDecision \in Decision
    /\ NoEvent \in EventShape
    /\ NoWork \in Locals
<1>1. 0 \in Ticks
  BY MaxTickAssumption DEF Ticks
<1>2. InitBelief \in Belief
  BY <1>1 DEF InitBelief, Belief, Ids
<1>3. InitTransition \in Transition
  BY <1>1, <1>2 DEF InitTransition, Transition, Ids
<1>4. NoDecision \in Decision
  BY <1>1, <1>2 DEF NoDecision, Decision, Ids
<1>5. NoEvent \in EventShape
  BY <1>1 DEF NoEvent, EventShape
<1> QED
  BY <1>2, <1>3, <1>4, <1>5 DEF NoWork, Locals

\* The kinds of calls have points of their own, and no call is of two kinds.
LEMMA Kinds ==
    /\ \A c \in Calls : c \in DecideCalls \/ c \in LearnCalls \/ c \in ObserveCalls
    /\ \A o \in ObserveCalls : o \in Calls /\ o \notin DecideCalls /\ o \notin LearnCalls
    /\ \A d \in DecideCalls : d \in Calls /\ d \notin ObserveCalls /\ d \notin LearnCalls
    /\ \A l \in LearnCalls : l \in Calls /\ l \notin ObserveCalls /\ l \notin DecideCalls
    /\ \A c \in Calls : c \in Ids /\ c # Genesis /\ c # NoCall
    /\ Genesis \in Ids /\ Genesis # NoCall
  BY CallsAssumption DEF Calls, Ids

-----------------------------------------------------------------------------
(* One step of an observe call: the call moves to a point with its locals.  *)

\* What CallInv says of one call, for the locals w it has at the point to.
WorksWith(o, to, w) ==
    to \in UnderWay =>
      /\ w.event \in StoredEvent
      /\ w.event.id = o
      /\ pc[w.event.decision] = "decided"
      /\ w.decision = made[w.event.decision]
      /\ w.found \subseteq FindStep(store', w.event.context)
      /\ to = "discover" => w.found # {}
      /\ to = "fail" => w.attempted \in Stages

Moves(o, to, w) ==
    /\ pc' = [pc EXCEPT ![o] = to]
    /\ work' = [work EXCEPT ![o] = w]
    /\ made' = made
    /\ WorksWith(o, to, w)
    /\ EventsOf(store) \subseteq EventsOf(store')

Typed ==
    /\ state' \in AgentStates /\ ledger' \in Ledgers /\ store' \in Seq(StoredEvent)
    /\ replay' \subseteq ObserveCalls /\ journal' \in [Contexts -> Seq(Record)]

\* Leaving the locals alone, or dropping them with the end of the call.
LEMMA ContinueMoves ==
    ASSUME TypeInv, CallInv, NEW o \in ObserveCalls, NEW to \in ObservePoints,
           pc[o] \in UnderWay, Continue(o, to),
           to = "discover" => work[o].found # {}, to # "fail",
           made' = made, EventsOf(store) \subseteq EventsOf(store')
    PROVE  \E w \in Locals : Moves(o, to, w) /\ w = (IF to \in Terminal THEN NoWork ELSE work[o])
<1>1. work[o] \in Locals /\ NoWork \in Locals
  BY InitialTypes DEF TypeInv
<1>2. work' = [work EXCEPT ![o] = IF to \in Terminal THEN NoWork ELSE work[o]]
  BY <1>1 DEF Continue, TypeInv
<1>3. pc' = [pc EXCEPT ![o] = to]
  BY DEF Continue, Goto
<1>4. to \in Terminal => to \notin UnderWay
  BY DEF Terminal, UnderWay, Early, Kept, Derived, Applied, Indexed
<1>5. WorksWith(o, to, work[o])
  BY DEF WorksWith, CallInv, FindStep, Event, ContextOf
<1>6. WorksWith(o, to, IF to \in Terminal THEN NoWork ELSE work[o])
  BY <1>4, <1>5 DEF WorksWith
<1> QED
  BY <1>1, <1>2, <1>3, <1>6 DEF Moves

LEMMA GotoMoves ==
    ASSUME TypeInv, CallInv, NEW o \in ObserveCalls, NEW to \in ObservePoints,
           pc[o] \in UnderWay, Goto(o, to), work' = work,
           to \notin {"discover", "fail"},
           made' = made, EventsOf(store) \subseteq EventsOf(store')
    PROVE  \E w \in Locals : Moves(o, to, w) /\ w = work[o]
<1>1. work[o] \in Locals /\ work' = [work EXCEPT ![o] = work[o]]
  BY DEF TypeInv
<1>2. pc' = [pc EXCEPT ![o] = to]
  BY DEF Goto
<1>3. WorksWith(o, to, work[o])
  BY DEF WorksWith, CallInv, FindStep, Event, ContextOf
<1> QED
  BY <1>1, <1>2, <1>3 DEF Moves

LEMMA HandleMoves ==
    ASSUME TypeInv, CallInv, NEW o \in ObserveCalls, NEW attempted \in Stages,
           pc[o] \in UnderWay, Handle(o, attempted),
           made' = made, EventsOf(store) \subseteq EventsOf(store')
    PROVE  \E w \in Locals : Moves(o, "fail", w) /\ w = [work[o] EXCEPT !.attempted = attempted]
<1> DEFINE w == [work[o] EXCEPT !.attempted = attempted]
<1>1. w \in Locals /\ work' = [work EXCEPT ![o] = w]
  BY DEF TypeInv, Handle, Locals
<1>2. /\ w.event = work[o].event /\ w.decision = work[o].decision
      /\ w.found = work[o].found /\ w.attempted = attempted
  BY DEF TypeInv, Locals
<1>3. pc' = [pc EXCEPT ![o] = "fail"]
  BY DEF Handle, Goto
<1> HIDE DEF w
<1>4. WorksWith(o, "fail", w)
  BY <1>2 DEF WorksWith, CallInv, FindStep, Event, ContextOf
<1> QED
  BY <1>1, <1>3, <1>4 DEF Moves, w

\* An append to the journal, accepted or refused.
LEMMA JournalMoves ==
    ASSUME TypeInv, CallInv, NEW o \in ObserveCalls, NEW to \in ObservePoints \ {"discover", "fail"},
           NEW accepts, NEW x, accepts => x \in Record,
           pc[o] \in UnderWay, Journal(o, accepts, x, to)
    PROVE  /\ Typed
           /\ \E p \in {to, "raised"}, w \in Locals : Moves(o, p, w)
           /\ \/ accepts /\ journal' = [journal EXCEPT ![ContextOf(o)] = Append(@, x)] /\ pc'[o] = to
              \/ ~accepts /\ journal' = journal /\ pc'[o] = "raised"
           /\ UNCHANGED <<state, ledger, store, replay, made>>
<1>0. UNCHANGED <<state, ledger, store, replay, made>>
  BY DEF Journal
<1>1. ContextOf(o) \in Contexts /\ journal[ContextOf(o)] \in Seq(Record)
  BY DEF CallInv, TypeInv, ContextOf, Event, StoredEvent
<1>2. CASE accepts
  <2>1. journal' = [journal EXCEPT ![ContextOf(o)] = Append(@, x)] /\ Continue(o, to)
    BY <1>2 DEF Journal
  <2>2. journal' \in [Contexts -> Seq(Record)]
    <3>1. Append(journal[ContextOf(o)], x) \in Seq(Record)
      BY <1>1, <1>2, HistoryAppended
    <3> QED
      BY <2>1, <3>1 DEF TypeInv
  <2>3. \E w \in Locals : Moves(o, to, w)
    BY <1>0, <2>1, ContinueMoves
  <2>4. pc'[o] = to
    BY <2>3, Kinds DEF Moves, TypeInv
  <2> QED
    BY <1>0, <1>2, <2>1, <2>2, <2>3, <2>4 DEF Typed, TypeInv
<1>3. CASE ~accepts
  <2>1. Continue(o, "raised") /\ journal' = journal
    BY <1>3 DEF Journal
  <2>2. \E w \in Locals : Moves(o, "raised", w)
    BY <1>0, <2>1, ContinueMoves DEF ObservePoints
  <2>3. pc'[o] = "raised"
    BY <2>2, Kinds DEF Moves, TypeInv
  <2> QED
    BY <1>0, <1>3, <2>1, <2>2, <2>3 DEF Typed, TypeInv
<1> QED
  BY <1>2, <1>3

\* The same for a stage that is recorded.
LEMMA StageMoves ==
    ASSUME TypeInv, CallInv, NEW o \in ObserveCalls, NEW to \in ObservePoints \ {"discover", "fail"},
           NEW from \in UnderWay, NEW stage \in Stages, NEW at \in Ticks,
           RecordStage(o, from, stage, at, to)
    PROVE  Typed /\ \E p \in ObservePoints, w \in Locals : Moves(o, p, w)
<1>1. StageRecord(stage, o, at) \in Record
  BY DEF StageRecord, Record
<1>2. pc[o] \in UnderWay
        /\ Journal(o, StageAccepts(History(o), stage, at), StageRecord(stage, o, at), to)
  BY DEF RecordStage
<1>3. "raised" \in ObservePoints
  BY DEF ObservePoints
<1> HIDE DEF Journal, StageAccepts, StageRecord, Typed, Moves
<1>4. Typed /\ \E p \in {to, "raised"}, w \in Locals : Moves(o, p, w)
  BY <1>1, <1>2, JournalMoves
<1> QED
  BY <1>3, <1>4

\* What the calls pass to the journal are records.
LEMMA RecordTypes ==
    ASSUME NEW stage \in Stages, NEW o \in ObserveCalls, NEW at \in Ticks
    PROVE  StageRecord(stage, o, at) \in Record /\ FailureRecord(stage, o, at) \in Record
  BY DEF StageRecord, FailureRecord, Record

LEMMA LocalTypes ==
    ASSUME TypeInv, NEW o \in ObserveCalls
    PROVE  /\ work[o] \in Locals
           /\ work[o].decision \in Decision /\ work[o].decision.belief \in Belief
           /\ work[o].event \in EventShape /\ work[o].event.closed \in Ticks
           /\ work[o].transition \in Transition /\ work[o].transition.at \in Ticks
           /\ work[o].transition.posterior \in Belief
           /\ work[o].transition.posterior.formed \in Ticks
           /\ work[o].attempted \in Stages \cup {"none"}
  BY DEF TypeInv, Locals, Decision, EventShape, Transition, Belief

\* The points of an observation, for the case distinctions below.
LEMMA Points ==
    /\ UnderWay = {"history", "discover", "consume", "append", "lookAgain", "fail",
                   "journalExperience", "derive", "journalTransition", "assimilate",
                   "account", "journalState", "index", "journalReplay"}
    /\ UnderWay \cap (Terminal \cup Waiting) = {}
    /\ ObservePoints = UnderWay \cup {"start", "returned", "already", "failure", "unknown", "raised"}
  BY DEF UnderWay, Early, Kept, Derived, Applied, Indexed, Terminal, Waiting, ObservePoints

LEMMA StartStep ==
    ASSUME TypeInv, CallInv, NEW o \in ObserveCalls, Start(o)
    PROVE  Typed /\ \E w \in Locals : Moves(o, "history", w) /\ w.found = Find(w.event.context)
<1>1. PICK d \in {d \in DecideCalls : pc[d] = "decided"}, context \in Contexts,
           closed \in Ticks, terminal \in BOOLEAN :
        /\ closed >= made[d].at
        /\ work' = [work EXCEPT
                       ![o].decision = made[d],
                       ![o].event = [id |-> o, decision |-> d, context |-> context,
                                     closed |-> closed, terminal |-> terminal],
                       ![o].found = Find(context)]
        /\ Goto(o, "history")
  BY DEF Start
<1> DEFINE e == [id |-> o, decision |-> d, context |-> context,
                 closed |-> closed, terminal |-> terminal]
           w == [work[o] EXCEPT !.decision = made[d], !.event = e, !.found = Find(context)]
<1>2. e \in StoredEvent /\ e \in EventShape /\ e.id = o /\ e.decision = d /\ e.context = context
  BY DEF StoredEvent, EventShape
<1>3. Find(context) \in SUBSET StoredEvent /\ Find(context) \subseteq FindStep(store, context)
  BY EntryTypes DEF Find, FindStep, EventsOf, TypeInv
<1>4. made[d] \in Decision
  BY DEF TypeInv
<1> HIDE DEF e
<1>5. w \in Locals /\ w.event = e /\ w.decision = made[d] /\ w.found = Find(context)
  <2> DEFINE found == Find(context)
             decision == made[d]
  <2>1. work[o] \in Locals /\ found \in SUBSET StoredEvent /\ decision \in Decision /\ e \in EventShape
    BY <1>2, <1>3, <1>4, LocalTypes
  <2> HIDE DEF found, decision
  <2>2. [work[o] EXCEPT !.decision = decision, !.event = e, !.found = found] \in Locals
    BY <2>1 DEF Locals
  <2>3. LET v == [work[o] EXCEPT !.decision = decision, !.event = e, !.found = found] IN
        v.event = e /\ v.decision = decision /\ v.found = found
    BY <2>1 DEF Locals
  <2> QED
    BY <2>2, <2>3 DEF found, decision
<1>6. work' = [work EXCEPT ![o] = w]
  BY <1>1 DEF TypeInv, e
<1>7. UNCHANGED <<state, ledger, store, replay, journal, made>>
  BY DEF Start
<1> HIDE DEF w
<1>8. WorksWith(o, "history", w)
  BY <1>2, <1>3, <1>5, <1>7 DEF WorksWith, FindStep
<1> QED
  BY <1>1, <1>2, <1>5, <1>6, <1>7, <1>8 DEF Moves, Typed, TypeInv, Goto

\* Every step of an observe call, with the types it keeps.
LEMMA ObserveMoves ==
    ASSUME TypeInv, CallInv, NEW o \in ObserveCalls, Observe(o)
    PROVE  Typed /\ \E to \in ObservePoints, w \in Locals : Moves(o, to, w)
<1> USE Points, LocalTypes
<1> DEFINE Done == Typed /\ \E to \in ObservePoints, w \in Locals : Moves(o, to, w)
<1>a. ASSUME UNCHANGED <<state, ledger, store, replay, journal>> PROVE Typed
  BY <1>a DEF Typed, TypeInv
<1>1. CASE Start(o)
  BY <1>1, StartStep
<1>2. CASE ReadHistory(o)
  <2>1. PICK to \in {"already", "discover", "consume"} :
          Continue(o, to) /\ (to = "discover" => work[o].found # {})
    BY <1>2 DEF ReadHistory
  <2>2. pc[o] \in UnderWay /\ UNCHANGED <<state, ledger, store, replay, journal, made>>
    BY <1>2 DEF ReadHistory
  <2> QED
    BY <1>a, <2>1, <2>2, ContinueMoves
<1>3. CASE RecordDiscovered(o)
  <2>1. PICK e \in work[o].found :
          Journal(o, StageAccepts(History(o), "experience_stored", e.closed),
                  StageRecord("experience_stored", e.id, e.closed), "already")
    BY <1>3 DEF RecordDiscovered
  <2>2. e.id \in ObserveCalls /\ e.closed \in Ticks
    BY DEF Locals, StoredEvent
  <2>3. StageRecord("experience_stored", e.id, e.closed) \in Record
    BY <2>2, StageNames, RecordTypes
  <2>4. pc[o] \in UnderWay
    BY <1>3 DEF RecordDiscovered
  <2> QED
    BY <2>1, <2>3, <2>4, JournalMoves
<1>4. CASE ConsumeDecision(o)
  <2>1. /\ pc[o] \in UnderWay /\ UNCHANGED <<ledger, store, replay, journal, made>>
        /\ \/ state' = Consume(state, work[o].decision) /\ Continue(o, "append")
           \/ state' = state /\ Continue(o, "unknown")
    BY <1>4 DEF ConsumeDecision
  <2>2. state' \in AgentStates
    BY <2>1, DecisionStepsType DEF TypeInv
  <2> QED
    BY <2>1, <2>2, ContinueMoves DEF Typed, TypeInv
<1>5. CASE StoreExperience(o)
  <2>1. /\ pc[o] \in UnderWay /\ UNCHANGED <<state, ledger, replay, journal, made, work>>
        /\ \E to \in {"journalExperience", "lookAgain"} : Goto(o, to)
        /\ store' = store \/ store' = Append(store, Event(o))
    BY <1>5 DEF StoreExperience
  <2>2. EventsOf(store) \subseteq EventsOf(store') /\ store' \in Seq(StoredEvent)
    <3>1. Event(o) \in StoredEvent /\ store \in Seq(StoredEvent)
      BY <2>1 DEF TypeInv, CallInv
    <3>2. /\ EventsOf(Append(store, Event(o))) = EventsOf(store) \cup {Event(o)}
          /\ Append(store, Event(o)) \in Seq(StoredEvent)
      BY <3>1, EventsAppended
    <3> QED
      BY <2>1, <3>1, <3>2
  <2> QED
    BY <2>1, <2>2, GotoMoves DEF Typed, TypeInv
<1>6. CASE LookAgain(o)
  <2>1. pc[o] \in UnderWay /\ UNCHANGED <<state, ledger, store, replay, journal, made>>
    BY <1>6 DEF LookAgain
  <2>2. CASE Handle(o, "experience_stored")
    BY <1>a, <2>1, <2>2, HandleMoves, StageNames
  <2>3. CASE /\ work' = [work EXCEPT ![o].found = Find(ContextOf(o))]
             /\ Goto(o, "history")
    <3> DEFINE w == [work[o] EXCEPT !.found = Find(ContextOf(o))]
    <3>1. /\ Find(ContextOf(o)) \in SUBSET StoredEvent
          /\ Find(ContextOf(o)) \subseteq FindStep(store, ContextOf(o))
      BY EntryTypes DEF Find, FindStep, EventsOf, TypeInv
    <3>2. w \in Locals /\ work' = [work EXCEPT ![o] = w]
      BY <2>3, <3>1 DEF Locals, TypeInv
    <3>3. w.event = work[o].event /\ w.decision = work[o].decision /\ w.found = Find(ContextOf(o))
      BY DEF Locals
    <3> HIDE DEF w
    <3>4. WorksWith(o, "history", w)
      BY <2>1, <3>1, <3>3 DEF WorksWith, CallInv, FindStep, Event, ContextOf
    <3>5. Moves(o, "history", w)
      BY <2>1, <2>3, <3>2, <3>4 DEF Moves, Goto
    <3> QED
      BY <1>a, <2>1, <3>2, <3>5
  <2> QED
    BY <1>6, <2>2, <2>3 DEF LookAgain
<1>7. CASE RecordExperience(o)
  <2>1. RecordStage(o, "journalExperience", "experience_stored", Event(o).closed, "derive")
    BY <1>7 DEF RecordExperience
  <2>2. "derive" \in ObservePoints \ {"discover", "fail"} /\ Event(o).closed \in Ticks
    BY DEF Event
  <2> HIDE DEF Done
  <2>3. Typed /\ \E p \in ObservePoints, w \in Locals : Moves(o, p, w)
    BY <2>1, <2>2, StageNames, StageMoves
  <2> QED
    BY <2>3 DEF Done
<1>8. CASE StoreTransition(o)
  <2>1. pc[o] \in UnderWay /\ UNCHANGED <<state, store, replay, journal, made>>
    BY <1>8 DEF StoreTransition
  <2>2. CASE Handle(o, "transition_stored") /\ ledger' = ledger
    BY <1>a, <2>1, <2>2, HandleMoves, StageNames
  <2>3. CASE \E formed \in Event(o).closed..MaxTick : \E at \in formed..MaxTick :
               LET t == TransitionOf(o, formed, at) IN
               /\ ledger' = AppendTransition(ledger, t)
               /\ work' = [work EXCEPT ![o].transition = t]
               /\ Goto(o, "journalTransition")
    <3>1. PICK formed \in Event(o).closed..MaxTick : \E at \in formed..MaxTick :
               LET t == TransitionOf(o, formed, at) IN
               /\ ledger' = AppendTransition(ledger, t)
               /\ work' = [work EXCEPT ![o].transition = t]
               /\ Goto(o, "journalTransition")
      BY <2>3
    <3>2. PICK at \in formed..MaxTick :
               LET t == TransitionOf(o, formed, at) IN
               /\ ledger' = AppendTransition(ledger, t)
               /\ work' = [work EXCEPT ![o].transition = t]
               /\ Goto(o, "journalTransition")
      BY <3>1
    <3> DEFINE t == TransitionOf(o, formed, at)
               w == [work[o] EXCEPT !.transition = t]
    <3>3. t \in Transition
      <4>1. formed \in Ticks /\ at \in Ticks
        BY MaxTickAssumption DEF Ticks, Event
      <4>2. work[o].decision.belief.evidence \cup {o} \in SUBSET Ids
        BY Kinds DEF Belief
      <4> QED
        BY <4>1, <4>2, Kinds DEF TransitionOf, Transition, Belief
    <3> HIDE DEF t
    <3>4. /\ ledger' = AppendTransition(ledger, t) /\ Goto(o, "journalTransition")
          /\ w \in Locals /\ work' = [work EXCEPT ![o] = w]
      BY <3>2, <3>3 DEF Locals, TypeInv, t
    <3>5. w.event = work[o].event /\ w.decision = work[o].decision /\ w.found = work[o].found
      BY DEF Locals
    <3> HIDE DEF w
    <3>6. ledger' \in Ledgers
      BY <3>3, <3>4, TransitionAppended DEF TypeInv
    <3>7. WorksWith(o, "journalTransition", w)
      BY <2>1, <3>5 DEF WorksWith, CallInv, FindStep, Event, ContextOf
    <3>8. Moves(o, "journalTransition", w)
      BY <2>1, <3>4, <3>7 DEF Moves, Goto
    <3> QED
      BY <2>1, <3>4, <3>6, <3>8 DEF Typed, TypeInv
  <2> QED
    BY <1>8, <2>2, <2>3 DEF StoreTransition
<1>9. CASE RecordTransition(o)
  <2>1. RecordStage(o, "journalTransition", "transition_stored", work[o].transition.at, "assimilate")
    BY <1>9 DEF RecordTransition
  <2>2. "assimilate" \in ObservePoints \ {"discover", "fail"}
    OBVIOUS
  <2> HIDE DEF Done
  <2>3. Typed /\ \E p \in ObservePoints, w \in Locals : Moves(o, p, w)
    BY <2>1, <2>2, StageNames, StageMoves
  <2> QED
    BY <2>3 DEF Done
<1>10. CASE AssimilateBelief(o)
  <2>1. /\ pc[o] \in UnderWay /\ UNCHANGED <<ledger, store, replay, journal, made>>
        /\ \/ state' = Assimilate(state, work[o].transition) /\ Goto(o, "account") /\ work' = work
           \/ state' = state /\ Handle(o, "state_applied")
    BY <1>10 DEF AssimilateBelief
  <2>2. state' \in AgentStates
    BY <2>1, EvidenceStepsType DEF TypeInv
  <2> QED
    BY <2>1, <2>2, GotoMoves, HandleMoves, StageNames DEF Typed, TypeInv
<1>11. CASE CountStep(o)
  <2>1. /\ pc[o] \in UnderWay /\ UNCHANGED <<ledger, store, replay, journal, made>>
        /\ \/ /\ state' = AddResource(state, work[o].transition.at)
              /\ Goto(o, "journalState") /\ work' = work
           \/ state' = state /\ Handle(o, "state_applied")
    BY <1>11 DEF CountStep
  <2>2. state' \in AgentStates
    BY <2>1, EvidenceStepsType DEF TypeInv
  <2> QED
    BY <2>1, <2>2, GotoMoves, HandleMoves, StageNames DEF Typed, TypeInv
<1>12. CASE RecordState(o)
  <2>1. RecordStage(o, "journalState", "state_applied", work[o].transition.at, IF HasReplay THEN "index" ELSE "returned")
    BY <1>12 DEF RecordState
  <2>2. (IF HasReplay THEN "index" ELSE "returned") \in ObservePoints \ {"discover", "fail"}
    OBVIOUS
  <2> HIDE DEF Done
  <2>3. Typed /\ \E p \in ObservePoints, w \in Locals : Moves(o, p, w)
    BY <2>1, <2>2, StageNames, StageMoves
  <2> QED
    BY <2>3 DEF Done
<1>13. CASE IndexReplay(o)
  <2>1. /\ pc[o] \in UnderWay /\ UNCHANGED <<state, ledger, store, journal, made>>
        /\ \/ replay' = replay \cup {o} /\ Goto(o, "journalReplay") /\ work' = work
           \/ replay' = replay /\ Handle(o, "replay_indexed")
    BY <1>13 DEF IndexReplay
  <2> QED
    BY <2>1, GotoMoves, HandleMoves, StageNames DEF Typed, TypeInv
<1>14. CASE RecordReplay(o)
  <2>1. RecordStage(o, "journalReplay", "replay_indexed", work[o].transition.at, "returned")
    BY <1>14 DEF RecordReplay
  <2>2. "returned" \in ObservePoints \ {"discover", "fail"}
    OBVIOUS
  <2> HIDE DEF Done
  <2>3. Typed /\ \E p \in ObservePoints, w \in Locals : Moves(o, p, w)
    BY <2>1, <2>2, StageNames, StageMoves
  <2> QED
    BY <2>3 DEF Done
<1>15. CASE RecordFailure(o)
  <2> DEFINE at == IF work[o].attempted \in {"experience_stored", "transition_stored"}
                   THEN Event(o).closed ELSE work[o].transition.at
  <2>1. work[o].attempted \in Stages /\ at \in Ticks
    BY <1>15 DEF RecordFailure, CallInv, Event
  <2>2. FailureRecord(work[o].attempted, o, at) \in Record
    BY <2>1, RecordTypes
  <2>3. /\ pc[o] \in UnderWay
        /\ Journal(o, FailureAccepts(History(o), work[o].attempted, at),
                   FailureRecord(work[o].attempted, o, at), "failure")
    BY <1>15 DEF RecordFailure
  <2> QED
    BY <2>2, <2>3, JournalMoves
<1> QED
  BY <1>1, <1>2, <1>3, <1>4, <1>5, <1>6, <1>7, <1>8, <1>9, <1>10, <1>11, <1>12, <1>13, <1>14,
     <1>15 DEF Observe

\* A decide call takes its snapshot and registers its decision.
LEMMA DecideStep ==
    ASSUME TypeInv, CallInv, NEW d \in DecideCalls, DecideSnapshot(d) \/ RegisterDecision(d)
    PROVE  /\ TypeInv' /\ CallInv'
           /\ \E to \in DecidePoints : pc' = [pc EXCEPT ![d] = to]
           /\ UNCHANGED <<ledger, store, replay, journal, work>>
           /\ state'.belief = state.belief /\ state'.steps = state.steps
           /\ \A e \in DecideCalls : pc[e] = "decided" => pc'[e] = "decided"
           /\ \/ state' = state /\ pc'[d] # "decided"
              \/ /\ pc[d] = "register" /\ pc'[d] = "decided"
                 /\ state'.pending = state.pending \cup {d}
           /\ \A e \in DecideCalls : made'[e] = made[e] \/ made'[e].belief = state.belief
<1>1. UNCHANGED <<ledger, store, replay, journal, work>>
  BY DEF DecideSnapshot, RegisterDecision
<1>2. \E to \in DecidePoints : pc' = [pc EXCEPT ![d] = to]
  BY DEF DecideSnapshot, RegisterDecision, Goto, DecidePoints
<1>3. d \in Calls /\ pc[d] \in DecidePoints /\ pc[d] # "decided"
  BY Kinds DEF DecideSnapshot, RegisterDecision, TypeInv
<1>4. /\ pc' \in [Calls -> DecidePoints \cup LearnPoints \cup ObservePoints]
      /\ \A c \in Calls : c # d => pc'[c] = pc[c]
      /\ pc'[d] \in DecidePoints
  BY <1>2, <1>3 DEF TypeInv
<1>5. CASE DecideSnapshot(d)
  <2>1. PICK at \in Ticks :
          \/ /\ pc' = [pc EXCEPT ![d] = "register"]
             /\ made' = [made EXCEPT ![d] = [id |-> d, belief |-> state.belief,
                                             policy |-> state.policy, at |-> at]]
          \/ pc' = [pc EXCEPT ![d] = "refused"] /\ made' = made
    BY <1>5 DEF DecideSnapshot, Goto
  <2>2. state' = state /\ pc[d] = "snapshot"
    BY <1>5 DEF DecideSnapshot
  <2>3. [id |-> d, belief |-> state.belief, policy |-> state.policy, at |-> at] \in Decision
    BY DEF TypeInv, AgentStates, Decision
  <2>4. made' \in [DecideCalls -> Decision] /\ \A e \in DecideCalls : e # d => made'[e] = made[e]
    BY <2>1, <2>3 DEF TypeInv
  <2>5. pc'[d] \in {"register", "refused"} /\ (pc'[d] = "register" => made'[d].id = d)
    BY <1>3, <2>1 DEF TypeInv
  <2>6. made'[d] = made[d] \/ made'[d].belief = state.belief
    BY <2>1 DEF TypeInv
  <2>7. TypeInv'
    BY <1>1, <1>4, <2>2, <2>4, Kinds DEF TypeInv
  <2>8. CallInv'
    <3>1. ASSUME NEW e \in DecideCalls, pc'[e] \in {"register", "decided"} PROVE made'[e].id = e
      BY <1>3, <1>4, <2>4, <2>5, <3>1, Kinds DEF CallInv
    <3>2. ASSUME NEW o \in ObserveCalls, pc'[o] \in UnderWay
          PROVE  /\ Event(o) \in StoredEvent /\ Event(o).id = o
                 /\ pc'[Event(o).decision] = "decided"
                 /\ work[o].decision = made'[Event(o).decision]
                 /\ work[o].found \subseteq FindStep(store, ContextOf(o))
                 /\ pc[o] = "discover" => work[o].found # {}
                 /\ pc[o] = "fail" => work[o].attempted \in Stages
      <4>1. o # d /\ pc'[o] = pc[o]
        BY <1>4, Kinds
      <4>2. Event(o) \in StoredEvent /\ pc[Event(o).decision] = "decided"
        BY <3>2, <4>1 DEF CallInv
      <4>3. Event(o).decision \in DecideCalls /\ Event(o).decision # d
        BY <1>3, <4>2 DEF StoredEvent
      <4> QED
        BY <1>4, <2>4, <3>2, <4>1, <4>2, <4>3, Kinds DEF CallInv
    <3> QED
      BY <1>1, <1>4, <3>1, <3>2, Kinds DEF CallInv, Event, ContextOf
  <2> QED
    BY <1>1, <1>2, <1>3, <1>4, <2>2, <2>4, <2>5, <2>6, <2>7, <2>8, Kinds
<1>6. CASE RegisterDecision(d)
  <2>1. /\ made' = made /\ pc[d] = "register"
        /\ \/ state' = Register(state, made[d]) /\ pc' = [pc EXCEPT ![d] = "decided"]
           \/ state' = state /\ pc' = [pc EXCEPT ![d] = "refused"]
    BY <1>6 DEF RegisterDecision, Goto
  <2>2. made[d].id = d /\ made[d] \in Decision /\ state \in AgentStates
    BY <2>1 DEF CallInv, TypeInv
  <2>3. state' \in AgentStates
    BY <2>1, <2>2, DecisionStepsType
  <2>4. state'.belief = state.belief /\ state'.steps = state.steps
    BY <2>1, <2>2 DEF Register, AgentStates
  <2>5. \/ state' = state /\ pc'[d] # "decided"
        \/ pc'[d] = "decided" /\ state'.pending = state.pending \cup {d}
    BY <1>3, <2>1, <2>2 DEF Register, AgentStates, TypeInv
  <2>6. TypeInv'
    BY <1>1, <1>4, <2>1, <2>3, Kinds DEF TypeInv
  <2>7. CallInv'
    <3>1. ASSUME NEW e \in DecideCalls, pc'[e] \in {"register", "decided"} PROVE made'[e].id = e
      BY <1>4, <2>1, <2>2, <3>1, Kinds DEF CallInv
    <3>2. ASSUME NEW o \in ObserveCalls, pc'[o] \in UnderWay
          PROVE  /\ Event(o) \in StoredEvent /\ Event(o).id = o
                 /\ pc'[Event(o).decision] = "decided"
                 /\ work[o].decision = made'[Event(o).decision]
                 /\ work[o].found \subseteq FindStep(store, ContextOf(o))
                 /\ pc[o] = "discover" => work[o].found # {}
                 /\ pc[o] = "fail" => work[o].attempted \in Stages
      <4>1. o # d /\ pc'[o] = pc[o]
        BY <1>4, Kinds
      <4>2. Event(o) \in StoredEvent /\ pc[Event(o).decision] = "decided"
        BY <3>2, <4>1 DEF CallInv
      <4>3. Event(o).decision \in DecideCalls /\ Event(o).decision # d
        BY <1>3, <4>2 DEF StoredEvent
      <4> QED
        BY <1>4, <2>1, <3>2, <4>1, <4>2, <4>3, Kinds DEF CallInv
    <3> QED
      BY <1>1, <1>4, <3>1, <3>2, Kinds DEF CallInv, Event, ContextOf
  <2> QED
    BY <1>1, <1>2, <1>3, <1>4, <2>1, <2>4, <2>5, <2>6, <2>7, Kinds
<1> QED
  BY <1>5, <1>6

\* A learning commit: a receipt that both participants accept, or nothing.
LEMMA LearnStep ==
    ASSUME TypeInv, CallInv, NEW l \in LearnCalls, Learn(l)
    PROVE  /\ TypeInv' /\ CallInv'
           /\ \E to \in LearnPoints : pc' = [pc EXCEPT ![l] = to]
           /\ UNCHANGED <<store, replay, journal, made, work>>
           /\ \/ state' = state /\ ledger' = ledger
              \/ \E r \in UpdateReceipt :
                   /\ UpdateAccepts(state, r) /\ ReceiptAccepts(ledger, r)
                   /\ state' = ApplyUpdate(state, r) /\ ledger' = AppendReceipt(ledger, r)
                   /\ r.resulting # NoBelief =>
                        /\ r.resulting.id = r.id
                        /\ \E t \in EntriesOf(ledger.transitions) :
                             r.resulting.evidence \subseteq
                               t.posterior.evidence \cup state.belief.evidence
<1>1. UNCHANGED <<store, replay, journal, made, work>>
  BY DEF Learn
<1>2. \E to \in LearnPoints : pc' = [pc EXCEPT ![l] = to]
  BY DEF Learn, Goto, LearnPoints
<1>3. \/ state' = state /\ ledger' = ledger
      \/ \E r \in UpdateReceipt :
           /\ UpdateAccepts(state, r) /\ ReceiptAccepts(ledger, r)
           /\ state' = ApplyUpdate(state, r) /\ ledger' = AppendReceipt(ledger, r)
           /\ r.resulting # NoBelief =>
                /\ r.resulting.id = r.id
                /\ \E t \in EntriesOf(ledger.transitions) :
                     r.resulting.evidence \subseteq t.posterior.evidence \cup state.belief.evidence
  <2>1. PICK t \in EntriesOf(ledger.transitions), at \in Ticks, newModel \in BOOLEAN :
          \E evidence \in {t.posterior.evidence, t.posterior.evidence \cup state.belief.evidence} :
            LET r == Receipt(l, t, at, newModel, evidence) IN
            IF /\ SnapshotAccepts(state, at) /\ at >= t.at
               /\ UpdateAccepts(state, r) /\ ReceiptAccepts(ledger, r)
            THEN /\ state' = ApplyUpdate(state, r)
                 /\ ledger' = AppendReceipt(ledger, r)
                 /\ Goto(l, "learned")
            ELSE Goto(l, "refused") /\ UNCHANGED <<state, ledger>>
    BY Zenon DEF Learn
  <2>2. PICK evidence \in {t.posterior.evidence, t.posterior.evidence \cup state.belief.evidence} :
            LET r == Receipt(l, t, at, newModel, evidence) IN
            \/ /\ UpdateAccepts(state, r) /\ ReceiptAccepts(ledger, r)
               /\ state' = ApplyUpdate(state, r) /\ ledger' = AppendReceipt(ledger, r)
            \/ state' = state /\ ledger' = ledger
    BY <2>1
  <2> DEFINE r == Receipt(l, t, at, newModel, evidence)
  <2>3. t \in Transition
    BY EntryTypes DEF TypeInv, Ledgers, EntriesOf
  <2>4. evidence \in SUBSET Ids /\ evidence \subseteq t.posterior.evidence \cup state.belief.evidence
    BY <2>3 DEF TypeInv, AgentStates, Transition, Belief
  <2>5. l \in Ids /\ state.model \in Ids /\ state.policy \in Ids
    BY Kinds DEF TypeInv, AgentStates
  <2>6. CASE newModel
    <3> DEFINE b == [id |-> l, model |-> l, evidence |-> evidence, formed |-> at]
    <3>1. b \in Belief
      BY <2>4, <2>5 DEF Belief
    <3>2. /\ r = [call |-> l, id |-> l, status |-> "applied", prevModel |-> state.model,
                  newModel |-> l, prevPolicy |-> state.policy, newPolicy |-> state.policy,
                  source |-> t, completed |-> at, rollbackOf |-> NoCall, resulting |-> b]
      BY <2>6 DEF Receipt
    <3>3. b.id = l /\ b.evidence = evidence
      OBVIOUS
    <3> HIDE DEF b, r
    <3>4. r \in UpdateReceipt
      BY <2>3, <2>5, <3>1, <3>2 DEF UpdateReceipt
    <3>5. r.id = l /\ r.resulting = b
      BY <3>2
    <3> QED
      BY <2>2, <2>4, <3>3, <3>4, <3>5 DEF r
  <2>7. CASE ~newModel
    <3>1. /\ r = [call |-> l, id |-> l, status |-> "applied", prevModel |-> state.model,
                  newModel |-> state.model, prevPolicy |-> state.policy, newPolicy |-> l,
                  source |-> t, completed |-> at, rollbackOf |-> NoCall, resulting |-> NoBelief]
      BY <2>7 DEF Receipt
    <3> HIDE DEF r
    <3>2. r \in UpdateReceipt
      BY <2>3, <2>5, <3>1 DEF UpdateReceipt
    <3>3. r.resulting = NoBelief
      BY <3>1
    <3> QED
      BY <2>2, <3>2, <3>3 DEF r
  <2> QED
    BY <2>6, <2>7
<1>4. state' \in AgentStates /\ ledger' \in Ledgers
  BY <1>3, UpdateType, ReceiptAppended DEF TypeInv
<1>5. /\ pc' \in [Calls -> DecidePoints \cup LearnPoints \cup ObservePoints]
      /\ \A c \in Calls : c # l => pc'[c] = pc[c]
      /\ pc'[l] \in LearnPoints
  BY <1>2, Kinds DEF TypeInv
<1>6. TypeInv'
  BY <1>1, <1>4, <1>5, Kinds DEF TypeInv
<1>7. CallInv'
  <2>1. \A o \in ObserveCalls : pc'[o] = pc[o]
    BY <1>5, Kinds
  <2>2. \A d \in DecideCalls : pc'[d] = pc[d]
    BY <1>5, Kinds
  <2> QED
    BY <1>1, <2>1, <2>2 DEF CallInv, Event, ContextOf, StoredEvent
<1> QED
  BY <1>1, <1>2, <1>3, <1>6, <1>7

\* A step of an observe call keeps the types, and what the other calls work with.
LEMMA ObserveStep ==
    ASSUME TypeInv, CallInv, NEW o \in ObserveCalls, Observe(o)
    PROVE  /\ TypeInv' /\ CallInv'
           /\ \A c \in Calls : c # o => pc'[c] = pc[c]
           /\ \A p \in ObserveCalls : p # o => work'[p] = work[p]
           /\ made' = made
           /\ EventsOf(store) \subseteq EventsOf(store')
<1>1. PICK to \in ObservePoints, w \in Locals : Moves(o, to, w)
  BY ObserveMoves
<1>2. /\ pc' \in [Calls -> DecidePoints \cup LearnPoints \cup ObservePoints]
      /\ \A c \in Calls : c # o => pc'[c] = pc[c]
      /\ pc'[o] = to
  BY <1>1, Kinds DEF TypeInv, Moves
<1>3. /\ work' \in [ObserveCalls -> Locals]
      /\ \A p \in ObserveCalls : p # o => work'[p] = work[p]
      /\ work'[o] = w
  BY <1>1 DEF TypeInv, Moves
<1>4. made' = made /\ EventsOf(store) \subseteq EventsOf(store') /\ WorksWith(o, to, w)
  BY <1>1 DEF Moves
<1>5. TypeInv'
  BY ObserveMoves, <1>2, <1>3, <1>4, Kinds DEF TypeInv, Typed
<1>6. CallInv'
  <2>1. ASSUME NEW d \in DecideCalls, pc'[d] \in {"register", "decided"} PROVE made'[d].id = d
    BY <1>2, <1>4, <2>1, Kinds DEF CallInv
  <2>2. ASSUME NEW p \in ObserveCalls, pc'[p] \in UnderWay
        PROVE  /\ work'[p].event \in StoredEvent /\ work'[p].event.id = p
               /\ pc'[work'[p].event.decision] = "decided"
               /\ work'[p].decision = made'[work'[p].event.decision]
               /\ work'[p].found \subseteq FindStep(store', work'[p].event.context)
               /\ pc'[p] = "discover" => work'[p].found # {}
               /\ pc'[p] = "fail" => work'[p].attempted \in Stages
    <3>1. CASE p = o
      BY <1>2, <1>3, <1>4, <2>2, <3>1, Kinds DEF WorksWith, StoredEvent
    <3>2. CASE p # o
      <4>1. /\ pc[p] \in UnderWay /\ pc'[p] = pc[p] /\ work'[p] = work[p]
        BY <1>2, <1>3, <2>2, <3>2, Kinds
      <4>2. /\ work[p].event \in StoredEvent /\ work[p].event.id = p
            /\ pc[work[p].event.decision] = "decided"
            /\ work[p].decision = made[work[p].event.decision]
            /\ work[p].found \subseteq FindStep(store, work[p].event.context)
            /\ pc[p] = "discover" => work[p].found # {}
            /\ pc[p] = "fail" => work[p].attempted \in Stages
        BY <4>1 DEF CallInv, Event, ContextOf
      <4>3. pc'[work[p].event.decision] = "decided"
        BY <1>2, <4>2, Kinds DEF StoredEvent
      <4>4. work[p].found \subseteq FindStep(store', work[p].event.context)
        BY <1>4, <4>2 DEF FindStep
      <4> QED
        BY <1>4, <4>1, <4>2, <4>3, <4>4
    <3> QED
      BY <3>1, <3>2
  <2> QED
    BY <2>1, <2>2 DEF CallInv, Event, ContextOf
<1> QED
  BY <1>2, <1>3, <1>4, <1>5, <1>6

-----------------------------------------------------------------------------
(* What a step of an observe call may write, and from which point.         *)

\* One record appended to the history of the call's step: a failure, or the stage that
\* follows there and that the call has reached.
Records(o, x) ==
    /\ journal' = [journal EXCEPT ![ContextOf(o)] = Append(@, x)]
    /\ \/ /\ x.stage = "failed" /\ pc[o] = "fail"
          /\ NextStage(History(o)) = work[o].attempted
       \/ /\ NextStage(History(o)) = x.stage
          /\ \/ x.stage = "experience_stored" /\ pc[o] \in {"discover", "journalExperience"}
             \/ x.stage = "transition_stored" /\ pc[o] = "journalTransition"
             \/ x.stage = "state_applied" /\ pc[o] = "journalState"
             \/ x.stage = "replay_indexed" /\ pc[o] = "journalReplay"

Derives(o, t) ==
    /\ t.id = o
    /\ t.prior = work[o].decision.belief.id
    /\ t.posterior.id = o
    /\ t.posterior.evidence = work[o].decision.belief.evidence \cup {o}
    /\ Event(o).closed <= t.at /\ t.posterior.formed <= t.at
    /\ Event(o) \in EventsOf(store)
    /\ TransitionAccepts(ledger, t)
    /\ ledger' = AppendTransition(ledger, t)
    /\ work'[o] = [work[o] EXCEPT !.transition = t]
    /\ pc'[o] = "journalTransition"

Writes(o) ==
    /\ \/ state'.belief = state.belief
       \/ /\ pc[o] = "assimilate" /\ AssimilateAccepts(state, work[o].transition)
          /\ state' = Assimilate(state, work[o].transition) /\ pc'[o] = "account"
    /\ state'.pending \subseteq state.pending
    /\ \/ ledger' = ledger
       \/ pc[o] = "derive" /\ \E t \in Transition : Derives(o, t)
    /\ \/ store' = store
       \/ /\ pc[o] = "append" /\ StoreAccepts(store, Event(o))
          /\ store' = Append(store, Event(o))
    /\ \/ replay' = replay
       \/ pc[o] = "index" /\ replay' = replay \cup {o}
    /\ journal' = journal \/ \E x \in Record : Records(o, x)

\* A journal step writes its record or nothing.
LEMMA JournalWrites ==
    ASSUME TypeInv, CallInv, NEW o \in ObserveCalls, NEW to \in ObservePoints \ {"discover", "fail"},
           NEW accepts, NEW x, accepts => x \in Record,
           pc[o] \in UnderWay, Journal(o, accepts, x, to),
           accepts => \/ /\ x.stage = "failed" /\ pc[o] = "fail"
                         /\ NextStage(History(o)) = work[o].attempted
                      \/ /\ NextStage(History(o)) = x.stage
                         /\ \/ x.stage = "experience_stored" /\ pc[o] \in {"discover", "journalExperience"}
                            \/ x.stage = "transition_stored" /\ pc[o] = "journalTransition"
                            \/ x.stage = "state_applied" /\ pc[o] = "journalState"
                            \/ x.stage = "replay_indexed" /\ pc[o] = "journalReplay"
    PROVE  Writes(o)
<1>1. UNCHANGED <<state, ledger, store, replay>>
  BY JournalMoves
<1>2. journal' = journal \/ \E y \in Record : Records(o, y)
  BY JournalMoves DEF Records
<1> QED
  BY <1>1, <1>2 DEF Writes

LEMMA ObserveWrites ==
    ASSUME TypeInv, CallInv, NEW o \in ObserveCalls, Observe(o)
    PROVE  Writes(o)
<1> USE Points, LocalTypes
<1>0. state \in AgentStates /\ pc' = [pc EXCEPT ![o] = pc'[o]] /\ o \in Calls
  BY ObserveMoves, Kinds DEF Moves, TypeInv
<1>1. CASE Start(o)
  BY <1>1 DEF Start, Writes
<1>2. CASE ReadHistory(o)
  BY <1>2 DEF ReadHistory, Writes
<1>3. CASE RecordDiscovered(o)
  <2>1. PICK e \in work[o].found :
          Journal(o, StageAccepts(History(o), "experience_stored", e.closed),
                  StageRecord("experience_stored", e.id, e.closed), "already")
    BY <1>3 DEF RecordDiscovered
  <2>2. e.id \in ObserveCalls /\ e.closed \in Ticks
    BY DEF Locals, StoredEvent
  <2>3. StageRecord("experience_stored", e.id, e.closed) \in Record
    BY <2>2, StageNames, RecordTypes
  <2>4. pc[o] = "discover"
    BY <1>3 DEF RecordDiscovered
  <2>5. StageAccepts(History(o), "experience_stored", e.closed) =>
          NextStage(History(o)) = StageRecord("experience_stored", e.id, e.closed).stage
        /\ StageRecord("experience_stored", e.id, e.closed).stage = "experience_stored"
    BY DEF StageAccepts, StageRecord
  <2>6. "already" \in ObservePoints \ {"discover", "fail"} /\ pc[o] \in UnderWay
    BY <2>4
  <2> QED
    BY <2>1, <2>3, <2>4, <2>5, <2>6, JournalWrites
<1>4. CASE ConsumeDecision(o)
  <2>1. /\ UNCHANGED <<ledger, store, replay, journal>>
        /\ \/ state' = Consume(state, work[o].decision)
           \/ state' = state
    BY <1>4 DEF ConsumeDecision
  <2>2. state'.belief = state.belief /\ state'.pending \subseteq state.pending
    <3>1. /\ Consume(state, work[o].decision).belief = state.belief
          /\ Consume(state, work[o].decision).pending = state.pending \ {work[o].decision.id}
      BY <1>0 DEF Consume, AgentStates
    <3> QED
      BY <2>1, <3>1
  <2> QED
    BY <2>1, <2>2 DEF Writes
<1>5. CASE StoreExperience(o)
  BY <1>5 DEF StoreExperience, Writes
<1>6. CASE LookAgain(o)
  BY <1>6 DEF LookAgain, Writes
<1>8. CASE StoreTransition(o)
  <2>1. UNCHANGED <<state, store, replay, journal>> /\ pc[o] = "derive"
    BY <1>8 DEF StoreTransition
  <2>2. CASE ledger' = ledger
    BY <2>1, <2>2 DEF Writes
  <2>3. CASE \E formed \in Event(o).closed..MaxTick : \E at \in formed..MaxTick :
               LET t == TransitionOf(o, formed, at) IN
               /\ Event(o) \in EventsOf(store)
               /\ TransitionAccepts(ledger, t)
               /\ ledger' = AppendTransition(ledger, t)
               /\ work' = [work EXCEPT ![o].transition = t]
               /\ Goto(o, "journalTransition")
    <3>1. PICK formed \in Event(o).closed..MaxTick : \E at \in formed..MaxTick :
               LET t == TransitionOf(o, formed, at) IN
               /\ Event(o) \in EventsOf(store)
               /\ TransitionAccepts(ledger, t)
               /\ ledger' = AppendTransition(ledger, t)
               /\ work' = [work EXCEPT ![o].transition = t]
               /\ Goto(o, "journalTransition")
      BY <2>3
    <3>2. PICK at \in formed..MaxTick :
               LET t == TransitionOf(o, formed, at) IN
               /\ Event(o) \in EventsOf(store)
               /\ TransitionAccepts(ledger, t)
               /\ ledger' = AppendTransition(ledger, t)
               /\ work' = [work EXCEPT ![o].transition = t]
               /\ Goto(o, "journalTransition")
      BY <3>1
    <3> DEFINE t == TransitionOf(o, formed, at)
    <3>3. formed \in Ticks /\ at \in Ticks /\ Event(o).closed <= at /\ formed <= at
      BY MaxTickAssumption DEF Ticks, Event
    <3>4. work[o].decision.belief.evidence \cup {o} \in SUBSET Ids
      BY Kinds DEF Belief
    <3>5. /\ t = [id |-> o, prior |-> work[o].decision.belief.id, at |-> at,
                  posterior |-> [id |-> o, model |-> work[o].decision.belief.model,
                                 evidence |-> work[o].decision.belief.evidence \cup {o},
                                 formed |-> formed]]
      BY DEF TransitionOf
    <3>6. /\ Event(o) \in EventsOf(store) /\ TransitionAccepts(ledger, t)
          /\ ledger' = AppendTransition(ledger, t)
          /\ work' = [work EXCEPT ![o].transition = t] /\ Goto(o, "journalTransition")
      BY <3>2
    <3> HIDE DEF t
    <3>7. t \in Transition
      BY <3>3, <3>4, <3>5, Kinds DEF Transition, Belief
    <3>8. /\ t.id = o /\ t.prior = work[o].decision.belief.id /\ t.posterior.id = o /\ t.at = at
          /\ t.posterior.evidence = work[o].decision.belief.evidence \cup {o}
          /\ t.posterior.formed = formed
      BY <3>5
    <3>9. work'[o] = [work[o] EXCEPT !.transition = t] /\ pc'[o] = "journalTransition"
      BY <1>0, <3>6 DEF Goto, TypeInv
    <3> QED
      BY <2>1, <3>3, <3>6, <3>7, <3>8, <3>9 DEF Writes, Derives
  <2> QED
    BY <1>8, <2>2, <2>3 DEF StoreTransition
<1>9. ASSUME NEW from \in {"journalExperience", "journalTransition", "journalState", "journalReplay"},
             NEW stage \in Stages, NEW at \in Ticks, NEW to \in ObservePoints \ {"discover", "fail"},
             RecordStage(o, from, stage, at, to),
             \/ from = "journalExperience" /\ stage = "experience_stored"
             \/ from = "journalTransition" /\ stage = "transition_stored"
             \/ from = "journalState" /\ stage = "state_applied"
             \/ from = "journalReplay" /\ stage = "replay_indexed"
      PROVE  Writes(o)
  <2>1. StageRecord(stage, o, at) \in Record /\ StageRecord(stage, o, at).stage = stage
    BY RecordTypes DEF StageRecord
  <2>2. /\ pc[o] \in UnderWay /\ pc[o] = from
        /\ Journal(o, StageAccepts(History(o), stage, at), StageRecord(stage, o, at), to)
    BY <1>9 DEF RecordStage
  <2>3. StageAccepts(History(o), stage, at) => NextStage(History(o)) = stage
    BY DEF StageAccepts
  <2> QED
    BY <1>9, <2>1, <2>2, <2>3, JournalWrites
<1>10. CASE AssimilateBelief(o)
  <2>1. UNCHANGED <<ledger, store, replay, journal>> /\ pc[o] = "assimilate"
    BY <1>10 DEF AssimilateBelief
  <2>2. \/ state' = state
        \/ /\ state' = Assimilate(state, work[o].transition) /\ Goto(o, "account")
           /\ AssimilateAccepts(state, work[o].transition)
    BY <1>10 DEF AssimilateBelief
  <2>3. Goto(o, "account") => pc'[o] = "account"
    BY <1>0 DEF Goto, TypeInv
  <2>4. Assimilate(state, work[o].transition).pending = state.pending
    BY <1>0 DEF Assimilate, AgentStates
  <2> QED
    BY <2>1, <2>2, <2>3, <2>4 DEF Writes
<1>11. CASE CountStep(o)
  <2>1. /\ UNCHANGED <<ledger, store, replay, journal>>
        /\ \/ state' = AddResource(state, work[o].transition.at)
           \/ state' = state
    BY <1>11 DEF CountStep
  <2>2. state'.belief = state.belief /\ state'.pending = state.pending
    BY <1>0, <2>1 DEF AddResource, AgentStates
  <2> QED
    BY <2>1, <2>2 DEF Writes
<1>12. CASE RecordExperience(o) \/ RecordTransition(o) \/ RecordState(o) \/ RecordReplay(o)
  <2>1. /\ {"derive", "assimilate", "index", "returned"} \subseteq ObservePoints \ {"discover", "fail"}
        /\ (IF HasReplay THEN "index" ELSE "returned") \in ObservePoints \ {"discover", "fail"}
        /\ Event(o).closed \in Ticks
    BY DEF Event
  <2> QED
    BY <1>9, <1>12, <2>1, StageNames
       DEF RecordExperience, RecordTransition, RecordState, RecordReplay
<1>13. CASE IndexReplay(o)
  BY <1>13 DEF IndexReplay, Writes
<1>15. CASE RecordFailure(o)
  <2> DEFINE at == IF work[o].attempted \in {"experience_stored", "transition_stored"}
                   THEN Event(o).closed ELSE work[o].transition.at
             x == FailureRecord(work[o].attempted, o, at)
  <2>1. work[o].attempted \in Stages /\ at \in Ticks /\ pc[o] = "fail"
    BY <1>15 DEF RecordFailure, CallInv, Event
  <2>2. x \in Record /\ x.stage = "failed"
    BY <2>1, RecordTypes DEF FailureRecord
  <2>3. Journal(o, FailureAccepts(History(o), work[o].attempted, at), x, "failure")
    BY <1>15 DEF RecordFailure
  <2>4. FailureAccepts(History(o), work[o].attempted, at) => NextStage(History(o)) = work[o].attempted
    BY DEF FailureAccepts
  <2>5. "failure" \in ObservePoints \ {"discover", "fail"} /\ pc[o] \in UnderWay
    BY <2>1
  <2> HIDE DEF x
  <2> QED
    BY <2>1, <2>2, <2>3, <2>4, <2>5, JournalWrites
<1> QED
  BY <1>1, <1>2, <1>3, <1>4, <1>5, <1>6, <1>8, <1>10, <1>11, <1>12, <1>13, <1>15 DEF Observe

-----------------------------------------------------------------------------
(* The ledger's records and the beliefs they carry.                        *)

\* An identity names one belief of record.
LEMMA SameBelief ==
    ASSUME TypeInv, RecordInv, NEW b, NEW c, OfRecord(b), OfRecord(c), b.id = c.id
    PROVE  b = c
<1>1. \A r \in EntriesOf(ledger.updates) : r.id \in LearnCalls
  <2>1. EntriesOf(ledger.updates) \subseteq UpdateReceipt
    BY EntryTypes DEF TypeInv, Ledgers, EntriesOf
  <2> QED
    BY <2>1 DEF UpdateReceipt
<1>2. \A t \in EntriesOf(ledger.transitions) : t.posterior.id \notin LearnCalls
  BY Kinds DEF RecordInv
<1>3. CASE \E t \in EntriesOf(ledger.transitions) : b = t.posterior
  <2>1. \E t \in EntriesOf(ledger.transitions) : c = t.posterior
    BY <1>1, <1>2, <1>3 DEF OfRecord, RecordInv
  <2> QED
    BY <1>3, <2>1 DEF RecordInv
<1>4. CASE \E r \in EntriesOf(ledger.updates) : r.resulting # NoBelief /\ b = r.resulting
  <2>1. \E r \in EntriesOf(ledger.updates) : r.resulting # NoBelief /\ c = r.resulting
    BY <1>1, <1>2, <1>4 DEF OfRecord, RecordInv
  <2> QED
    BY <1>4, <2>1 DEF RecordInv
<1> QED
  BY <1>3, <1>4 DEF OfRecord

LEMMA RecordedIsBacked ==
    ASSUME RecordInv, NEW b, OfRecord(b)
    PROVE  Backed(b.evidence)
  BY DEF RecordInv, OfRecord

\* The decision a call works with was taken on a belief of record.
LEMMA DecidedOnRecord ==
    ASSUME TypeInv, CallInv, RecordInv, NEW o \in ObserveCalls, pc[o] \in UnderWay
    PROVE  OfRecord(work[o].decision.belief)
<1>1. Event(o).decision \in DecideCalls /\ work[o].decision = made[Event(o).decision]
  BY DEF CallInv, StoredEvent
<1> QED
  BY <1>1 DEF RecordInv

\* No step of an observe call loses what is stored.
LEMMA ObserveKeeps ==
    ASSUME TypeInv, CallInv, NEW o \in ObserveCalls, Writes(o)
    PROVE  /\ EntriesOf(ledger.transitions) \subseteq EntriesOf(ledger'.transitions)
           /\ IdsOf(ledger.transitions) \subseteq IdsOf(ledger'.transitions)
           /\ ledger'.updates = ledger.updates
           /\ EventsOf(store) \subseteq EventsOf(store')
           /\ replay \subseteq replay'
           /\ \A c \in Contexts : StagesOf(journal[c]) \subseteq StagesOf(journal'[c])
<1>1. ledger \in Ledgers /\ store \in Seq(StoredEvent) /\ journal \in [Contexts -> Seq(Record)]
  BY DEF TypeInv
<1>2. /\ EntriesOf(ledger.transitions) \subseteq EntriesOf(ledger'.transitions)
      /\ IdsOf(ledger.transitions) \subseteq IdsOf(ledger'.transitions)
      /\ ledger'.updates = ledger.updates
  <2>1. CASE ledger' = ledger
    BY <2>1
  <2>2. CASE \E t \in Transition : Derives(o, t)
    <3>1. PICK t \in Transition : ledger' = AppendTransition(ledger, t)
      BY <2>2 DEF Derives
    <3>2. /\ EntriesOf(AppendTransition(ledger, t).transitions) = EntriesOf(ledger.transitions) \cup {t}
          /\ IdsOf(AppendTransition(ledger, t).transitions) = IdsOf(ledger.transitions) \cup {t.id}
          /\ AppendTransition(ledger, t).updates = ledger.updates
      BY <1>1, TransitionAppended
    <3> QED
      BY <3>1, <3>2
  <2> QED
    BY <2>1, <2>2 DEF Writes
<1>3. EventsOf(store) \subseteq EventsOf(store')
  <2>1. CASE store' = store
    BY <2>1
  <2>2. CASE pc[o] = "append" /\ store' = Append(store, Event(o))
    <3>1. Event(o) \in StoredEvent
      BY <2>2, Points DEF CallInv
    <3>2. EventsOf(Append(store, Event(o))) = EventsOf(store) \cup {Event(o)}
      BY <1>1, <3>1, EventsAppended
    <3> QED
      BY <2>2, <3>2
  <2> QED
    BY <2>1, <2>2 DEF Writes
<1>4. replay \subseteq replay'
  BY DEF Writes
<1>5. \A c \in Contexts : StagesOf(journal[c]) \subseteq StagesOf(journal'[c])
  <2>1. CASE journal' = journal
    BY <2>1
  <2>2. CASE \E x \in Record : Records(o, x)
    <3>1. PICK x \in Record : journal' = [journal EXCEPT ![ContextOf(o)] = Append(@, x)]
      BY <2>2 DEF Records
    <3> SUFFICES ASSUME NEW c \in Contexts PROVE StagesOf(journal[c]) \subseteq StagesOf(journal'[c])
      OBVIOUS
    <3>2. journal'[c] = journal[c] \/ journal'[c] = Append(journal[c], x)
      BY <1>1, <3>1
    <3>3. StagesOf(Append(journal[c], x)) = StagesOf(journal[c]) \cup {x.stage}
      BY <1>1, HistoryAppended
    <3> QED
      BY <3>2, <3>3
  <2> QED
    BY <2>1, <2>2 DEF Writes
<1> QED
  BY <1>2, <1>3, <1>4, <1>5

\* A learning commit appends to the receipts.
LEMMA LearnKeeps ==
    ASSUME TypeInv, NEW r \in UpdateReceipt, ledger' = AppendReceipt(ledger, r)
    PROVE  /\ ledger'.transitions = ledger.transitions
           /\ EntriesOf(ledger'.updates) = EntriesOf(ledger.updates) \cup {r}
  BY ReceiptAppended DEF TypeInv

\* A record that is not there yet: the identities of the ledger are those of its records.
LEMMA NewRecords ==
    /\ \A t : TransitionAccepts(ledger, t) => \A u \in EntriesOf(ledger.transitions) : u.id # t.id
    /\ \A r : ReceiptAccepts(ledger, r) => \A q \in EntriesOf(ledger.updates) : q.id # r.id
  BY IdsOfEntries DEF TransitionAccepts, ReceiptAccepts

\* With the same ledger and a known belief nothing changes.
LEMMA RecordFrame ==
    ASSUME RecordInv, ledger' = ledger, EventsOf(store) \subseteq EventsOf(store'),
           OfRecord(state'.belief),
           \A d \in DecideCalls : made'[d] = made[d] \/ made'[d].belief = state.belief
    PROVE  RecordInv'
<1>1. \A E : Backed(E) => Backed(E)'
  BY DEF Backed
<1>2. \A b : OfRecord(b) => OfRecord(b)'
  BY DEF OfRecord
<1>3. \A d \in DecideCalls : OfRecord(made'[d].belief)
  BY DEF RecordInv
<1>4. /\ \A t \in EntriesOf(ledger.transitions) : Backed(t.posterior.evidence)'
      /\ \A r \in EntriesOf(ledger.updates) : r.resulting # NoBelief => Backed(r.resulting.evidence)'
  BY <1>1 DEF RecordInv
<1> QED
  BY <1>2, <1>3, <1>4 DEF RecordInv, OfRecord, Backed

\* A stored transition carries a posterior of its own, backed by its own event.
LEMMA DeriveKeepsRecords ==
    ASSUME TypeInv, CallInv, RecordInv, NEW o \in ObserveCalls, pc[o] = "derive",
           NEW t \in Transition, Derives(o, t),
           EventsOf(store) \subseteq EventsOf(store'),
           state'.belief = state.belief, made' = made
    PROVE  RecordInv'
<1>1. /\ EntriesOf(ledger'.transitions) = EntriesOf(ledger.transitions) \cup {t}
      /\ IdsOf(ledger'.transitions) = IdsOf(ledger.transitions) \cup {t.id}
      /\ ledger'.updates = ledger.updates
  <2>1. /\ EntriesOf(AppendTransition(ledger, t).transitions) = EntriesOf(ledger.transitions) \cup {t}
        /\ IdsOf(AppendTransition(ledger, t).transitions) = IdsOf(ledger.transitions) \cup {t.id}
        /\ AppendTransition(ledger, t).updates = ledger.updates
    BY TransitionAppended DEF TypeInv
  <2> QED
    BY <2>1 DEF Derives
<1>2. /\ t.id = o /\ t.posterior.id = o
      /\ t.posterior.evidence = work[o].decision.belief.evidence \cup {o}
      /\ \A u \in EntriesOf(ledger.transitions) : u.id # t.id
  BY NewRecords DEF Derives
<1>3. Event(o) \in EventsOf(store) /\ Event(o).id = o
  BY Points DEF Derives, CallInv
<1>4. Backed(work[o].decision.belief.evidence)
  BY Points, DecidedOnRecord, RecordedIsBacked
<1>5. \A E : Backed(E) => Backed(E)'
  BY <1>1 DEF Backed
<1>6. Backed(t.posterior.evidence)'
  <2> SUFFICES ASSUME NEW p \in t.posterior.evidence \ {Genesis}
               PROVE  /\ p \in IdsOf(ledger'.transitions)
                      /\ \E e \in EventsOf(store') : e.id = p
    BY DEF Backed
  <2>1. CASE p = o
    BY <1>1, <1>2, <1>3, <2>1
  <2>2. CASE p # o
    BY <1>1, <1>2, <1>4, <2>2 DEF Backed
  <2> QED
    BY <2>1, <2>2
<1>7. /\ \A u \in EntriesOf(ledger.transitions) : Backed(u.posterior.evidence)'
      /\ \A r \in EntriesOf(ledger.updates) : r.resulting # NoBelief => Backed(r.resulting.evidence)'
  BY <1>5 DEF RecordInv
<1>8. \A b : OfRecord(b) => OfRecord(b)'
  BY <1>1 DEF OfRecord
<1>9. \A u \in EntriesOf(ledger'.transitions) :
        u.id \in ObserveCalls \cup {Genesis} /\ u.posterior.id = u.id /\ Backed(u.posterior.evidence)'
  BY <1>1, <1>2, <1>6, <1>7 DEF RecordInv
<1>10. \A u, v \in EntriesOf(ledger'.transitions) : u.id = v.id => u = v
  BY <1>1, <1>2 DEF RecordInv
<1>11. OfRecord(state.belief)' /\ \A d \in DecideCalls : OfRecord(made[d].belief)'
  BY <1>8 DEF RecordInv
<1>12. InitTransition \in EntriesOf(ledger'.transitions)
  BY <1>1 DEF RecordInv
<1> QED
  BY <1>1, <1>7, <1>9, <1>10, <1>11, <1>12 DEF RecordInv

LEMMA LearnKeepsRecords ==
    ASSUME TypeInv, RecordInv, NEW r \in UpdateReceipt, ReceiptAccepts(ledger, r),
           state' = ApplyUpdate(state, r), ledger' = AppendReceipt(ledger, r),
           r.resulting # NoBelief =>
             /\ r.resulting.id = r.id
             /\ \E t \in EntriesOf(ledger.transitions) :
                  r.resulting.evidence \subseteq t.posterior.evidence \cup state.belief.evidence,
           UNCHANGED <<store, made>>
    PROVE  RecordInv'
<1>1. /\ ledger'.transitions = ledger.transitions
      /\ EntriesOf(ledger'.updates) = EntriesOf(ledger.updates) \cup {r}
  BY LearnKeeps
<1>2. \A q \in EntriesOf(ledger.updates) : q.id # r.id
  BY NewRecords
<1>3. state'.belief = IF r.resulting # NoBelief THEN r.resulting ELSE state.belief
  BY UpdateType DEF TypeInv
<1>4. \A E : Backed(E) => Backed(E)'
  BY <1>1 DEF Backed
<1>5. \A b : OfRecord(b) => OfRecord(b)'
  BY <1>1 DEF OfRecord
<1>6. r.resulting # NoBelief => Backed(r.resulting.evidence)'
  <2> SUFFICES ASSUME r.resulting # NoBelief PROVE Backed(r.resulting.evidence)'
    OBVIOUS
  <2>1. PICK t \in EntriesOf(ledger.transitions) :
          r.resulting.evidence \subseteq t.posterior.evidence \cup state.belief.evidence
    OBVIOUS
  <2>2. Backed(t.posterior.evidence) /\ Backed(state.belief.evidence)
    BY RecordedIsBacked DEF RecordInv
  <2>3. Backed(r.resulting.evidence)
    BY <2>1, <2>2 DEF Backed
  <2> QED
    BY <1>4, <2>3
<1>7. /\ \A u \in EntriesOf(ledger.transitions) : Backed(u.posterior.evidence)'
      /\ \A q \in EntriesOf(ledger.updates) : q.resulting # NoBelief => Backed(q.resulting.evidence)'
  BY <1>4 DEF RecordInv
<1>8. r.resulting # NoBelief => OfRecord(r.resulting)'
  BY <1>1 DEF OfRecord
<1>9. OfRecord(state.belief)' /\ \A d \in DecideCalls : OfRecord(made[d].belief)'
  BY <1>3, <1>5, <1>8 DEF RecordInv
<1>10. \A q \in EntriesOf(ledger'.updates) : q.resulting # NoBelief =>
         q.resulting.id = q.id /\ Backed(q.resulting.evidence)'
  BY <1>1, <1>6, <1>7 DEF RecordInv
<1>11. \A q, s \in EntriesOf(ledger'.updates) : q.id = s.id => q = s
  BY <1>1, <1>2 DEF RecordInv
<1>12. /\ InitTransition \in EntriesOf(ledger'.transitions)
       /\ \A t \in EntriesOf(ledger'.transitions) : t.id \in ObserveCalls \cup {Genesis} /\ t.posterior.id = t.id
       /\ \A t, u \in EntriesOf(ledger'.transitions) : t.id = u.id => t = u
  BY <1>1 DEF RecordInv
<1> QED
  BY <1>1, <1>7, <1>9, <1>10, <1>11, <1>12 DEF RecordInv

\* The belief an assimilation replaces is the one the transition was derived from.
LEMMA AssimilateExtends ==
    ASSUME TypeInv, CallInv, RecordInv, WrittenInv, NEW o \in ObserveCalls,
           pc[o] = "assimilate", AssimilateAccepts(state, work[o].transition),
           state' = Assimilate(state, work[o].transition)
    PROVE  /\ state'.belief = work[o].transition.posterior
           /\ OfRecord(state'.belief)
           /\ state'.belief.evidence = state.belief.evidence \cup {o}
<1> DEFINE t == work[o].transition
<1>1. pc[o] \in Derived /\ pc[o] \in UnderWay
  BY DEF Derived, UnderWay, Kept
<1>2. /\ t \in EntriesOf(ledger.transitions) /\ t.prior = work[o].decision.belief.id
      /\ t.posterior.evidence = work[o].decision.belief.evidence \cup {o}
  BY <1>1 DEF WrittenInv
<1>3. state'.belief = t.posterior
  BY DEF Assimilate, TypeInv, AgentStates
<1>4. work[o].decision.belief = state.belief
  <2>1. OfRecord(work[o].decision.belief) /\ OfRecord(state.belief)
    BY <1>1, DecidedOnRecord DEF RecordInv
  <2>2. work[o].decision.belief.id = state.belief.id
    BY <1>2 DEF AssimilateAccepts
  <2> QED
    BY <2>1, <2>2, SameBelief
<1> QED
  BY <1>2, <1>3, <1>4 DEF OfRecord

\* Whatever happens, the records stay sound and the belief loses no evidence.
LEMMA StepKeepsRecords ==
    ASSUME TypeInv, CallInv, RecordInv, WrittenInv, Next
    PROVE  RecordInv' /\ state.belief.evidence \subseteq state'.belief.evidence
<1>1. ASSUME NEW d \in DecideCalls, DecideSnapshot(d) \/ RegisterDecision(d)
      PROVE  RecordInv' /\ state.belief.evidence \subseteq state'.belief.evidence
  BY <1>1, DecideStep, RecordFrame DEF RecordInv
<1>2. ASSUME NEW l \in LearnCalls, Learn(l)
      PROVE  RecordInv' /\ state.belief.evidence \subseteq state'.belief.evidence
  <2>0. UNCHANGED <<store, made>>
    BY <1>2, LearnStep
  <2>1. CASE state' = state /\ ledger' = ledger
    BY <2>0, <2>1, RecordFrame DEF RecordInv
  <2>2. CASE ~(state' = state /\ ledger' = ledger)
    <3>1. PICK r \in UpdateReceipt :
                   /\ UpdateAccepts(state, r) /\ ReceiptAccepts(ledger, r)
                   /\ state' = ApplyUpdate(state, r) /\ ledger' = AppendReceipt(ledger, r)
                   /\ r.resulting # NoBelief =>
                        /\ r.resulting.id = r.id
                        /\ \E t \in EntriesOf(ledger.transitions) :
                             r.resulting.evidence \subseteq
                               t.posterior.evidence \cup state.belief.evidence
      BY <1>2, <2>2, LearnStep
    <3>2. state'.belief = IF r.resulting # NoBelief THEN r.resulting ELSE state.belief
      BY <3>1, UpdateType DEF TypeInv
    <3>3. r.resulting # NoBelief => state.belief.evidence \subseteq r.resulting.evidence
      BY <3>1 DEF UpdateAccepts
    <3> QED
      BY <2>0, <3>1, <3>2, <3>3, LearnKeepsRecords
  <2> QED
    BY <2>1, <2>2
<1>3. ASSUME NEW o \in ObserveCalls, Observe(o)
      PROVE  RecordInv' /\ state.belief.evidence \subseteq state'.belief.evidence
  <2>1. Writes(o) /\ made' = made /\ EventsOf(store) \subseteq EventsOf(store')
    BY <1>3, ObserveWrites, ObserveStep
  <2>2. CASE pc[o] = "assimilate" /\ state' = Assimilate(state, work[o].transition)
             /\ AssimilateAccepts(state, work[o].transition)
    <3>1. ledger' = ledger
      BY <2>1, <2>2 DEF Writes
    <3> QED
      BY <2>1, <2>2, <3>1, AssimilateExtends, RecordFrame
  <2>3. CASE state'.belief = state.belief /\ ledger' = ledger
    BY <2>1, <2>3, RecordFrame DEF RecordInv
  <2>4. CASE state'.belief = state.belief /\ pc[o] = "derive" /\ \E t \in Transition : Derives(o, t)
    BY <2>1, <2>4, DeriveKeepsRecords
  <2> QED
    BY <2>1, <2>2, <2>3, <2>4 DEF Writes
<1>4. CASE Rest
  BY <1>4, RecordFrame DEF Rest, vars, RecordInv
<1> QED
  BY <1>1, <1>2, <1>3, <1>4 DEF Next

-----------------------------------------------------------------------------
(* What a call has written by the point it has reached.                    *)

\* The part of WrittenInv about one call, for its locals w at the point to.
HasWritten(o, to, w) ==
    /\ to \in Kept => w.event \in EventsOf(store')
    /\ to \in Derived =>
         /\ w.transition \in EntriesOf(ledger'.transitions)
         /\ w.transition.id = o
         /\ w.transition.prior = w.decision.belief.id
         /\ w.transition.posterior.evidence = w.decision.belief.evidence \cup {o}
    /\ to \in Applied => o \in state'.belief.evidence
    /\ to \in Indexed => o \in replay'

\* Nothing that was written is lost.
LEMMA WrittenStays ==
    ASSUME WrittenInv, NEW o \in ObserveCalls,
           EntriesOf(ledger.transitions) \subseteq EntriesOf(ledger'.transitions),
           EventsOf(store) \subseteq EventsOf(store'), replay \subseteq replay',
           state.belief.evidence \subseteq state'.belief.evidence
    PROVE  HasWritten(o, pc[o], work[o])
  BY DEF WrittenInv, HasWritten, Event

LEMMA WrittenAll ==
    ASSUME \A o \in ObserveCalls : HasWritten(o, pc'[o], work'[o])
    PROVE  WrittenInv'
  BY DEF WrittenInv, HasWritten, Event

\* The step of an observe call itself.
LEMMA ObserveHasWritten ==
    ASSUME TypeInv, CallInv, RecordInv, WrittenInv, NEW o \in ObserveCalls, Observe(o),
           state.belief.evidence \subseteq state'.belief.evidence
    PROVE  HasWritten(o, pc'[o], work'[o])
<1> DEFINE Goal == HasWritten(o, pc'[o], work'[o])
<1>0. /\ pc \in [Calls -> DecidePoints \cup LearnPoints \cup ObservePoints] /\ o \in Calls
      /\ work \in [ObserveCalls -> Locals] /\ work[o] \in Locals
  BY Kinds DEF TypeInv
<1>1. /\ EntriesOf(ledger.transitions) \subseteq EntriesOf(ledger'.transitions)
      /\ EventsOf(store) \subseteq EventsOf(store') /\ replay \subseteq replay'
  BY ObserveWrites, ObserveKeeps
<1>2. HasWritten(o, pc[o], work[o])
  BY <1>1, WrittenStays
<1>3. ASSUME pc'[o] \notin Kept PROVE Goal
  BY <1>3 DEF HasWritten, Kept, Derived, Applied
<1>4. ASSUME NEW at, NEW stage, NEW from, NEW to, RecordStage(o, from, stage, at, to)
      PROVE  pc[o] = from /\ (pc'[o] \notin Kept \/ (pc'[o] = to /\ work'[o] = work[o]))
  <2>1. pc[o] = from /\ (Continue(o, to) \/ Continue(o, "raised"))
    BY <1>4 DEF RecordStage, Journal
  <2>2. pc'[o] \in {to, "raised"} /\ (to \notin Terminal /\ pc'[o] = to => work'[o] = work[o])
    BY <1>0, <2>1 DEF Continue, Goto, Terminal
  <2> QED
    BY <2>1, <2>2 DEF Kept, Derived, Applied, Indexed, Terminal
<1>5. CASE StoreExperience(o)
  <2>1. CASE Goto(o, "lookAgain")
    BY <1>0, <1>3, <2>1 DEF Goto, Kept, Derived, Applied, Indexed
  <2>2. CASE Goto(o, "journalExperience") /\ store' = Append(store, Event(o)) /\ work' = work
    <3>1. Event(o) \in EventsOf(store')
      <4>1. Event(o) \in StoredEvent /\ store \in Seq(StoredEvent)
        BY <1>5, Points DEF CallInv, TypeInv, StoreExperience
      <4>2. EventsOf(Append(store, Event(o))) = EventsOf(store) \cup {Event(o)}
        BY <4>1, EventsAppended
      <4> QED
        BY <2>2, <4>2
    <3>2. pc'[o] = "journalExperience" /\ work'[o] = work[o]
      BY <1>0, <2>2 DEF Goto
    <3> QED
      BY <3>1, <3>2 DEF HasWritten, Event, Derived, Applied, Indexed
  <2> QED
    BY <1>5, <2>1, <2>2 DEF StoreExperience
<1>6. CASE RecordExperience(o)
  <2>1. pc[o] = "journalExperience" /\ (pc'[o] \notin Kept \/ (pc'[o] = "derive" /\ work'[o] = work[o]))
    BY <1>4, <1>6 DEF RecordExperience
  <2> QED
    BY <1>2, <1>3, <2>1 DEF HasWritten, Kept, Derived, Applied, Indexed
<1>7. CASE StoreTransition(o)
  <2>1. pc[o] = "derive"
    BY <1>7 DEF StoreTransition
  <2>2. CASE Handle(o, "transition_stored")
    BY <1>0, <1>3, <2>2 DEF Handle, Goto, Kept, Derived, Applied, Indexed
  <2>3. CASE ~Handle(o, "transition_stored")
    <3>1. \E t \in Transition : Derives(o, t)
      <4>1. CASE ledger' = ledger
        <5>1. \E t : TransitionAccepts(ledger, t) /\ ledger' = AppendTransition(ledger, t)
                       /\ ledger \in Ledgers
          BY <1>7, <2>3 DEF StoreTransition, TypeInv
        <5>2. PICK t : ledger = AppendTransition(ledger, t) /\ ledger \in Ledgers
          BY <4>1, <5>1
        <5>3. ledger.gen = ledger.gen + 1 /\ ledger.gen \in Nat
          BY <5>2 DEF AppendTransition, Ledgers
        <5> QED
          BY <5>3
      <4> QED
        BY <4>1, ObserveWrites DEF Writes
    <3>2. PICK t \in Transition : Derives(o, t)
      BY <3>1
    <3>3. /\ work'[o] = [work[o] EXCEPT !.transition = t] /\ pc'[o] = "journalTransition"
          /\ t.id = o /\ t.prior = work[o].decision.belief.id
          /\ t.posterior.evidence = work[o].decision.belief.evidence \cup {o}
          /\ Event(o) \in EventsOf(store)
      BY <3>2 DEF Derives
    <3>4. t \in EntriesOf(ledger'.transitions)
      <4>1. EntriesOf(AppendTransition(ledger, t).transitions) = EntriesOf(ledger.transitions) \cup {t}
        BY TransitionAppended DEF TypeInv
      <4> QED
        BY <3>2, <4>1 DEF Derives
    <3>5. /\ work'[o].transition = t /\ work'[o].event = work[o].event
          /\ work'[o].decision = work[o].decision
      BY <1>0, <3>3 DEF Locals
    <3> QED
      BY <1>1, <3>3, <3>4, <3>5 DEF HasWritten, Event, Applied, Indexed
  <2> QED
    BY <2>2, <2>3
<1>8. CASE RecordTransition(o)
  <2>1. pc[o] = "journalTransition" /\ (pc'[o] \notin Kept \/ (pc'[o] = "assimilate" /\ work'[o] = work[o]))
    BY <1>4, <1>8 DEF RecordTransition
  <2> QED
    BY <1>2, <1>3, <2>1 DEF HasWritten, Kept, Derived, Applied, Indexed
<1>9. CASE AssimilateBelief(o)
  <2>1. CASE Handle(o, "state_applied")
    BY <1>0, <1>3, <2>1 DEF Handle, Goto, Kept, Derived, Applied, Indexed
  <2>2. CASE ~Handle(o, "state_applied")
    <3>1. /\ pc[o] = "assimilate" /\ Goto(o, "account") /\ work' = work
          /\ AssimilateAccepts(state, work[o].transition)
          /\ state' = Assimilate(state, work[o].transition)
      BY <1>9, <2>2 DEF AssimilateBelief
    <3>2. o \in state'.belief.evidence /\ pc'[o] = "account" /\ work'[o] = work[o]
      BY <1>0, <3>1, AssimilateExtends DEF Goto
    <3> QED
      BY <1>2, <3>1, <3>2 DEF HasWritten, Kept, Derived, Applied, Indexed
  <2> QED
    BY <2>1, <2>2
<1>10. CASE CountStep(o)
  <2>1. pc[o] = "account" /\ pc'[o] \in {"journalState", "fail"}
        /\ (pc'[o] = "journalState" => work'[o] = work[o])
    BY <1>0, <1>10 DEF CountStep, Handle, Goto
  <2> QED
    BY <1>2, <1>3, <2>1 DEF HasWritten, Kept, Derived, Applied, Indexed
<1>11. CASE RecordState(o)
  <2>1. /\ pc[o] = "journalState"
        /\ \/ pc'[o] \notin Kept
           \/ pc'[o] = (IF HasReplay THEN "index" ELSE "returned") /\ work'[o] = work[o]
    BY <1>4, <1>11 DEF RecordState
  <2> QED
    BY <1>2, <1>3, <2>1 DEF HasWritten, Kept, Derived, Applied, Indexed
<1>12. CASE IndexReplay(o)
  <2>1. /\ pc[o] = "index"
        /\ \/ pc'[o] = "fail"
           \/ pc'[o] = "journalReplay" /\ work'[o] = work[o] /\ replay' = replay \cup {o}
    BY <1>0, <1>12 DEF IndexReplay, Handle, Goto
  <2> QED
    BY <1>2, <1>3, <2>1 DEF HasWritten, Kept, Derived, Applied, Indexed
<1>13. CASE RecordReplay(o)
  <2>1. pc'[o] \notin Kept \/ pc'[o] = "returned"
    BY <1>4, <1>13 DEF RecordReplay
  <2> QED
    BY <1>3, <2>1 DEF Kept, Derived, Applied, Indexed
<1>14. CASE \/ Start(o) \/ ReadHistory(o) \/ RecordDiscovered(o) \/ ConsumeDecision(o)
            \/ LookAgain(o) \/ RecordFailure(o)
  <2>1. pc'[o] \in {"history", "already", "discover", "consume", "raised", "append", "unknown",
                    "fail", "failure"}
    BY <1>0, <1>14 DEF Start, ReadHistory, RecordDiscovered, ConsumeDecision, LookAgain,
       RecordFailure, Journal, Continue, Handle, Goto
  <2> QED
    BY <1>3, <2>1 DEF Kept, Derived, Applied, Indexed
<1> QED
  BY <1>5, <1>6, <1>7, <1>8, <1>9, <1>10, <1>11, <1>12, <1>13, <1>14 DEF Observe

LEMMA StepKeepsWritten ==
    ASSUME TypeInv, CallInv, RecordInv, WrittenInv, Next
    PROVE  WrittenInv'
<1>0. state.belief.evidence \subseteq state'.belief.evidence
  BY StepKeepsRecords
<1>1. ASSUME NEW d \in DecideCalls, DecideSnapshot(d) \/ RegisterDecision(d) PROVE WrittenInv'
  <2>1. \A o \in ObserveCalls : pc'[o] = pc[o] /\ work'[o] = work[o]
    BY <1>1, DecideStep, Kinds DEF TypeInv
  <2>2. UNCHANGED <<ledger, store, replay>>
    BY <1>1, DecideStep
  <2> QED
    BY <1>0, <2>1, <2>2, WrittenStays, WrittenAll
<1>2. ASSUME NEW l \in LearnCalls, Learn(l) PROVE WrittenInv'
  <2>1. \A o \in ObserveCalls : pc'[o] = pc[o] /\ work'[o] = work[o]
    BY <1>2, LearnStep, Kinds DEF TypeInv
  <2>2. UNCHANGED <<store, replay>> /\ EntriesOf(ledger.transitions) \subseteq EntriesOf(ledger'.transitions)
    BY <1>2, LearnStep, LearnKeeps
  <2> QED
    BY <1>0, <2>1, <2>2, WrittenStays, WrittenAll
<1>3. ASSUME NEW o \in ObserveCalls, Observe(o) PROVE WrittenInv'
  <2>1. /\ EntriesOf(ledger.transitions) \subseteq EntriesOf(ledger'.transitions)
        /\ EventsOf(store) \subseteq EventsOf(store') /\ replay \subseteq replay'
    BY <1>3, ObserveWrites, ObserveKeeps
  <2>2. \A p \in ObserveCalls : p # o => pc'[p] = pc[p] /\ work'[p] = work[p]
    BY <1>3, ObserveStep, Kinds
  <2>3. HasWritten(o, pc'[o], work'[o])
    BY <1>0, <1>3, ObserveHasWritten
  <2> QED
    BY <1>0, <2>1, <2>2, <2>3, WrittenStays, WrittenAll
<1>4. CASE Rest
  BY <1>4 DEF Rest, vars, WrittenInv, Event
<1> QED
  BY <1>1, <1>2, <1>3, <1>4 DEF Next

-----------------------------------------------------------------------------
(* A decision is used once, and a step has one event.                      *)

\* A call that is about to store holds a decision nobody else has.
Holds(o) ==
    /\ Event(o).decision \notin state.pending
    /\ \A e \in EventsOf(store) : e.decision # Event(o).decision
    /\ \A p \in ObserveCalls :
         pc[p] = "append" /\ Event(p).decision = Event(o).decision => p = o

LEMMA StoreKeepsUse ==
    ASSUME TypeInv, CallInv, UseInv, NEW o \in ObserveCalls, pc[o] = "append",
           StoreAccepts(store, Event(o)), store' = Append(store, Event(o)),
           state' = state, pc'[o] # "append",
           \A c \in Calls : c # o => pc'[c] = pc[c],
           \A p \in ObserveCalls : p # o => work'[p] = work[p]
    PROVE  UseInv'
<1> DEFINE e == Event(o)
<1>1. e \in StoredEvent /\ pc[e.decision] = "decided" /\ e.context \in Contexts
  BY Points DEF CallInv, StoredEvent
<1>2. EventsOf(store') = EventsOf(store) \cup {e}
  BY <1>1, EventsAppended DEF TypeInv
<1>3. Holds(o)
  BY DEF UseInv, Holds
<1>4. \A f \in EventsOf(store) : f.decision # e.decision /\ f.context # e.context
  <2>1. \A f \in SameEpisode(store, e.context) : f.context.step < e.context.step
    BY DEF StoreAccepts
  <2>2. e.context.step \in Nat
    BY <1>1, ContextsAssumption
  <2> QED
    BY <1>3, <2>1, <2>2 DEF Holds, SameEpisode
<1>5. \A d \in DecideCalls : pc'[d] = pc[d]
  BY Kinds
<1>6. EventsOf(store) \subseteq StoredEvent
  BY EntryTypes DEF TypeInv, EventsOf
<1>7. \A f \in EventsOf(store') : pc'[f.decision] = "decided" /\ f.decision \notin state'.pending
  BY <1>1, <1>2, <1>3, <1>5, <1>6 DEF UseInv, Holds, StoredEvent
<1>8. \A f, g \in EventsOf(store') : f.decision = g.decision \/ f.context = g.context => f = g
  BY <1>2, <1>4 DEF UseInv
<1>9. ASSUME NEW p \in ObserveCalls, pc'[p] = "append" PROVE Holds(p)'
  <2>1. p # o /\ pc[p] = "append" /\ work'[p] = work[p]
    BY <1>9, Kinds
  <2>2. Holds(p) /\ Event(p).decision # e.decision
    BY <2>1 DEF UseInv, Holds
  <2>3. \A q \in ObserveCalls : pc'[q] = "append" => q # o /\ pc[q] = "append" /\ work'[q] = work[q]
    BY Kinds
  <2> QED
    BY <1>2, <2>1, <2>2, <2>3 DEF Holds, Event
<1>10. \A d \in state'.pending : pc'[d] = "decided"
  BY <1>5 DEF UseInv, TypeInv, AgentStates
<1> QED
  BY <1>7, <1>8, <1>9, <1>10 DEF UseInv, Holds

\* Consuming takes the decision from the pending ones before anything is stored for it.
LEMMA ConsumeKeepsUse ==
    ASSUME TypeInv, CallInv, UseInv, NEW o \in ObserveCalls, ConsumeDecision(o),
           \A c \in Calls : c # o => pc'[c] = pc[c],
           \A p \in ObserveCalls : p # o => work'[p] = work[p]
    PROVE  UseInv'
<1>1. pc[o] = "consume" /\ store' = store /\ o \in Calls
      /\ pc \in [Calls -> DecidePoints \cup LearnPoints \cup ObservePoints]
  BY Kinds DEF ConsumeDecision, TypeInv
<1>2. \A d \in DecideCalls : pc'[d] = pc[d]
  BY Kinds
<1>3. EventsOf(store) \subseteq StoredEvent
  BY EntryTypes DEF TypeInv, EventsOf
<1>4. CASE Continue(o, "unknown") /\ state' = state
  <2>1. pc'[o] # "append"
    BY <1>1, <1>4 DEF Continue, Goto
  <2>2. ASSUME NEW p \in ObserveCalls, pc'[p] = "append" PROVE Holds(p)'
    <3>1. p # o /\ pc[p] = "append" /\ work'[p] = work[p]
      BY <2>1, <2>2, Kinds
    <3>2. Holds(p)
      BY <3>1 DEF UseInv, Holds
    <3>3. \A q \in ObserveCalls : pc'[q] = "append" => pc[q] = "append" /\ work'[q] = work[q]
      BY <2>1, Kinds
    <3> QED
      BY <1>1, <1>4, <3>1, <3>2, <3>3 DEF Holds, Event
  <2>3. \A e \in EventsOf(store) : pc'[e.decision] = "decided" /\ e.decision \notin state.pending
    BY <1>2, <1>3 DEF UseInv, StoredEvent
  <2>4. \A d \in state.pending : pc'[d] = "decided"
    BY <1>2 DEF UseInv, TypeInv, AgentStates
  <2> QED
    BY <1>1, <1>4, <2>2, <2>3, <2>4 DEF UseInv, Holds
<1>5. CASE Continue(o, "append") /\ state' = Consume(state, work[o].decision)
           /\ ConsumeAccepts(state, work[o].decision)
  <2> DEFINE d == Event(o).decision
  <2>1. pc'[o] = "append" /\ work'[o] = work[o]
    BY <1>1, <1>5 DEF Continue, Goto, Terminal, TypeInv
  <2>2. work[o].decision.id = d /\ d \in DecideCalls
    <3>1. Event(o) \in StoredEvent /\ pc[d] = "decided" /\ work[o].decision = made[d]
      BY <1>1, Points DEF CallInv
    <3> QED
      BY <3>1 DEF CallInv, StoredEvent
  <2>3. d \in state.pending /\ state'.pending = state.pending \ {d}
    BY <1>5, <2>2 DEF Consume, ConsumeAccepts, TypeInv, AgentStates
  <2>4. \A e \in EventsOf(store) :
          pc'[e.decision] = "decided" /\ e.decision \notin state'.pending /\ e.decision # d
    BY <1>2, <1>3, <2>3 DEF UseInv, StoredEvent
  <2>5. ASSUME NEW p \in ObserveCalls, pc'[p] = "append", p # o
        PROVE  Holds(p)' /\ Event(p)'.decision # d
    <3>1. pc[p] = "append" /\ work'[p] = work[p]
      BY <2>5, Kinds
    <3>2. Holds(p)
      BY <3>1 DEF UseInv, Holds
    <3>3. Event(p).decision # d
      BY <2>3, <3>2 DEF Holds
    <3>4. \A q \in ObserveCalls : q # o /\ pc'[q] = "append" => pc[q] = "append" /\ work'[q] = work[q]
      BY Kinds
    <3> QED
      BY <1>1, <2>1, <2>3, <3>1, <3>2, <3>3, <3>4 DEF Holds, Event
  <2>6. Holds(o)'
    BY <1>1, <2>1, <2>3, <2>4, <2>5 DEF Holds, Event
  <2>7. \A p \in ObserveCalls : pc'[p] = "append" => Holds(p)'
    BY <2>5, <2>6
  <2>8. \A e \in state'.pending : pc'[e] = "decided"
    BY <1>2, <2>3 DEF UseInv, TypeInv, AgentStates
  <2> QED
    BY <1>1, <2>4, <2>7, <2>8 DEF UseInv, Holds
<1> QED
  BY <1>4, <1>5 DEF ConsumeDecision

\* A step that neither stores nor consumes, and lets nobody begin to store.
LEMMA UseFrame ==
    ASSUME TypeInv, CallInv, UseInv, store' = store,
           state'.pending = state.pending,
           \A d \in DecideCalls : pc[d] = "decided" => pc'[d] = "decided",
           \A o \in ObserveCalls : pc'[o] = "append" => pc[o] = "append" /\ work'[o] = work[o]
    PROVE  UseInv'
<1>1. EventsOf(store) \subseteq StoredEvent
  BY EntryTypes DEF TypeInv, EventsOf
<1>2. ASSUME NEW p \in ObserveCalls, pc'[p] = "append" PROVE Holds(p)'
  <2>1. Holds(p)
    BY <1>2 DEF UseInv, Holds
  <2> QED
    BY <1>2, <2>1 DEF Holds, Event
<1>3. \A e \in EventsOf(store) : pc'[e.decision] = "decided"
  BY <1>1 DEF UseInv, StoredEvent
<1>4. \A d \in state.pending : pc'[d] = "decided"
  BY DEF UseInv, TypeInv, AgentStates
<1> QED
  BY <1>2, <1>3, <1>4 DEF UseInv, Holds

LEMMA StepKeepsUse ==
    ASSUME TypeInv, CallInv, UseInv, Next
    PROVE  UseInv'
<1>1. ASSUME NEW d \in DecideCalls, DecideSnapshot(d) \/ RegisterDecision(d) PROVE UseInv'
  <2>1. \A o \in ObserveCalls : pc'[o] = pc[o] /\ work'[o] = work[o]
    BY <1>1, DecideStep, Kinds DEF TypeInv
  <2>2. store' = store /\ \A e \in DecideCalls : pc[e] = "decided" => pc'[e] = "decided"
    BY <1>1, DecideStep
  <2>3. CASE state' = state
    BY <2>1, <2>2, <2>3, UseFrame
  <2>4. CASE /\ pc[d] = "register" /\ pc'[d] = "decided"
             /\ state'.pending = state.pending \cup {d}
    <3>1. EventsOf(store) \subseteq StoredEvent
      BY EntryTypes DEF TypeInv, EventsOf
    <3>2. \A e \in EventsOf(store) : pc'[e.decision] = "decided" /\ e.decision \notin state'.pending
      BY <2>2, <2>4, <3>1 DEF UseInv, StoredEvent
    <3>3. ASSUME NEW o \in ObserveCalls, pc'[o] = "append" PROVE Holds(o)'
      <4>1. pc[o] = "append" /\ Holds(o)
        BY <2>1, <3>3 DEF UseInv, Holds
      <4>2. Event(o).decision # d
        BY <2>4, <4>1, Points DEF CallInv
      <4> QED
        BY <2>1, <2>2, <2>4, <4>1, <4>2 DEF Holds, Event
    <3>4. \A e \in state'.pending : pc'[e] = "decided"
      BY <2>2, <2>4 DEF UseInv, TypeInv, AgentStates
    <3> QED
      BY <2>2, <3>2, <3>3, <3>4 DEF UseInv, Holds
  <2> QED
    BY <1>1, <2>3, <2>4, DecideStep
<1>2. ASSUME NEW l \in LearnCalls, Learn(l) PROVE UseInv'
  <2>1. /\ \A o \in ObserveCalls : pc'[o] = pc[o] /\ work'[o] = work[o]
        /\ \A d \in DecideCalls : pc'[d] = pc[d]
        /\ store' = store
    BY <1>2, LearnStep, Kinds DEF TypeInv
  <2>2. state'.pending = state.pending
    BY <1>2, LearnStep, UpdateType DEF TypeInv
  <2> QED
    BY <2>1, <2>2, UseFrame
<1>3. ASSUME NEW o \in ObserveCalls, Observe(o) PROVE UseInv'
  <2>1. /\ \A c \in Calls : c # o => pc'[c] = pc[c]
        /\ \A p \in ObserveCalls : p # o => work'[p] = work[p]
        /\ \A d \in DecideCalls : pc'[d] = pc[d]
        /\ pc \in [Calls -> DecidePoints \cup LearnPoints \cup ObservePoints] /\ o \in Calls
    BY <1>3, ObserveStep, Kinds DEF TypeInv
  <2>2. CASE ConsumeDecision(o)
    BY <2>1, <2>2, ConsumeKeepsUse
  <2>3. CASE StoreExperience(o)
    <3>1. pc[o] = "append" /\ pc'[o] # "append" /\ state' = state
      BY <2>1, <2>3 DEF StoreExperience, Goto
    <3>0. \A p \in ObserveCalls : pc'[p] = "append" => pc[p] = "append" /\ work'[p] = work[p]
      BY <2>1, <3>1, Kinds
    <3>2. CASE store' = store
      BY <2>1, <3>0, <3>1, <3>2, UseFrame
    <3>3. CASE StoreAccepts(store, Event(o)) /\ store' = Append(store, Event(o))
      BY <2>1, <3>1, <3>3, StoreKeepsUse
    <3> QED
      BY <2>3, <3>2, <3>3 DEF StoreExperience
  <2>4. CASE ~ConsumeDecision(o) /\ ~StoreExperience(o)
    <3>1. /\ store' = store /\ pc'[o] # "append"
      BY <1>3, <2>1, <2>4 DEF Observe, Start, ReadHistory, RecordDiscovered, LookAgain,
         RecordExperience, StoreTransition, RecordTransition, AssimilateBelief, CountStep,
         RecordState, IndexReplay, RecordReplay, RecordFailure, RecordStage, Journal, Continue,
         Handle, Goto
    <3>2. state' = state \/ \E t \in Transition : state' \in {Assimilate(state, t), AddResource(state, t.at)}
      <4>1. work[o].transition \in Transition
        BY LocalTypes
      <4>2. state' = state \/ state' \in {Assimilate(state, work[o].transition),
                                          AddResource(state, work[o].transition.at)}
        BY <1>3, <2>4 DEF Observe, Start, ReadHistory, RecordDiscovered, LookAgain,
           RecordExperience, StoreTransition, RecordTransition, AssimilateBelief, CountStep,
           RecordState, IndexReplay, RecordReplay, RecordFailure, RecordStage, Journal
      <4> QED
        BY <4>1, <4>2
    <3>3. state'.pending = state.pending
      <4>1. \A t : Assimilate(state, t).pending = state.pending
        BY DEF Assimilate, TypeInv, AgentStates
      <4>2. \A at : AddResource(state, at).pending = state.pending
        BY DEF AddResource, TypeInv, AgentStates
      <4> QED
        BY <3>2, <4>1, <4>2
    <3>4. \A p \in ObserveCalls : pc'[p] = "append" => pc[p] = "append" /\ work'[p] = work[p]
      BY <2>1, <3>1, Kinds
    <3> QED
      BY <2>1, <3>1, <3>3, <3>4, UseFrame
  <2> QED
    BY <2>2, <2>3, <2>4
<1>4. CASE Rest
  BY <1>4 DEF Rest, vars, UseInv, Event
<1> QED
  BY <1>1, <1>2, <1>3, <1>4 DEF Next

-----------------------------------------------------------------------------
(* The journal, and what a call that returned leaves behind.               *)

LEMMA StepKeepsReplay ==
    ASSUME TypeInv, CallInv, ReplayInv, Next
    PROVE  ReplayInv'
<1> SUFFICES ASSUME ~HasReplay
             PROVE  \A o \in ObserveCalls : pc'[o] \notin {"index", "journalReplay"}
                                            /\ work'[o].attempted # "replay_indexed"
  BY DEF ReplayInv
<1>0. \A o \in ObserveCalls : pc[o] \notin {"index", "journalReplay"}
                              /\ work[o].attempted # "replay_indexed"
  BY DEF ReplayInv
<1>1. ASSUME NEW d \in DecideCalls, DecideSnapshot(d) \/ RegisterDecision(d), NEW o \in ObserveCalls
      PROVE  pc'[o] = pc[o] /\ work'[o] = work[o]
  BY <1>1, DecideStep, Kinds DEF TypeInv
<1>2. ASSUME NEW l \in LearnCalls, Learn(l), NEW o \in ObserveCalls
      PROVE  pc'[o] = pc[o] /\ work'[o] = work[o]
  BY <1>2, LearnStep, Kinds DEF TypeInv
<1>3. ASSUME NEW p \in ObserveCalls, Observe(p), NEW o \in ObserveCalls
      PROVE  pc'[o] \notin {"index", "journalReplay"} /\ work'[o].attempted # "replay_indexed"
  <2>1. /\ pc \in [Calls -> DecidePoints \cup LearnPoints \cup ObservePoints] /\ p \in Calls
        /\ work \in [ObserveCalls -> Locals] /\ work[p] \in Locals
    BY Kinds DEF TypeInv
  <2>2. CASE o # p
    <3>1. pc'[o] = pc[o] /\ work'[o] = work[o]
      BY <1>3, <2>2, ObserveStep, Kinds
    <3> QED
      BY <1>0, <3>1
  <2>3. pc'[p] \notin {"index", "journalReplay"}
    BY <1>0, <1>3, <2>1 DEF Observe, Start, ReadHistory, RecordDiscovered, ConsumeDecision,
       StoreExperience, LookAgain, RecordExperience, StoreTransition, RecordTransition,
       AssimilateBelief, CountStep, RecordState, IndexReplay, RecordReplay, RecordFailure,
       RecordStage, Journal, Continue, Handle, Goto
  <2>4. work'[p].attempted # "replay_indexed"
    <3>1. NoWork.attempted = "none" /\ work[p].attempted # "replay_indexed" /\ pc[p] # "index"
      BY <1>0 DEF NoWork
    <3>2. CASE Start(p)
      <4>1. PICK d \in {d \in DecideCalls : pc[d] = "decided"}, context \in Contexts,
                 closed \in Ticks, terminal \in BOOLEAN :
              work' = [work EXCEPT
                         ![p].decision = made[d],
                         ![p].event = [id |-> p, decision |-> d, context |-> context,
                                       closed |-> closed, terminal |-> terminal],
                         ![p].found = Find(context)]
        BY <3>2, ZenonT(30) DEF Start
      <4> DEFINE event == [id |-> p, decision |-> d, context |-> context,
                           closed |-> closed, terminal |-> terminal]
      <4>2. work'[p] = [work[p] EXCEPT !.decision = made[d], !.event = event,
                                       !.found = Find(context)]
        BY <2>1, <4>1
      <4> HIDE DEF event
      <4>3. work'[p].attempted = work[p].attempted
        BY <2>1, <4>2 DEF Locals
      <4> QED
        BY <3>1, <4>3
    <3>3. CASE LookAgain(p)
      <4>1. \/ work' = [work EXCEPT ![p].found = Find(ContextOf(p))]
            \/ work' = [work EXCEPT ![p].attempted = "experience_stored"]
        BY <3>3 DEF LookAgain, Handle
      <4> QED
        BY <2>1, <3>1, <4>1 DEF Locals
    <3>4. CASE StoreTransition(p)
      <4>1. \/ \E t : work' = [work EXCEPT ![p].transition = t]
            \/ work' = [work EXCEPT ![p].attempted = "transition_stored"]
        BY <3>4 DEF StoreTransition, Handle
      <4> QED
        BY <2>1, <3>1, <4>1 DEF Locals
    <3>5. CASE AssimilateBelief(p) \/ CountStep(p)
      <4>1. work' = work \/ work' = [work EXCEPT ![p].attempted = "state_applied"]
        BY <3>5 DEF AssimilateBelief, CountStep, Handle
      <4> QED
        BY <2>1, <3>1, <4>1 DEF Locals
    <3>6. CASE \/ ReadHistory(p) \/ RecordDiscovered(p) \/ ConsumeDecision(p)
               \/ StoreExperience(p) \/ RecordExperience(p) \/ RecordTransition(p)
               \/ RecordState(p) \/ RecordReplay(p) \/ RecordFailure(p)
      <4>1. work' = work \/ work' = [work EXCEPT ![p] = NoWork]
        BY <3>6 DEF ReadHistory, RecordDiscovered, ConsumeDecision, StoreExperience,
           RecordExperience, RecordTransition, RecordState, RecordReplay, RecordFailure,
           RecordStage, Journal, Continue
      <4> QED
        BY <2>1, <3>1, <4>1
    <3>7. CASE IndexReplay(p)
      BY <3>1, <3>7 DEF IndexReplay
    <3> QED
      BY <1>3, <3>2, <3>3, <3>4, <3>5, <3>6, <3>7 DEF Observe
  <2> QED
    BY <2>2, <2>3, <2>4
<1>4. CASE Rest
  BY <1>0, <1>4 DEF Rest, vars
<1> QED
  BY <1>0, <1>1, <1>2, <1>3, <1>4 DEF Next

\* What was written of a step stays written.
Grows ==
    /\ EventsOf(store) \subseteq EventsOf(store')
    /\ IdsOf(ledger.transitions) \subseteq IdsOf(ledger'.transitions)
    /\ replay \subseteq replay'
    /\ state.belief.evidence \subseteq state'.belief.evidence

LEMMA WrittenForEver ==
    ASSUME Grows, NEW stage \in Stages, NEW c \in Contexts, Written(stage, c)
    PROVE  Written(stage, c)'
<1>1. StoredAt(c) \subseteq StoredAt(c)'
  BY DEF Grows, StoredAt, FindStep
<1> QED
  BY <1>1, StageNames DEF Grows, Written

LEMMA StepKeeps ==
    ASSUME TypeInv, CallInv, RecordInv, WrittenInv, Next
    PROVE  Grows
<1>0. state.belief.evidence \subseteq state'.belief.evidence
  BY StepKeepsRecords
<1>1. ASSUME NEW d \in DecideCalls, DecideSnapshot(d) \/ RegisterDecision(d) PROVE Grows
  BY <1>0, <1>1, DecideStep DEF Grows
<1>2. ASSUME NEW l \in LearnCalls, Learn(l) PROVE Grows
  <2>1. store' = store /\ replay' = replay /\ ledger'.transitions = ledger.transitions
    BY <1>2, LearnStep, LearnKeeps
  <2> QED
    BY <1>0, <2>1 DEF Grows
<1>3. ASSUME NEW o \in ObserveCalls, Observe(o) PROVE Grows
  BY <1>0, <1>3, ObserveWrites, ObserveKeeps DEF Grows
<1>4. CASE Rest
  BY <1>0, <1>4 DEF Rest, vars, Grows
<1> QED
  BY <1>1, <1>2, <1>3, <1>4 DEF Next

\* A stage a call records is one it carried out.
LEMMA RecordedIsWritten ==
    ASSUME TypeInv, CallInv, WrittenInv, NEW o \in ObserveCalls, NEW x \in Record, Records(o, x),
           x.stage \in Stages
    PROVE  Written(x.stage, ContextOf(o))
<1> DEFINE c == ContextOf(o)
<1>1. x.stage # "failed"
  BY StageNames
<1>2. CASE x.stage = "experience_stored" /\ pc[o] = "discover"
  <2>1. work[o].found # {} /\ work[o].found \subseteq FindStep(store, c)
    BY <1>2, Points DEF CallInv
  <2> QED
    BY <1>2, <2>1 DEF Written, StoredAt
<1>3. ASSUME pc[o] \in Kept PROVE o \in StoredAt(c)
  <2>1. Event(o) \in EventsOf(store) /\ Event(o).id = o
    BY <1>3 DEF WrittenInv, CallInv, UnderWay
  <2> QED
    BY <2>1 DEF StoredAt, FindStep, ContextOf
<1>4. ASSUME pc[o] \in Derived PROVE o \in IdsOf(ledger.transitions)
  BY <1>4, IdsOfEntries DEF WrittenInv
<1>5. CASE x.stage = "experience_stored" /\ pc[o] = "journalExperience"
  BY <1>3, <1>5 DEF Written, Kept
<1>6. CASE x.stage = "transition_stored" /\ pc[o] = "journalTransition"
  BY <1>3, <1>4, <1>6 DEF Written, Kept, Derived
<1>7. CASE x.stage = "state_applied" /\ pc[o] = "journalState"
  <2>1. o \in state.belief.evidence
    BY <1>7 DEF WrittenInv, Applied
  <2> QED
    BY <1>3, <1>7, <2>1 DEF Written, Kept, Derived, Applied
<1>8. CASE x.stage = "replay_indexed" /\ pc[o] = "journalReplay"
  <2>1. o \in replay
    BY <1>8 DEF WrittenInv, Indexed
  <2> QED
    BY <1>3, <1>8, <2>1 DEF Written, Kept, Derived, Applied, Indexed
<1> QED
  BY <1>1, <1>2, <1>5, <1>6, <1>7, <1>8 DEF Records

\* The histories a step leaves: as they were, or one of them longer by a record.
LEMMA StepJournals ==
    ASSUME TypeInv, CallInv, Next
    PROVE  \/ journal' = journal
           \/ \E o \in ObserveCalls, x \in Record : Observe(o) /\ Records(o, x)
<1>1. ASSUME NEW d \in DecideCalls, DecideSnapshot(d) \/ RegisterDecision(d) PROVE journal' = journal
  BY <1>1, DecideStep
<1>2. ASSUME NEW l \in LearnCalls, Learn(l) PROVE journal' = journal
  BY <1>2, LearnStep
<1>3. ASSUME NEW o \in ObserveCalls, Observe(o)
      PROVE  journal' = journal \/ \E x \in Record : Records(o, x)
  BY <1>3, ObserveWrites DEF Writes
<1>4. CASE Rest
  BY <1>4 DEF Rest, vars
<1> QED
  BY <1>1, <1>2, <1>3, <1>4 DEF Next

LEMMA StepKeepsJournal ==
    ASSUME TypeInv, CallInv, RecordInv, WrittenInv, JournalSound, Next
    PROVE  JournalSound'
<1> SUFFICES ASSUME NEW stage \in Stages, NEW c \in Contexts, stage \in StagesOf(journal'[c])
             PROVE  Written(stage, c)'
  BY DEF JournalSound, Journaled
<1>1. Grows
  BY StepKeeps
<1>2. CASE stage \in StagesOf(journal[c])
  BY <1>1, <1>2, WrittenForEver DEF JournalSound, Journaled
<1>3. CASE stage \notin StagesOf(journal[c])
  <2>1. PICK o \in ObserveCalls, x \in Record : Records(o, x)
    BY <1>3, StepJournals
  <2>2. journal[c] \in Seq(Record) /\ journal \in [Contexts -> Seq(Record)]
    BY DEF TypeInv
  <2>3. StagesOf(Append(journal[c], x)) = StagesOf(journal[c]) \cup {x.stage}
    BY <2>2, HistoryAppended
  <2>4. c = ContextOf(o) /\ x.stage = stage
    BY <1>3, <2>1, <2>2, <2>3 DEF Records
  <2> QED
    BY <1>1, <2>1, <2>4, RecordedIsWritten, WrittenForEver
<1> QED
  BY <1>2, <1>3

\* The last stage of a step is never followed by another record.
LastOf == IF HasReplay THEN "replay_indexed" ELSE "state_applied"

LEMMA EndedStays ==
    ASSUME TypeInv, CallInv, ReplayInv, Next, NEW c \in Contexts, LastStage(journal[c]) = LastOf
    PROVE  journal'[c] = journal[c]
<1>1. CASE journal' = journal
  BY <1>1
<1>2. ASSUME NEW o \in ObserveCalls, NEW x \in Record, Records(o, x), ContextOf(o) = c
      PROVE  FALSE
  <2>1. NextStage(journal[c]) = IF HasReplay THEN "nothing" ELSE "replay_indexed"
    BY DEF NextStage, LastOf
  <2>2. CASE x.stage = "failed" /\ pc[o] = "fail" /\ NextStage(History(o)) = work[o].attempted
    <3>1. work[o].attempted \in Stages /\ (~HasReplay => work[o].attempted # "replay_indexed")
      BY <2>2, Points DEF CallInv, ReplayInv
    <3> QED
      BY <1>2, <2>1, <2>2, <3>1, StageNames DEF History
  <2>3. CASE /\ NextStage(History(o)) = x.stage /\ x.stage # "nothing"
             /\ (x.stage = "replay_indexed" => pc[o] = "journalReplay")
    BY <1>2, <2>1, <2>3 DEF History, ReplayInv
  <2> QED
    BY <1>2, <2>2, <2>3 DEF Records
<1>3. ASSUME NEW o \in ObserveCalls, NEW x \in Record, Records(o, x), ContextOf(o) # c
      PROVE  journal'[c] = journal[c]
  BY <1>3 DEF Records, TypeInv
<1> QED
  BY <1>1, <1>2, <1>3, StepJournals

\* One event per step: what is stored under a step is what was stored there first.
LEMMA StoredOnce ==
    ASSUME UseInv, NEW e \in EventsOf(store)
    PROVE  StoredAt(e.context) = {e.id}
  BY DEF UseInv, StoredAt, FindStep

\* A call that returns in this step.
LEMMA ReturnsComplete ==
    ASSUME IInv, NEW o \in ObserveCalls, Observe(o), pc'[o] = "returned", UseInv', Grows,
           NEW c \in Contexts, c = ContextOf(o)
    PROVE  /\ o \in IdsOf(ledger.transitions) \cap state.belief.evidence
           /\ HasReplay => o \in replay
           /\ LastStage(journal'[c]) = LastOf
           /\ StoredAt(c)' = {o}
<1> USE DEF IInv
<1>0. /\ pc \in [Calls -> DecidePoints \cup LearnPoints \cup ObservePoints] /\ o \in Calls
      /\ journal \in [Contexts -> Seq(Record)]
  BY Kinds DEF TypeInv
<1>1. RecordState(o) \/ RecordReplay(o)
  BY <1>0 DEF Observe, Start, ReadHistory, RecordDiscovered, ConsumeDecision,
     StoreExperience, LookAgain, RecordExperience, StoreTransition, RecordTransition,
     AssimilateBelief, CountStep, RecordState, IndexReplay, RecordReplay, RecordFailure,
     RecordStage, Journal, Continue, Handle, Goto
<1>2. PICK stage \in Stages :
        /\ RecordStage(o, pc[o], stage, work[o].transition.at, pc'[o])
        /\ stage = LastOf
        /\ pc[o] \in {"journalState", "journalReplay"}
        /\ stage = "replay_indexed" => pc[o] = "journalReplay"
  <2>1. CASE RecordState(o)
    <3>1. /\ pc[o] = "journalState"
          /\ RecordStage(o, "journalState", "state_applied", work[o].transition.at,
                         IF HasReplay THEN "index" ELSE "returned")
      BY <2>1 DEF RecordState, RecordStage
    <3>2. pc'[o] \in {IF HasReplay THEN "index" ELSE "returned", "raised"}
      BY <1>0, <3>1 DEF RecordStage, Journal, Continue, Goto
    <3>3. ~HasReplay
      BY <3>2
    <3> QED
      BY <3>1, <3>3, StageNames DEF LastOf
  <2>2. CASE RecordReplay(o)
    <3>1. /\ pc[o] = "journalReplay"
          /\ RecordStage(o, "journalReplay", "replay_indexed", work[o].transition.at, "returned")
      BY <2>2 DEF RecordReplay, RecordStage
    <3>2. HasReplay
      BY <3>1 DEF ReplayInv
    <3> QED
      BY <3>1, <3>2, StageNames DEF LastOf
  <2> QED
    BY <1>1, <2>1, <2>2
<1>3. pc[o] \in Applied /\ pc[o] \in Derived /\ pc[o] \in Kept /\ pc[o] \in UnderWay
  BY <1>2 DEF Applied, Derived, Kept, UnderWay, Indexed
<1>4. /\ o \in IdsOf(ledger.transitions) \cap state.belief.evidence
      /\ HasReplay => o \in replay
      /\ Event(o) \in EventsOf(store)
  BY <1>2, <1>3, IdsOfEntries DEF WrittenInv, Indexed, LastOf
<1>5. Event(o) \in StoredEvent /\ Event(o).id = o
  BY <1>3 DEF CallInv
<1>6. LastStage(journal'[c]) = LastOf
  <2> DEFINE x == StageRecord(stage, o, work[o].transition.at)
  <2>1. x \in Record /\ x.stage = stage
    BY LocalTypes, RecordTypes DEF StageRecord, IInv
  <2>2. journal' = [journal EXCEPT ![c] = Append(@, x)]
    <3>1. ~Continue(o, "raised")
      BY <1>0 DEF Continue, Goto
    <3> QED
      BY <1>2, <3>1 DEF RecordStage, Journal
  <2>3. LastStage(Append(journal[c], x)) = x.stage
    BY <1>0, <2>1, HistoryAppended
  <2>4. journal'[c] = Append(journal[c], x)
    BY <1>0, <2>2
  <2> QED
    BY <1>2, <2>1, <2>3, <2>4
<1>7. StoredAt(c)' = {o}
  <2>1. Event(o) \in EventsOf(store') /\ Event(o).context = c
    BY <1>4 DEF Grows, ContextOf
  <2>2. \A e \in EventsOf(store') : e.context = c => e = Event(o)
    BY <2>1 DEF UseInv
  <2> QED
    BY <1>5, <2>1, <2>2 DEF StoredAt, FindStep
<1> QED
  BY <1>4, <1>6, <1>7

LEMMA StepKeepsReturned ==
    ASSUME IInv, Next, UseInv'
    PROVE  ReturnedIsComplete'
<1> USE DEF IInv
<1>0. Grows
  BY StepKeeps
<1> SUFFICES ASSUME NEW o \in ObserveCalls, pc'[o] = "returned"
             PROVE  /\ o \in IdsOf(ledger'.transitions) \cap state'.belief.evidence
                    /\ HasReplay => o \in replay'
                    /\ \E c \in Contexts : StoredAt(c)' = {o} /\ LastStage(journal'[c]) = LastOf
  BY DEF ReturnedIsComplete, LastOf
<1>1. CASE pc[o] = "returned"
  <2>1. PICK c \in Contexts : StoredAt(c) = {o} /\ LastStage(journal[c]) = LastOf
    BY <1>1 DEF ReturnedIsComplete, LastOf
  <2>2. LastStage(journal'[c]) = LastOf
    BY <2>1, EndedStays
  <2>3. PICK e \in EventsOf(store) : e.context = c /\ e.id = o
    BY <2>1 DEF StoredAt, FindStep
  <2>4. e \in EventsOf(store')
    BY <1>0 DEF Grows
  <2>5. StoredAt(c)' = {o}
    <3>1. \A f \in EventsOf(store') : f.context = c => f = e
      BY <2>3, <2>4 DEF UseInv
    <3> QED
      BY <2>3, <2>4, <3>1 DEF StoredAt, FindStep
  <2> QED
    BY <1>0, <1>1, <2>2, <2>5 DEF Grows, ReturnedIsComplete
<1>2. CASE pc[o] # "returned"
  <2>1. ASSUME NEW d \in DecideCalls, DecideSnapshot(d) \/ RegisterDecision(d) PROVE pc'[o] = pc[o]
    BY <2>1, DecideStep, Kinds DEF TypeInv
  <2>2. ASSUME NEW l \in LearnCalls, Learn(l) PROVE pc'[o] = pc[o]
    BY <2>2, LearnStep, Kinds DEF TypeInv
  <2>3. ASSUME NEW p \in ObserveCalls, Observe(p), p # o PROVE pc'[o] = pc[o]
    BY <2>3, ObserveStep, Kinds
  <2>4. ASSUME Rest PROVE pc'[o] = pc[o]
    BY <2>4 DEF Rest, vars
  <2>5. Observe(o)
    BY <1>2, <2>1, <2>2, <2>3, <2>4 DEF Next
  <2>6. pc[o] \in UnderWay
    <3>1. pc[o] # "start"
      BY <2>5, Kinds DEF TypeInv, Observe, Start, ReadHistory, RecordDiscovered, ConsumeDecision,
         StoreExperience, LookAgain, RecordExperience, StoreTransition, RecordTransition,
         AssimilateBelief, CountStep, RecordState, IndexReplay, RecordReplay, RecordFailure,
         RecordStage, Goto
    <3>2. pc[o] \notin Terminal
      BY <2>5, Points DEF Observe, Start, ReadHistory, RecordDiscovered, ConsumeDecision,
         StoreExperience, LookAgain, RecordExperience, StoreTransition, RecordTransition,
         AssimilateBelief, CountStep, RecordState, IndexReplay, RecordReplay, RecordFailure,
         RecordStage, Terminal
    <3> QED
      BY <3>1, <3>2, Points DEF TypeInv, Terminal
  <2>7. ContextOf(o) \in Contexts
    BY <2>6 DEF CallInv, ContextOf, StoredEvent
  <2>8. PICK c \in Contexts : c = ContextOf(o)
    BY <2>7
  <2> QED
    BY <1>0, <2>5, <2>8, ReturnsComplete DEF Grows
<1> QED
  BY <1>1, <1>2

-----------------------------------------------------------------------------
(* The invariant holds.                                                    *)

LEMMA InitInvariant == Init => IInv
<1> SUFFICES ASSUME Init PROVE IInv
  OBVIOUS
<1>0. 0 \in Ticks
  BY MaxTickAssumption DEF Ticks
<1>1. /\ pc = [c \in Calls |-> IF c \in DecideCalls THEN "snapshot"
                               ELSE IF c \in LearnCalls THEN "learn" ELSE "start"]
      /\ \A d \in DecideCalls : pc[d] = "snapshot"
      /\ \A l \in LearnCalls : pc[l] = "learn"
      /\ \A o \in ObserveCalls : pc[o] = "start"
  BY Kinds DEF Init
<1>2. EventsOf(store) = {} /\ store \in Seq(StoredEvent)
  BY DEF Init, EventsOf
<1>3. EntriesOf(ledger.transitions) = {InitTransition} /\ EntriesOf(ledger.updates) = {}
  BY DEF Init, EntriesOf
<1>4. TypeInv
  <2>1. state \in AgentStates
    BY <1>0, InitialTypes, Kinds DEF Init, AgentStates
  <2>2. ledger \in Ledgers
    <3>1. <<InitTransition>> \in Seq(Transition)
      BY InitialTypes
    <3> QED
      BY <1>0, <3>1 DEF Init, Ledgers
  <2>3. journal \in [Contexts -> Seq(Record)]
    BY DEF Init
  <2>4. made \in [DecideCalls -> Decision] /\ work \in [ObserveCalls -> Locals]
    BY InitialTypes DEF Init
  <2>5. pc \in [Calls -> DecidePoints \cup LearnPoints \cup ObservePoints]
    BY <1>1 DEF DecidePoints, LearnPoints, ObservePoints
  <2>6. replay = {}
    BY DEF Init
  <2> QED
    BY <1>1, <1>2, <2>1, <2>2, <2>3, <2>4, <2>5, <2>6
       DEF TypeInv, DecidePoints, LearnPoints, ObservePoints
<1>5. \A o \in ObserveCalls : pc[o] \notin UnderWay /\ pc[o] \notin Kept /\ pc[o] \notin Derived
                              /\ pc[o] \notin Applied /\ pc[o] \notin Indexed
  BY <1>1, Points DEF Kept, Derived, Applied, Indexed
<1>6. CallInv
  BY <1>1, <1>5 DEF CallInv
<1>7. RecordInv
  <2>1. state.belief = InitBelief /\ \A d \in DecideCalls : made[d].belief = InitBelief
    BY DEF Init, NoDecision
  <2>2. InitTransition.posterior = InitBelief /\ InitTransition.id = Genesis /\ InitBelief.id = Genesis
        /\ InitBelief.evidence = {Genesis}
    BY DEF InitTransition, InitBelief
  <2>3. Backed({Genesis})
    BY DEF Backed
  <2> QED
    BY <1>3, <2>1, <2>2, <2>3 DEF RecordInv, OfRecord
<1>8. WrittenInv
  BY <1>5 DEF WrittenInv
<1>9. UseInv
  BY <1>1, <1>2 DEF Init, UseInv
<1>10. JournalSound
  BY DEF Init, JournalSound, Journaled, StagesOf
<1>11. ReplayInv
  BY <1>1 DEF Init, ReplayInv, NoWork
<1>12. ReturnedIsComplete
  BY <1>1 DEF ReturnedIsComplete
<1> QED
  BY <1>4, <1>6, <1>7, <1>8, <1>9, <1>10, <1>11, <1>12 DEF IInv

LEMMA NextInvariant == IInv /\ [Next]_vars => IInv'
<1> SUFFICES ASSUME IInv, [Next]_vars PROVE IInv'
  OBVIOUS
<1>1. CASE Next
  <2>1. TypeInv' /\ CallInv'
    <3>1. ASSUME NEW d \in DecideCalls, DecideSnapshot(d) \/ RegisterDecision(d)
          PROVE  TypeInv' /\ CallInv'
      BY <3>1, DecideStep DEF IInv
    <3>2. ASSUME NEW l \in LearnCalls, Learn(l) PROVE TypeInv' /\ CallInv'
      BY <3>2, LearnStep DEF IInv
    <3>3. ASSUME NEW o \in ObserveCalls, Observe(o) PROVE TypeInv' /\ CallInv'
      BY <3>3, ObserveStep DEF IInv
    <3>4. CASE Rest
      BY <3>4 DEF IInv, Rest, vars, TypeInv, CallInv, Event, ContextOf
    <3> QED
      BY <1>1, <3>1, <3>2, <3>3, <3>4 DEF Next
  <2>2. RecordInv' /\ WrittenInv' /\ UseInv' /\ JournalSound' /\ ReplayInv'
    BY <1>1, StepKeepsRecords, StepKeepsWritten, StepKeepsUse, StepKeepsJournal, StepKeepsReplay
       DEF IInv
  <2>3. ReturnedIsComplete'
    BY <1>1, <2>2, StepKeepsReturned
  <2> QED
    BY <2>1, <2>2, <2>3 DEF IInv
<1>2. CASE UNCHANGED vars
  <2>1. TypeInv' /\ CallInv' /\ UseInv' /\ WrittenInv' /\ ReplayInv'
    BY <1>2 DEF IInv, vars, TypeInv, CallInv, Event, ContextOf, UseInv, WrittenInv, ReplayInv
  <2>2. RecordInv'
    BY <1>2 DEF IInv, vars, RecordInv, Backed, OfRecord
  <2>3. JournalSound' /\ ReturnedIsComplete'
    BY <1>2 DEF IInv, vars, JournalSound, ReturnedIsComplete, Journaled, Written, StoredAt
  <2> QED
    BY <2>1, <2>2, <2>3 DEF IInv
<1> QED
  BY <1>1, <1>2

LEMMA Invariant == Spec => []IInv
  BY InitInvariant, NextInvariant, PTL DEF Spec

\* Every variable keeps its type, the local ones of the calls included.
THEOREM InteractionTypes == Spec => []TypeOK
<1>1. IInv => TypeOK
  <2> SUFFICES ASSUME IInv PROVE TypeOK
    OBVIOUS
  <2>1. TypeInv
    BY DEF IInv
  <2>2. EntriesOf(ledger.transitions) \subseteq Transition /\ EventsOf(store) \subseteq StoredEvent
    BY <2>1, EntryTypes DEF TypeInv, Ledgers, EntriesOf, EventsOf
  <2>3. \A c \in Contexts : {journal[c][i] : i \in DOMAIN journal[c]} \subseteq Record
    BY <2>1, EntryTypes DEF TypeInv
  <2> QED
    BY <2>1, <2>2, <2>3 DEF TypeInv, TypeOK, AgentStates
<1> QED
  BY <1>1, Invariant, PTL

\* However many callers observe a decision, and however often, it leads to one stored
\* experience at most.
THEOREM DecisionAlwaysUsedOnce == Spec => []DecisionUsedOnce
<1>1. IInv => DecisionUsedOnce
  <2> SUFFICES ASSUME IInv, NEW d \in DecideCalls
               PROVE  Cardinality({e \in EventsOf(store) : e.decision = d}) <= 1
    BY DEF DecisionUsedOnce
  <2> DEFINE S == {e \in EventsOf(store) : e.decision = d}
  <2>1. \A e, f \in S : e = f
    BY DEF IInv, UseInv
  <2>2. CASE S = {}
    BY <2>2, FS_EmptySet
  <2>3. CASE S # {}
    <3>1. PICK e \in S : TRUE
      BY <2>3
    <3> HIDE DEF S
    <3>2. S = {e}
      BY <2>1, <3>1
    <3>3. Cardinality(S) = 1
      BY <3>2, FS_Singleton
    <3> QED
      BY <3>3 DEF S
  <2> QED
    BY <2>2, <2>3
<1> QED
  BY <1>1, Invariant, PTL

\* A stage the journal shows was carried out and stays so, whoever else was at work.
THEOREM JournalAlwaysSound == Spec => []JournalSound
<1>1. IInv => JournalSound
  BY DEF IInv
<1> QED
  BY <1>1, Invariant, PTL

\* The belief never rests on anything but stored transitions of stored experience.
THEOREM BeliefAlwaysBacked == Spec => []BeliefIsBacked
<1>1. IInv => BeliefIsBacked
  BY RecordedIsBacked DEF IInv, RecordInv, Backed, BeliefIsBacked
<1> QED
  BY <1>1, Invariant, PTL

\* A call that returned has its step complete in every participant and in the journal.
THEOREM ReturnedAlwaysComplete == Spec => []ReturnedIsComplete
<1>1. IInv => ReturnedIsComplete
  BY DEF IInv
<1> QED
  BY <1>1, Invariant, PTL

-----------------------------------------------------------------------------
(* Callers that take turns, over a store that can be asked for a step: the  *)
(* journal is exact.                                                       *)

\* The journal shows what was written of a step.
ExactAt(c) ==
    LET shown == StagesOf(journal[c]) IN
    /\ StoredAt(c) # {} => "experience_stored" \in shown
    /\ StoredAt(c) \cap IdsOf(ledger.transitions) # {} => "transition_stored" \in shown
    /\ StoredAt(c) \cap state.belief.evidence # {} =>
         "state_applied" \in shown \/ StoredAt(c) \subseteq LearnedEvidence
    /\ StoredAt(c) \cap replay # {} => "replay_indexed" \in shown

\* Nothing of a step was recorded, and nothing written but perhaps its experience.
OnlyStored(c) ==
    /\ StoredAt(c) \cap IdsOf(ledger.transitions) = {}
    /\ StoredAt(c) \cap state.belief.evidence = {}
    /\ StoredAt(c) \cap replay = {}

\* A history that ends with a stage, at a time, after the stages before it.
Reached(h, stage, at, before) ==
    LastStage(h) = stage /\ LastAt(h) = at /\ before \cup {stage} \subseteq StagesOf(h)

\* Where the only call under way stands with its step c: what it has recorded, and what
\* it has written and not recorded yet.
Stand(o, c) ==
    LET h == journal[c]
        t == work[o].transition
    IN  /\ pc[o] = "history" =>
             /\ work[o].found = FindStep(store, c)
             /\ ExactAt(c) \/ (h = <<>> /\ OnlyStored(c))
        /\ pc[o] \in {"discover", "lookAgain", "journalExperience"} => h = <<>> /\ OnlyStored(c)
        /\ pc[o] \in {"consume", "append"} => h = <<>> /\ StoredAt(c) = {}
        /\ pc[o] \in Kept => StoredAt(c) = {o}
        /\ pc[o] = "derive" => OnlyStored(c)
        /\ pc[o] \in {"derive", "journalTransition"} =>
             Reached(h, "experience_stored", Event(o).closed, {})
        /\ pc[o] \in Derived => Event(o).closed <= t.at /\ t.posterior.formed <= t.at
        /\ pc[o] \in {"journalTransition", "assimilate"} => o \notin state.belief.evidence
        /\ pc[o] \in {"assimilate", "account", "journalState"} =>
             Reached(h, "transition_stored", t.at, {"experience_stored"})
        /\ pc[o] \in {"account", "journalState"} => "state_applied" \notin StagesOf(h)
        /\ pc[o] = "account" => state.lastTime = t.posterior.formed
        /\ pc[o] \in {"index", "journalReplay"} =>
             Reached(h, "state_applied", t.at, {"experience_stored", "transition_stored"})
        /\ pc[o] \in Derived \ Indexed => o \notin replay
        /\ pc[o] = "fail" => ExactAt(c)

\* Points at which a call has stored no transition and indexed nothing.
Underived == {"start", "history", "discover", "consume", "append", "lookAgain",
              "journalExperience", "derive"}

\* The identity of a call is new to each participant until the call writes it there.
FreshInv ==
    /\ \A o \in ObserveCalls :
         /\ pc[o] \in Underived => o \notin IdsOf(ledger.transitions) /\ o \notin replay
         /\ pc[o] \in Early \cup {"start"} =>
              \A e \in EventsOf(store) : e.id = o => pc[o] # "start" /\ e = Event(o)
    /\ \A e, f \in EventsOf(store) : e.id = f.id => e = f

IsUnderWay(c) == pc[c] \notin Terminal \cup Waiting

Alone == \A c, b \in Calls : IsUnderWay(c) /\ IsUnderWay(b) => c = b

\* Steps no call is at work on are exactly recorded.
RestExact ==
    \A c \in Contexts :
      (\A o \in ObserveCalls : pc[o] \in UnderWay => ContextOf(o) # c) => ExactAt(c)

\* A step that was applied is counted before it is recorded.
Counted ==
    /\ IsFiniteSet(Journaled("state_applied"))
    /\ state.steps = Cardinality(Journaled("state_applied"))
                       + (IF \E o \in ObserveCalls : pc[o] = "journalState" THEN 1 ELSE 0)

TurnInv ==
    /\ Alone /\ FreshInv /\ RestExact /\ Counted
    /\ \A o \in ObserveCalls : pc[o] \in UnderWay => Stand(o, ContextOf(o))

\* A step no call is at work on stays as exact as it was.
LEMMA OthersExact ==
    ASSUME IInv, FreshInv, NEW o \in ObserveCalls, Observe(o), pc[o] \in UnderWay,
           NEW d \in Contexts, d # ContextOf(o), ExactAt(d)
    PROVE  ExactAt(d)'
<1> USE DEF IInv
<1>1. Writes(o) /\ Event(o) \in StoredEvent
  BY ObserveWrites DEF CallInv
<1>2. journal'[d] = journal[d]
  BY <1>1 DEF Writes, Records, TypeInv
<1>3. StoredAt(d)' = StoredAt(d)
  <2>1. CASE store' = store
    BY <2>1 DEF StoredAt, FindStep
  <2>2. CASE store' = Append(store, Event(o))
    <3>1. EventsOf(store') = EventsOf(store) \cup {Event(o)}
      BY <1>1, <2>2, EventsAppended DEF TypeInv
    <3> QED
      BY <3>1 DEF StoredAt, FindStep, ContextOf
  <2> QED
    BY <1>1, <2>1, <2>2 DEF Writes
<1>4. pc[o] \in Kept => o \notin StoredAt(d)
  <2> SUFFICES ASSUME pc[o] \in Kept PROVE o \notin StoredAt(d)
    OBVIOUS
  <2>1. Event(o) \in EventsOf(store) /\ Event(o).id = o
    BY DEF WrittenInv, CallInv
  <2> QED
    BY <2>1 DEF FreshInv, StoredAt, FindStep, ContextOf
<1>5. LearnedEvidence' = LearnedEvidence
  BY <1>1, ObserveKeeps DEF LearnedEvidence, EntriesOf
<1>6. StoredAt(d) \cap IdsOf(ledger'.transitions) = StoredAt(d) \cap IdsOf(ledger.transitions)
  <2>1. CASE ledger' = ledger
    BY <2>1
  <2>2. CASE pc[o] = "derive" /\ \E t \in Transition : Derives(o, t)
    <3>1. PICK t \in Transition : Derives(o, t)
      BY <2>2
    <3>2. IdsOf(ledger'.transitions) = IdsOf(ledger.transitions) \cup {o}
      <4>1. ledger' = AppendTransition(ledger, t) /\ t.id = o
        BY <3>1 DEF Derives
      <4> QED
        BY <4>1, TransitionAppended DEF TypeInv
    <3> QED
      BY <1>4, <2>2, <3>2 DEF Kept
  <2> QED
    BY <1>1, <2>1, <2>2 DEF Writes
<1>7. StoredAt(d) \cap replay' = StoredAt(d) \cap replay
  BY <1>1, <1>4 DEF Writes, Kept, Derived, Applied
<1>8. StoredAt(d) \cap state'.belief.evidence = StoredAt(d) \cap state.belief.evidence
  <2>1. CASE state'.belief = state.belief
    BY <2>1
  <2>2. CASE pc[o] = "assimilate" /\ state' = Assimilate(state, work[o].transition)
             /\ AssimilateAccepts(state, work[o].transition)
    <3>1. state'.belief.evidence = state.belief.evidence \cup {o}
      BY <2>2, AssimilateExtends
    <3> QED
      BY <1>4, <2>2, <3>1 DEF Kept, Derived
  <2> QED
    BY <1>1, <2>1, <2>2 DEF Writes
<1> QED
  BY <1>2, <1>3, <1>5, <1>6, <1>7, <1>8 DEF ExactAt

\* What stays when a step writes nothing but a record of its journal.
Unwritten == UNCHANGED <<state, ledger, store, replay>>

LEMMA SameWrites ==
    ASSUME store' = store, NEW c
    PROVE  /\ StoredAt(c)' = StoredAt(c)
           /\ FindStep(store', c) = FindStep(store, c)
           /\ ledger' = ledger => LearnedEvidence' = LearnedEvidence
  BY DEF StoredAt, FindStep, LearnedEvidence

\* A call goes on with its step, or ends and leaves it exactly recorded.
Good(o, c) ==
    \/ pc'[o] \in UnderWay /\ ContextOf(o)' = c /\ Stand(o, c)'
    \/ pc'[o] \in Terminal /\ ExactAt(c)'

LEMMA Moving ==
    ASSUME IInv, NEW o \in ObserveCalls
    PROVE  /\ o \in Calls /\ journal \in [Contexts -> Seq(Record)]
           /\ \A to : Goto(o, to) => pc'[o] = to
           /\ \A to : Continue(o, to) => pc'[o] = to /\ (to \notin Terminal => work' = work)
<1>1. o \in Calls /\ pc \in [Calls -> DecidePoints \cup LearnPoints \cup ObservePoints]
  BY Kinds DEF IInv, TypeInv
<1> QED
  BY <1>1 DEF IInv, TypeInv, Goto, Continue

\* Steps that look and steps that take the decision.
LEMMA LooksWell ==
    ASSUME IInv, StepStore, NEW o \in ObserveCalls, NEW c \in Contexts, c = ContextOf(o), Stand(o, c),
           ReadHistory(o) \/ ConsumeDecision(o) \/ LookAgain(o)
    PROVE  Good(o, c)
<1> USE Moving
<1>1. UNCHANGED <<ledger, store, replay, journal>> /\ state'.belief = state.belief
  <2>1. \A d : Consume(state, d).belief = state.belief
    BY DEF Consume, IInv, TypeInv, AgentStates
  <2> QED
    BY <2>1 DEF ReadHistory, ConsumeDecision, LookAgain
<1>2. /\ StoredAt(c)' = StoredAt(c) /\ FindStep(store', c) = FindStep(store, c)
      /\ ExactAt(c)' <=> ExactAt(c)
      /\ OnlyStored(c)' <=> OnlyStored(c)
  BY <1>1, SameWrites DEF ExactAt, OnlyStored
<1>3. StoredAt(c) = {} => ExactAt(c) /\ OnlyStored(c)
  BY DEF ExactAt, OnlyStored
<1>4. StoredAt(c) = {} <=> FindStep(store, c) = {}
  BY DEF StoredAt
<1>5. CASE ReadHistory(o)
  <2>1. /\ work[o].found = FindStep(store, c)
        /\ ExactAt(c) \/ (journal[c] = <<>> /\ OnlyStored(c))
    BY <1>5 DEF ReadHistory, Stand
  <2>2. CASE journal[c] # <<>> /\ Continue(o, "already")
    BY <1>2, <2>1, <2>2 DEF Good, Terminal
  <2>3. CASE journal[c] = <<>> /\ work[o].found # {} /\ Continue(o, "discover")
    <3>1. ExactAt(c) => StagesOf(journal[c]) # {}
      BY <1>4, <2>1, <2>3 DEF ExactAt
    <3>2. StagesOf(journal[c]) = {}
      BY <2>3 DEF StagesOf
    <3>3. pc'[o] = "discover" /\ work' = work
      BY <2>3 DEF Terminal
    <3>4. journal'[c] = <<>> /\ OnlyStored(c)'
      BY <1>1, <1>2, <2>1, <2>3, <3>1, <3>2
    <3> QED
      BY <3>3, <3>4 DEF Good, Stand, UnderWay, Early, Kept, Derived, Applied, Indexed, ContextOf, Event
  <2>4. CASE journal[c] = <<>> /\ work[o].found = {} /\ Continue(o, "consume")
    <3>1. pc'[o] = "consume" /\ work' = work
      BY <2>4 DEF Terminal
    <3>2. journal'[c] = <<>> /\ StoredAt(c)' = {}
      BY <1>1, <1>2, <1>4, <2>1, <2>4
    <3> QED
      BY <3>1, <3>2 DEF Good, Stand, UnderWay, Early, Kept, Derived, Applied, Indexed, ContextOf, Event
  <2> QED
    BY <1>5, <2>2, <2>3, <2>4 DEF ReadHistory, History
<1>6. CASE ConsumeDecision(o)
  <2>1. journal[c] = <<>> /\ StoredAt(c) = {}
    BY <1>6 DEF ConsumeDecision, Stand
  <2>2. CASE Continue(o, "append")
    <3>1. pc'[o] = "append" /\ work' = work
      BY <2>2 DEF Terminal
    <3>2. journal'[c] = <<>> /\ StoredAt(c)' = {}
      BY <1>1, <1>2, <2>1
    <3> QED
      BY <3>1, <3>2 DEF Good, Stand, UnderWay, Early, Kept, Derived, Applied, Indexed, ContextOf, Event
  <2>3. CASE Continue(o, "unknown")
    BY <1>2, <1>3, <2>1, <2>3 DEF Good, Terminal
  <2> QED
    BY <1>6, <2>2, <2>3 DEF ConsumeDecision
<1>7. CASE LookAgain(o)
  <2>1. journal[c] = <<>> /\ OnlyStored(c) /\ Find(c) = FindStep(store, c)
    BY <1>7 DEF LookAgain, Stand, Find
  <2>2. CASE Find(c) = {} /\ Handle(o, "experience_stored")
    <3>1. pc'[o] = "fail" /\ work'[o].event = work[o].event
      <4>1. work \in [ObserveCalls -> Locals]
        BY DEF IInv, TypeInv
      <4> QED
        BY <2>2, <4>1 DEF Handle, Locals
    <3>2. ExactAt(c)'
      BY <1>2, <1>3, <1>4, <2>1, <2>2
    <3> QED
      BY <3>1, <3>2 DEF Good, Stand, UnderWay, Early, Kept, Derived, Applied, Indexed, ContextOf, Event
  <2>3. CASE work' = [work EXCEPT ![o].found = Find(c)] /\ Goto(o, "history")
    <3>1. work'[o].event = work[o].event /\ work'[o].found = FindStep(store', c)
      <4>1. work \in [ObserveCalls -> Locals]
        BY DEF IInv, TypeInv
      <4> QED
        BY <1>2, <2>1, <2>3, <4>1 DEF Locals
    <3>2. pc'[o] = "history"
      BY <2>3
    <3>3. journal'[c] = <<>> /\ OnlyStored(c)'
      BY <1>1, <1>2, <2>1
    <3> QED
      BY <3>1, <3>2, <3>3
      DEF Good, Stand, UnderWay, Early, Kept, Derived, Applied, Indexed, ContextOf, Event
  <2> QED
    BY <1>7, <2>2, <2>3 DEF LookAgain
<1> QED
  BY <1>5, <1>6, <1>7

\* What a record adds to the history of the call's step.
LEMMA RecordAdds ==
    ASSUME IInv, NEW o \in ObserveCalls, NEW c \in Contexts, c = ContextOf(o), NEW x \in Record,
           journal' = [journal EXCEPT ![ContextOf(o)] = Append(@, x)]
    PROVE  /\ StagesOf(journal'[c]) = StagesOf(journal[c]) \cup {x.stage}
           /\ LastStage(journal'[c]) = x.stage /\ LastAt(journal'[c]) = x.at
<1>1. journal[c] \in Seq(Record) /\ journal'[c] = Append(journal[c], x)
  BY DEF IInv, TypeInv
<1> QED
  BY <1>1, HistoryAppended

\* A stage added to the history of the call's step.
StageAdded(o, c, stage, at, to) ==
    /\ pc'[o] = to /\ (to \notin Terminal => work' = work)
    /\ Unwritten /\ StoredAt(c)' = StoredAt(c)
    /\ StagesOf(journal'[c]) = StagesOf(journal[c]) \cup {stage}
    /\ LastStage(journal'[c]) = stage /\ LastAt(journal'[c]) = at
    /\ \A d \in Contexts \ {c} : journal'[d] = journal[d]

LEMMA StageAdds ==
    ASSUME IInv, NEW o \in ObserveCalls, NEW c \in Contexts, c = ContextOf(o),
           NEW from, NEW stage \in Stages, NEW at \in Ticks, NEW to,
           RecordStage(o, from, stage, at, to),
           NextStage(journal[c]) = stage, journal[c] # <<>> => at >= LastAt(journal[c])
    PROVE  StageAdded(o, c, stage, at, to)
<1> DEFINE x == StageRecord(stage, o, at)
<1>1. StageAccepts(History(o), stage, at)
  BY DEF StageAccepts, CausalAppend, History, LastAt
<1>2. /\ journal' = [journal EXCEPT ![ContextOf(o)] = Append(@, x)]
      /\ Continue(o, to) /\ UNCHANGED <<state, ledger, store, replay, made>>
  BY <1>1 DEF RecordStage, Journal
<1>3. x \in Record /\ x.stage = stage /\ x.at = at
  BY RecordTypes DEF StageRecord
<1> HIDE DEF x
<1>4. pc'[o] = to /\ (to \notin Terminal => work' = work)
  BY <1>2, Moving
<1>5. /\ StagesOf(journal'[c]) = StagesOf(journal[c]) \cup {stage}
      /\ LastStage(journal'[c]) = stage /\ LastAt(journal'[c]) = at
  BY <1>2, <1>3, RecordAdds
<1>6. \A d \in Contexts \ {c} : journal'[d] = journal[d]
  BY <1>2 DEF IInv, TypeInv
<1>7. Unwritten /\ StoredAt(c)' = StoredAt(c)
  BY <1>2, SameWrites DEF Unwritten
<1> QED
  BY <1>4, <1>5, <1>6, <1>7 DEF StageAdded

\* What a stored event and an empty history look like.
LEMMA FoundAppended ==
    ASSUME NEW s, NEW t, NEW e, EventsOf(t) = EventsOf(s) \cup {e}
    PROVE  FindStep(t, e.context) = FindStep(s, e.context) \cup {e}
  BY DEF FindStep

LEMMA NothingStored ==
    ASSUME NEW c, StoredAt(c) = {}
    PROVE  FindStep(store, c) = {}
  BY DEF StoredAt

LEMMA EmptyHistory ==
    ASSUME NEW h, h = <<>>
    PROVE  NextStage(h) = "experience_stored" /\ StagesOf(h) = {} /\ LastAt(h) = 0
  BY DEF NextStage, LastStage, StagesOf, LastAt

\* The experience: discovered, stored, recorded.
LEMMA StoresWell ==
    ASSUME IInv, FreshInv, NEW o \in ObserveCalls, NEW c \in Contexts, c = ContextOf(o), Stand(o, c),
           RecordDiscovered(o) \/ StoreExperience(o) \/ RecordExperience(o)
    PROVE  Good(o, c)
<1> USE Moving
<1>1. CASE RecordDiscovered(o)
  <2>1. journal[c] = <<>> /\ OnlyStored(c)
    BY <1>1 DEF RecordDiscovered, Stand
  <2>2. PICK e \in work[o].found :
          Journal(o, StageAccepts(History(o), "experience_stored", e.closed),
                  StageRecord("experience_stored", e.id, e.closed), "already")
    BY <1>1 DEF RecordDiscovered
  <2>3. e.id \in ObserveCalls /\ e.closed \in Ticks
    BY LocalTypes DEF IInv, Locals, StoredEvent
  <2>4. StageAccepts(History(o), "experience_stored", e.closed)
    BY <2>1, EmptyHistory DEF StageAccepts, CausalAppend, History
  <2> DEFINE x == StageRecord("experience_stored", e.id, e.closed)
  <2>5. /\ journal' = [journal EXCEPT ![ContextOf(o)] = Append(@, x)]
        /\ Continue(o, "already") /\ UNCHANGED <<state, ledger, store, replay, made>>
    BY <2>2, <2>4 DEF Journal
  <2>6. x \in Record /\ x.stage = "experience_stored"
    BY <2>3, StageNames, RecordTypes DEF StageRecord
  <2> HIDE DEF x
  <2>7. "experience_stored" \in StagesOf(journal'[c])
    BY <2>5, <2>6, RecordAdds
  <2>8. ExactAt(c)'
    BY <2>1, <2>5, <2>7, SameWrites DEF ExactAt, OnlyStored
  <2> QED
    BY <2>5, <2>8 DEF Good, Terminal
<1>2. CASE StoreExperience(o)
  <2>1. journal[c] = <<>> /\ StoredAt(c) = {} /\ pc[o] = "append"
    BY <1>2 DEF StoreExperience, Stand
  <2>2. /\ UNCHANGED <<state, ledger, replay, journal, work>>
        /\ pc'[o] \in {"journalExperience", "lookAgain"}
        /\ \/ store' = store /\ pc'[o] = "lookAgain"
           \/ store' = Append(store, Event(o))
    BY <1>2 DEF StoreExperience
  <2>3. /\ o \notin IdsOf(ledger.transitions) /\ o \notin replay
        /\ o \notin state.belief.evidence
    <3>1. o \notin IdsOf(ledger.transitions) /\ o \notin replay
      BY <2>1 DEF FreshInv, Underived
    <3>2. Backed(state.belief.evidence) /\ o # Genesis
      BY RecordedIsBacked, Kinds DEF IInv, RecordInv
    <3> QED
      BY <3>1, <3>2 DEF Backed
  <2>4. CASE store' = store /\ pc'[o] = "lookAgain"
    <3>1. journal'[c] = <<>> /\ OnlyStored(c)'
      BY <2>1, <2>2, <2>4, SameWrites DEF OnlyStored
    <3> QED
      BY <2>2, <2>4, <3>1
      DEF Good, Stand, UnderWay, Early, Kept, Derived, Applied, Indexed, ContextOf, Event
  <2>5. CASE store' = Append(store, Event(o))
    <3>1. StoredAt(c)' = {o}
      <4>1. Event(o) \in StoredEvent /\ Event(o).id = o
        BY <2>1, Points DEF IInv, CallInv
      <4>2. EventsOf(store') = EventsOf(store) \cup {Event(o)}
        BY <2>5, <4>1, EventsAppended DEF IInv, TypeInv
      <4>3. FindStep(store', c) = FindStep(store, c) \cup {Event(o)}
        <5>1. c = Event(o).context
          BY DEF ContextOf
        <5>2. FindStep(store', Event(o).context) = FindStep(store, Event(o).context) \cup {Event(o)}
          BY <4>2, FoundAppended
        <5> QED
          BY <5>1, <5>2
      <4>4. FindStep(store, c) = {}
        BY <2>1, NothingStored
      <4> QED
        BY <4>1, <4>3, <4>4 DEF StoredAt
    <3>2. journal'[c] = <<>> /\ OnlyStored(c)'
      BY <2>1, <2>2, <2>3, <3>1 DEF OnlyStored
    <3> QED
      BY <2>2, <3>1, <3>2
      DEF Good, Stand, UnderWay, Early, Kept, Derived, Applied, Indexed, ContextOf, Event
  <2> QED
    BY <2>2, <2>4, <2>5
<1>3. CASE RecordExperience(o)
  <2>1. journal[c] = <<>> /\ OnlyStored(c) /\ StoredAt(c) = {o}
    BY <1>3 DEF RecordExperience, RecordStage, Stand, Kept
  <2>2. /\ RecordStage(o, "journalExperience", "experience_stored", Event(o).closed, "derive")
        /\ Event(o).closed \in Ticks
    BY <1>3, LocalTypes DEF RecordExperience, IInv, Event
  <2>3. /\ NextStage(journal[c]) = "experience_stored" /\ "experience_stored" \in Stages
        /\ "derive" \notin Terminal /\ (journal[c] # <<>> => Event(o).closed >= LastAt(journal[c]))
    BY <2>1, StageNames, EmptyHistory DEF Terminal
  <2>4. /\ pc'[o] = "derive" /\ work' = work
        /\ Unwritten /\ StoredAt(c)' = StoredAt(c)
        /\ StagesOf(journal'[c]) = StagesOf(journal[c]) \cup {"experience_stored"}
        /\ LastStage(journal'[c]) = "experience_stored" /\ LastAt(journal'[c]) = Event(o).closed
    <3> DEFINE at == Event(o).closed
    <3>1. at \in Ticks /\ (journal[c] # <<>> => at >= LastAt(journal[c]))
      BY <2>2, <2>3
    <3>2. RecordStage(o, "journalExperience", "experience_stored", at, "derive")
      BY <2>2
    <3> HIDE DEF at
    <3>3. StageAdded(o, c, "experience_stored", at, "derive")
      BY <2>3, <3>1, <3>2, StageAdds
    <3> QED
      BY <2>3, <3>3 DEF at, StageAdded
  <2>5. Reached(journal'[c], "experience_stored", Event(o).closed, {})
    BY <2>4 DEF Reached
  <2>6. OnlyStored(c)' /\ StoredAt(c)' = {o}
    BY <2>1, <2>4 DEF OnlyStored, Unwritten
  <2> QED
    BY <2>4, <2>5, <2>6
    DEF Good, Stand, UnderWay, Early, Kept, Derived, Applied, Indexed, ContextOf, Event
<1> QED
  BY <1>1, <1>2, <1>3

\* A refused or failed write: what is written stays exactly recorded.
LEMMA HandlesWell ==
    ASSUME IInv, NEW o \in ObserveCalls, NEW c \in Contexts, c = ContextOf(o),
           NEW attempted, Handle(o, attempted), UNCHANGED <<ledger, store, replay, journal>>,
           state'.belief = state.belief, ExactAt(c)
    PROVE  Good(o, c)
<1>1. pc'[o] = "fail" /\ work'[o].event = work[o].event
  <2>1. work \in [ObserveCalls -> Locals]
    BY DEF IInv, TypeInv
  <2> QED
    BY <2>1, Moving DEF Handle, Locals
<1>2. ExactAt(c)'
  BY SameWrites DEF ExactAt
<1> QED
  BY <1>1, <1>2 DEF Good, Stand, UnderWay, Early, Kept, Derived, Applied, Indexed, ContextOf, Event

\* The transition: stored, recorded.
LEMMA DerivesWell ==
    ASSUME IInv, FreshInv, NEW o \in ObserveCalls, NEW c \in Contexts, c = ContextOf(o), Stand(o, c),
           StoreTransition(o) \/ RecordTransition(o)
    PROVE  Good(o, c)
<1> USE Moving
<1>0. work \in [ObserveCalls -> Locals] /\ Event(o).closed \in Ticks
  BY LocalTypes DEF IInv, TypeInv, Event
<1>1. CASE StoreTransition(o)
  <2>1. /\ StoredAt(c) = {o} /\ OnlyStored(c)
        /\ Reached(journal[c], "experience_stored", Event(o).closed, {})
    BY <1>1 DEF StoreTransition, Stand, Kept
  <2>2. o \notin state.belief.evidence /\ o \notin replay
    BY <2>1 DEF OnlyStored
  <2>3. UNCHANGED <<state, store, replay, journal>> /\ StoredAt(c)' = StoredAt(c)
    BY <1>1, SameWrites DEF StoreTransition
  <2>4. ASSUME NEW formed \in Event(o).closed..MaxTick, NEW at \in formed..MaxTick,
               work' = [work EXCEPT ![o].transition = TransitionOf(o, formed, at)],
               Goto(o, "journalTransition")
        PROVE  Good(o, c)
    <3>1. pc'[o] = "journalTransition"
      BY <2>4
    <3>2. work'[o].event = work[o].event /\ work'[o].transition = TransitionOf(o, formed, at)
      BY <1>0, <2>4 DEF Locals
    <3>3. /\ Event(o).closed <= work'[o].transition.at
          /\ work'[o].transition.posterior.formed <= work'[o].transition.at
      <4>1. Event(o).closed \in Nat /\ MaxTick \in Nat
        BY <1>0, MaxTickAssumption DEF Ticks
      <4>2. formed \in Nat /\ formed <= at /\ Event(o).closed <= at
        BY <4>1
      <4> QED
        BY <3>2, <4>2 DEF TransitionOf
    <3> QED
      BY <2>1, <2>2, <2>3, <3>1, <3>2, <3>3
      DEF Good, Stand, UnderWay, Early, Kept, Derived, Applied, Indexed, ContextOf, Event
  <2>5. CASE Handle(o, "transition_stored") /\ ledger' = ledger
    <3>1. ExactAt(c)
      BY <2>1 DEF ExactAt, OnlyStored, Reached
    <3> QED
      BY <2>3, <2>5, <3>1, HandlesWell
  <2> QED
    BY <1>1, <2>4, <2>5 DEF StoreTransition
<1>2. CASE RecordTransition(o)
  <2> DEFINE at == work[o].transition.at
  <2>1. RecordStage(o, "journalTransition", "transition_stored", at, "assimilate")
    BY <1>2 DEF RecordTransition
  <2>2. /\ StoredAt(c) = {o} /\ o \notin state.belief.evidence /\ o \notin replay
        /\ Event(o).closed <= at /\ work[o].transition.posterior.formed <= at
        /\ Reached(journal[c], "experience_stored", Event(o).closed, {})
    BY <1>2 DEF RecordTransition, RecordStage, Stand, Kept, Derived, Applied, Indexed
  <2>3. at \in Ticks /\ at >= Event(o).closed
    BY <1>0, <2>2, LocalTypes, MaxTickAssumption DEF IInv, Ticks
  <2>4. /\ NextStage(journal[c]) = "transition_stored"
        /\ "transition_stored" \in Stages /\ "assimilate" \notin Terminal
    BY <2>2, StageNames DEF NextStage, Reached, Terminal
  <2>5. /\ pc'[o] = "assimilate" /\ work' = work /\ Unwritten /\ StoredAt(c)' = StoredAt(c)
        /\ Reached(journal'[c], "transition_stored", at, {"experience_stored"})
    <3> HIDE DEF at
    <3>1. at \in Ticks /\ (journal[c] # <<>> => at >= LastAt(journal[c]))
      BY <2>2, <2>3 DEF Reached
    <3>2. StageAdded(o, c, "transition_stored", at, "assimilate")
      BY <2>1, <2>4, <3>1, StageAdds
    <3> QED
      BY <2>2, <2>4, <3>2 DEF Reached, StageAdded
  <2> QED
    BY <2>2, <2>5
    DEF Good, Stand, UnderWay, Early, Kept, Derived, Applied, Indexed, ContextOf, Event, Unwritten
<1> QED
  BY <1>1, <1>2

\* The belief: revised, counted.
LEMMA AssimilatesWell ==
    ASSUME IInv, NEW o \in ObserveCalls, NEW c \in Contexts, c = ContextOf(o), Stand(o, c),
           AssimilateBelief(o) \/ CountStep(o)
    PROVE  Good(o, c)
<1> USE Moving
<1>0. state \in AgentStates
  BY DEF IInv, TypeInv
<1> DEFINE t == work[o].transition
<1>1. /\ StoredAt(c) = {o} /\ o \notin replay
      /\ Event(o).closed <= t.at /\ t.posterior.formed <= t.at
      /\ Reached(journal[c], "transition_stored", t.at, {"experience_stored"})
  BY DEF AssimilateBelief, CountStep, Stand, Kept, Derived, Applied, Indexed
<1>2. UNCHANGED <<ledger, store, replay, journal>> /\ StoredAt(c)' = StoredAt(c)
  BY SameWrites DEF AssimilateBelief, CountStep
<1>3. CASE AssimilateBelief(o)
  <2>1. pc[o] = "assimilate" /\ o \notin state.belief.evidence
    BY <1>3 DEF AssimilateBelief, Stand
  <2>2. "state_applied" \notin StagesOf(journal[c])
    <3>1. ~Written("state_applied", c)
      BY <1>1, <2>1 DEF Written
    <3> QED
      BY <3>1, StageNames DEF IInv, JournalSound, Journaled
  <2>3. CASE state' = Assimilate(state, t) /\ Goto(o, "account") /\ work' = work
    <3>1. state'.lastTime = t.posterior.formed
      BY <1>0, <2>3 DEF Assimilate, AgentStates
    <3>2. pc'[o] = "account"
      BY <2>3
    <3> QED
      BY <1>1, <1>2, <2>2, <2>3, <3>1, <3>2
      DEF Good, Stand, UnderWay, Early, Kept, Derived, Applied, Indexed, ContextOf, Event
  <2>4. CASE Handle(o, "state_applied") /\ state' = state
    <3>1. ExactAt(c)
      BY <1>1, <2>1 DEF ExactAt, Reached
    <3> QED
      BY <1>2, <2>4, <3>1, HandlesWell
  <2> QED
    BY <1>3, <2>3, <2>4 DEF AssimilateBelief
<1>4. CASE CountStep(o)
  <2>1. pc[o] = "account" /\ state.lastTime = t.posterior.formed
        /\ "state_applied" \notin StagesOf(journal[c])
    BY <1>4 DEF CountStep, Stand
  <2>2. AddResourceAccepts(state, t.at)
    <3>1. t.at \in Nat /\ t.posterior.formed \in Nat
      BY LocalTypes, MaxTickAssumption DEF IInv, Ticks
    <3> QED
      BY <1>1, <2>1, <3>1 DEF AddResourceAccepts
  <2>3. pc'[o] = "journalState" /\ work' = work
    BY <1>4, <2>2 DEF CountStep
  <2> QED
    BY <1>1, <1>2, <2>1, <2>3
    DEF Good, Stand, UnderWay, Early, Kept, Derived, Applied, Indexed, ContextOf, Event
<1> QED
  BY <1>3, <1>4

\* The record of the belief is always accepted.
LEMMA StateRecorded ==
    ASSUME IInv, NEW o \in ObserveCalls, NEW c \in Contexts, c = ContextOf(o), Stand(o, c),
           RecordState(o)
    PROVE  StageAdded(o, c, "state_applied", work[o].transition.at,
                      IF HasReplay THEN "index" ELSE "returned")
<1> DEFINE at == work[o].transition.at
           to == IF HasReplay THEN "index" ELSE "returned"
<1>1. RecordStage(o, "journalState", "state_applied", at, to)
  BY DEF RecordState
<1>2. Reached(journal[c], "transition_stored", at, {"experience_stored"})
  BY DEF RecordState, RecordStage, Stand
<1>3. NextStage(journal[c]) = "state_applied" /\ "state_applied" \in Stages
  BY <1>2, StageNames DEF NextStage, Reached
<1>4. at \in Ticks /\ (journal[c] # <<>> => at >= LastAt(journal[c]))
  BY <1>2, LocalTypes, MaxTickAssumption DEF IInv, Ticks, Reached
<1> HIDE DEF at, to
<1>5. StageAdded(o, c, "state_applied", at, to)
  BY <1>1, <1>3, <1>4, StageAdds
<1> QED
  BY <1>5 DEF at, to

\* The belief's record, the replay index and its record, and the failure.
LEMMA EndsWell ==
    ASSUME IInv, NEW o \in ObserveCalls, NEW c \in Contexts, c = ContextOf(o), Stand(o, c),
           RecordState(o) \/ IndexReplay(o) \/ RecordReplay(o)
    PROVE  Good(o, c)
<1> USE Moving
<1> DEFINE t == work[o].transition
           at == work[o].transition.at
<1>1. /\ StoredAt(c) = {o} /\ Event(o).closed <= t.at /\ t.posterior.formed <= t.at
  BY DEF RecordState, IndexReplay, RecordReplay, RecordStage, Stand, Kept, Derived, Applied, Indexed
<1>2. at \in Ticks /\ \A h, s, b : Reached(h, s, at, b) => (h # <<>> => at >= LastAt(h))
  BY LocalTypes, MaxTickAssumption DEF IInv, Ticks, Reached
<1>3. CASE RecordState(o)
  <2> DEFINE to == IF HasReplay THEN "index" ELSE "returned"
  <2>2. /\ Reached(journal[c], "transition_stored", at, {"experience_stored"}) /\ o \notin replay
    BY <1>3 DEF RecordState, RecordStage, Stand, Derived, Applied, Indexed
  <2>5. /\ pc'[o] = to /\ (to \notin Terminal => work' = work)
        /\ Unwritten /\ StoredAt(c)' = StoredAt(c)
        /\ Reached(journal'[c], "state_applied", at, {"experience_stored", "transition_stored"})
    <3>1. StageAdded(o, c, "state_applied", at, to)
      BY <1>3, StateRecorded
    <3> HIDE DEF at, to
    <3> QED
      BY <2>2, <3>1 DEF Reached, StageAdded
  <2>6. CASE HasReplay
    <3>1. pc'[o] = "index" /\ work' = work
      BY <2>5, <2>6 DEF Terminal
    <3> QED
      BY <1>1, <2>2, <2>5, <3>1
      DEF Good, Stand, UnderWay, Early, Kept, Derived, Applied, Indexed, ContextOf, Event, Unwritten
  <2>7. CASE ~HasReplay
    <3>1. ExactAt(c)'
      BY <1>1, <2>2, <2>5 DEF ExactAt, Reached, Unwritten
    <3> QED
      BY <2>5, <2>7, <3>1 DEF Good, Terminal
  <2> QED
    BY <2>6, <2>7
<1>4. CASE IndexReplay(o)
  <2>1. /\ Reached(journal[c], "state_applied", at, {"experience_stored", "transition_stored"})
        /\ o \notin replay
    BY <1>4 DEF IndexReplay, Stand, Derived, Applied, Indexed
  <2>2. UNCHANGED <<state, ledger, store, journal>> /\ StoredAt(c)' = StoredAt(c)
    BY <1>4, SameWrites DEF IndexReplay
  <2>3. CASE Goto(o, "journalReplay") /\ work' = work
    <3>1. pc'[o] = "journalReplay"
      BY <2>3
    <3> QED
      BY <1>1, <2>1, <2>2, <2>3, <3>1
      DEF Good, Stand, UnderWay, Early, Kept, Derived, Applied, Indexed, ContextOf, Event
  <2>4. CASE Handle(o, "replay_indexed") /\ replay' = replay
    <3>1. ExactAt(c)
      BY <1>1, <2>1 DEF ExactAt, Reached
    <3> QED
      BY <2>2, <2>4, <3>1, HandlesWell
  <2> QED
    BY <1>4, <2>3, <2>4 DEF IndexReplay
<1>5. CASE RecordReplay(o)
  <2>1. RecordStage(o, "journalReplay", "replay_indexed", at, "returned")
    BY <1>5 DEF RecordReplay
  <2>2. Reached(journal[c], "state_applied", at, {"experience_stored", "transition_stored"})
    BY <1>5 DEF RecordReplay, RecordStage, Stand
  <2>3. NextStage(journal[c]) = "replay_indexed" /\ "replay_indexed" \in Stages
    BY <2>2, StageNames DEF NextStage, Reached
  <2>4. at \in Ticks /\ (journal[c] # <<>> => at >= LastAt(journal[c]))
    BY <1>2, <2>2
  <2>5. pc'[o] = "returned" /\ StagesOf(journal'[c]) = StagesOf(journal[c]) \cup {"replay_indexed"}
    <3> HIDE DEF at
    <3>1. StageAdded(o, c, "replay_indexed", at, "returned")
      BY <2>1, <2>3, <2>4, StageAdds
    <3> QED
      BY <3>1 DEF StageAdded
  <2>6. ExactAt(c)'
    BY <2>2, <2>5 DEF ExactAt, Reached
  <2> QED
    BY <2>5, <2>6 DEF Good, Terminal
<1> QED
  BY <1>3, <1>4, <1>5

LEMMA FailsWell ==
    ASSUME IInv, NEW o \in ObserveCalls, NEW c \in Contexts, c = ContextOf(o), Stand(o, c),
           RecordFailure(o)
    PROVE  Good(o, c)
<1> USE Moving
<1> DEFINE attempted == work[o].attempted
           at == IF attempted \in {"experience_stored", "transition_stored"}
                 THEN Event(o).closed ELSE work[o].transition.at
           x == FailureRecord(attempted, o, at)
<1>1. /\ ExactAt(c) /\ UNCHANGED <<state, ledger, store, replay>>
      /\ pc[o] = "fail" /\ pc'[o] \in {"failure", "raised"}
      /\ \/ journal' = journal
         \/ journal' = [journal EXCEPT ![ContextOf(o)] = Append(@, x)]
  BY DEF RecordFailure, Journal, Stand
<1>2. x \in Record
  <2>1. attempted \in Stages
    BY <1>1, Points DEF IInv, CallInv
  <2>2. at \in Ticks
    BY LocalTypes DEF IInv, Event
  <2> HIDE DEF attempted, at
  <2> QED
    BY <2>1, <2>2, RecordTypes
<1>3. StagesOf(journal[c]) \subseteq StagesOf(journal'[c])
  <2> HIDE DEF x
  <2>1. CASE journal' = [journal EXCEPT ![ContextOf(o)] = Append(@, x)]
    <3>1. StagesOf(journal'[c]) = StagesOf(journal[c]) \cup {x.stage}
      BY <1>2, <2>1, RecordAdds
    <3> QED
      BY <3>1
  <2> QED
    BY <1>1, <2>1
<1>4. ExactAt(c)'
  BY <1>1, <1>3, SameWrites DEF ExactAt
<1> QED
  BY <1>1, <1>4 DEF Good, Terminal

\* Every step of a call under way.
LEMMA StandsWell ==
    ASSUME IInv, FreshInv, StepStore, NEW o \in ObserveCalls, pc[o] \in UnderWay,
           NEW c \in Contexts, c = ContextOf(o), Stand(o, c), Observe(o)
    PROVE  Good(o, c)
<1>1. ~Start(o)
  BY Points DEF Start
<1> QED
  BY <1>1, LooksWell, StoresWell, DerivesWell, AssimilatesWell, EndsWell, FailsWell DEF Observe

\* Where a call goes: it keeps its event while it is under way, derives once, and counts
\* its step on the way to the record of its belief and nowhere else.
Counts(o) ==
    IF pc'[o] = "journalState"
    THEN pc[o] = "account" /\ state'.steps = state.steps + 1 /\ journal' = journal
    ELSE state'.steps = state.steps

Goes(o) ==
    /\ pc'[o] \in UnderWay => Event(o)' = Event(o)
    /\ pc'[o] \in UnderWay \cup Terminal
    /\ pc'[o] \in Underived => pc[o] \in Underived
    /\ Counts(o)

LEMMA Path ==
    ASSUME IInv, NEW o \in ObserveCalls, Observe(o), pc[o] \in UnderWay
    PROVE  Goes(o)
<1> USE Moving, Points
<1>0. /\ work \in [ObserveCalls -> Locals] /\ state \in AgentStates
      /\ \A to : Continue(o, to) => (pc'[o] \in UnderWay => work' = work)
      /\ \A attempted : Handle(o, attempted) => pc'[o] = "fail" /\ work'[o].event = work[o].event
      /\ \A t : work' = [work EXCEPT ![o].transition = t] => work'[o].event = work[o].event
      /\ \A f : work' = [work EXCEPT ![o].found = f] => work'[o].event = work[o].event
  <2>1. work \in [ObserveCalls -> Locals] /\ state \in AgentStates
    BY DEF IInv, TypeInv
  <2>2. \A to : Continue(o, to) => (pc'[o] \in UnderWay => work' = work)
    BY DEF Continue
  <2>3. \A attempted : Handle(o, attempted) => pc'[o] = "fail" /\ work'[o].event = work[o].event
    BY <2>1 DEF Handle, Locals
  <2> QED
    BY <2>1, <2>2, <2>3 DEF Locals
<1>1. ASSUME NEW d PROVE Consume(state, d).steps = state.steps
  BY <1>0 DEF Consume, AgentStates
<1>2. ASSUME NEW d PROVE Assimilate(state, d).steps = state.steps
  BY <1>0 DEF Assimilate, AgentStates
<1>3. ASSUME NEW d PROVE AddResource(state, d).steps = state.steps + 1
  BY <1>0 DEF AddResource, AgentStates
<1>4. CASE ReadHistory(o)
  <2>1. /\ pc[o] = "history" /\ pc'[o] \in {"already", "discover", "consume"}
        /\ state' = state
        /\ pc'[o] \in UnderWay => work'[o].event = work[o].event
    BY <1>0, <1>4 DEF ReadHistory
  <2> QED
    BY <2>1 DEF Goes, Counts, Underived, Event, Terminal
<1>5. CASE RecordDiscovered(o)
  <2>1. /\ pc[o] = "discover" /\ pc'[o] \in {"already", "raised"}
        /\ state' = state
        /\ pc'[o] \in UnderWay => work'[o].event = work[o].event
    BY <1>0, <1>5 DEF RecordDiscovered, Journal
  <2> QED
    BY <2>1 DEF Goes, Counts, Underived, Event, Terminal
<1>6. CASE ConsumeDecision(o)
  <2>1. /\ pc[o] = "consume" /\ pc'[o] \in {"append", "unknown"}
        /\ (state' = state \/ state' = Consume(state, work[o].decision))
        /\ pc'[o] \in UnderWay => work'[o].event = work[o].event
    BY <1>0, <1>6 DEF ConsumeDecision
  <2> QED
    BY <1>1, <2>1 DEF Goes, Counts, Underived, Event, Terminal
<1>7. CASE StoreExperience(o)
  <2>1. /\ pc[o] = "append" /\ pc'[o] \in {"journalExperience", "lookAgain"}
        /\ state' = state
        /\ pc'[o] \in UnderWay => work'[o].event = work[o].event
    BY <1>0, <1>7 DEF StoreExperience
  <2> QED
    BY <2>1 DEF Goes, Counts, Underived, Event, Terminal
<1>8. CASE LookAgain(o)
  <2>1. /\ pc[o] = "lookAgain" /\ pc'[o] \in {"fail", "history"}
        /\ state' = state
        /\ pc'[o] \in UnderWay => work'[o].event = work[o].event
    BY <1>0, <1>8 DEF LookAgain
  <2> QED
    BY <2>1 DEF Goes, Counts, Underived, Event, Terminal
<1>9. CASE RecordExperience(o)
  <2>1. /\ pc[o] = "journalExperience" /\ pc'[o] \in {"derive", "raised"}
        /\ state' = state
        /\ pc'[o] \in UnderWay => work'[o].event = work[o].event
    BY <1>0, <1>9 DEF RecordExperience, RecordStage, Journal
  <2> QED
    BY <2>1 DEF Goes, Counts, Underived, Event, Terminal
<1>10. CASE StoreTransition(o)
  <2>1. /\ pc[o] = "derive" /\ pc'[o] \in {"journalTransition", "fail"}
        /\ state' = state
        /\ pc'[o] \in UnderWay => work'[o].event = work[o].event
    BY <1>0, <1>10 DEF StoreTransition
  <2> QED
    BY <2>1 DEF Goes, Counts, Underived, Event, Terminal
<1>11. CASE RecordTransition(o)
  <2>1. /\ pc[o] = "journalTransition" /\ pc'[o] \in {"assimilate", "raised"}
        /\ state' = state
        /\ pc'[o] \in UnderWay => work'[o].event = work[o].event
    BY <1>0, <1>11 DEF RecordTransition, RecordStage, Journal
  <2> QED
    BY <2>1 DEF Goes, Counts, Underived, Event, Terminal
<1>12. CASE AssimilateBelief(o)
  <2>1. /\ pc[o] = "assimilate" /\ pc'[o] \in {"account", "fail"}
        /\ (state' = state \/ state' = Assimilate(state, work[o].transition))
        /\ pc'[o] \in UnderWay => work'[o].event = work[o].event
    BY <1>0, <1>12 DEF AssimilateBelief
  <2> QED
    BY <1>2, <2>1 DEF Goes, Counts, Underived, Event, Terminal
<1>13. CASE CountStep(o)
  <2>1. /\ pc[o] = "account" /\ (pc'[o] \in UnderWay => work'[o].event = work[o].event)
        /\ \/ pc'[o] = "journalState" /\ state' = AddResource(state, work[o].transition.at)
              /\ journal' = journal
           \/ pc'[o] = "fail" /\ state' = state
    BY <1>0, <1>13 DEF CountStep
  <2> QED
    BY <1>3, <2>1 DEF Goes, Counts, Underived, Event
<1>14. CASE RecordState(o)
  <2>1. /\ pc[o] = "journalState" /\ pc'[o] \in {"index", "returned", "raised"}
        /\ state' = state
        /\ pc'[o] \in UnderWay => work'[o].event = work[o].event
    BY <1>0, <1>14 DEF RecordState, RecordStage, Journal
  <2> QED
    BY <2>1 DEF Goes, Counts, Underived, Event, Terminal
<1>15. CASE IndexReplay(o)
  <2>1. /\ pc[o] = "index" /\ pc'[o] \in {"journalReplay", "fail"}
        /\ state' = state
        /\ pc'[o] \in UnderWay => work'[o].event = work[o].event
    BY <1>0, <1>15 DEF IndexReplay
  <2> QED
    BY <2>1 DEF Goes, Counts, Underived, Event, Terminal
<1>16. CASE RecordReplay(o)
  <2>1. /\ pc[o] = "journalReplay" /\ pc'[o] \in {"returned", "raised"}
        /\ state' = state
        /\ pc'[o] \in UnderWay => work'[o].event = work[o].event
    BY <1>0, <1>16 DEF RecordReplay, RecordStage, Journal
  <2> QED
    BY <2>1 DEF Goes, Counts, Underived, Event, Terminal
<1>17. CASE RecordFailure(o)
  <2>1. /\ pc[o] = "fail" /\ pc'[o] \in {"failure", "raised"}
        /\ state' = state
        /\ pc'[o] \in UnderWay => work'[o].event = work[o].event
    BY <1>0, <1>17 DEF RecordFailure, Journal
  <2> QED
    BY <2>1 DEF Goes, Counts, Underived, Event, Terminal
<1>18. ~Start(o)
  BY DEF Start, Waiting
<1> QED
  BY <1>4, <1>5, <1>6, <1>7, <1>8, <1>9, <1>10, <1>11,
     <1>12, <1>13, <1>14, <1>15, <1>16, <1>17, <1>18 DEF Observe

\* New identities stay new until they are written.
LEMMA StartKeepsFresh ==
    ASSUME IInv, FreshInv, NEW o \in ObserveCalls, Start(o)
    PROVE  FreshInv'
<1>1. UNCHANGED <<ledger, store, replay>> /\ pc[o] = "start" /\ pc'[o] = "history"
  BY Moving DEF Start
<1>2. \A p \in ObserveCalls : p # o => pc'[p] = pc[p] /\ work'[p] = work[p]
  BY ObserveStep, Kinds DEF IInv, Observe
<1>3. \A p \in ObserveCalls : pc'[p] \in Underived => p \notin IdsOf(ledger'.transitions) /\ p \notin replay'
  BY <1>1, <1>2 DEF FreshInv, Underived
<1>4. \A p \in ObserveCalls : pc'[p] \in Early \cup {"start"} =>
        \A e \in EventsOf(store') : e.id = p => pc'[p] # "start" /\ e = Event(p)'
  <2> SUFFICES ASSUME NEW p \in ObserveCalls, pc'[p] \in Early \cup {"start"},
                      NEW e \in EventsOf(store), e.id = p
               PROVE  pc'[p] # "start" /\ e = Event(p)'
    BY <1>1
  <2>1. p # o
    BY <1>1 DEF FreshInv
  <2> QED
    BY <1>2, <2>1 DEF FreshInv, Event
<1>5. \A e, f \in EventsOf(store') : e.id = f.id => e = f
  BY <1>1 DEF FreshInv
<1> QED
  BY <1>3, <1>4, <1>5 DEF FreshInv

LEMMA ObserveKeepsFresh ==
    ASSUME IInv, FreshInv, NEW o \in ObserveCalls, Observe(o), pc[o] \in UnderWay
    PROVE  FreshInv'
<1> USE DEF IInv
<1>1. Writes(o) /\ Goes(o)
  BY ObserveWrites, Path
<1>2. \A p \in ObserveCalls : p # o => pc'[p] = pc[p] /\ Event(p)' = Event(p)
  BY ObserveStep, Kinds DEF Event
<1>3. Event(o) \in StoredEvent /\ Event(o).id = o
  BY DEF CallInv
<1>4. /\ IdsOf(ledger'.transitions) \subseteq IdsOf(ledger.transitions) \cup {o}
      /\ o \in IdsOf(ledger'.transitions) =>
           o \in IdsOf(ledger.transitions) \/ pc'[o] = "journalTransition"
  <2>1. ASSUME NEW t \in Transition, Derives(o, t)
        PROVE  /\ IdsOf(ledger'.transitions) = IdsOf(ledger.transitions) \cup {o}
               /\ pc'[o] = "journalTransition"
    <3>1. ledger' = AppendTransition(ledger, t) /\ t.id = o /\ pc'[o] = "journalTransition"
      BY <2>1 DEF Derives
    <3> QED
      BY <3>1, TransitionAppended DEF TypeInv
  <2> QED
    BY <1>1, <2>1 DEF Writes
<1>5. EventsOf(store') = EventsOf(store)
      \/ /\ EventsOf(store') = EventsOf(store) \cup {Event(o)}
         /\ \A e \in EventsOf(store) : e.id # o
  <2>1. CASE store' = store
    BY <2>1
  <2>2. CASE StoreAccepts(store, Event(o)) /\ store' = Append(store, Event(o))
    <3>1. EventsOf(store') = EventsOf(store) \cup {Event(o)}
      BY <1>3, <2>2, EventsAppended DEF TypeInv
    <3> QED
      BY <1>3, <2>2, <3>1 DEF StoreAccepts
  <2> QED
    BY <1>1, <2>1, <2>2 DEF Writes
<1>6. \A p \in ObserveCalls : pc'[p] \in Underived => p \notin IdsOf(ledger'.transitions) /\ p \notin replay'
  <2> SUFFICES ASSUME NEW p \in ObserveCalls, pc'[p] \in Underived
               PROVE  p \notin IdsOf(ledger'.transitions) /\ p \notin replay'
    OBVIOUS
  <2>1. pc[p] \in Underived
    BY <1>1, <1>2 DEF Goes
  <2>2. p \notin IdsOf(ledger.transitions) /\ p \notin replay
    BY <2>1 DEF FreshInv
  <2>3. p \notin IdsOf(ledger'.transitions)
    BY <1>4, <2>2 DEF Underived
  <2>4. p \notin replay'
    BY <1>1, <2>1, <2>2 DEF Writes, Underived
  <2> QED
    BY <2>3, <2>4
<1>7. \A p \in ObserveCalls : pc'[p] \in Early \cup {"start"} =>
        \A e \in EventsOf(store') : e.id = p => pc'[p] # "start" /\ e = Event(p)'
  <2> SUFFICES ASSUME NEW p \in ObserveCalls, pc'[p] \in Early \cup {"start"},
                      NEW e \in EventsOf(store'), e.id = p
               PROVE  pc'[p] # "start" /\ e = Event(p)'
    OBVIOUS
  <2>1. CASE p # o
    <3>1. e \in EventsOf(store)
      BY <1>3, <1>5, <2>1
    <3>2. pc[p] \in Early \cup {"start"} /\ Event(p)' = Event(p) /\ pc'[p] = pc[p]
      BY <1>2, <2>1
    <3>3. pc[p] # "start" /\ e = Event(p)
      BY <3>1, <3>2 DEF FreshInv
    <3> QED
      BY <3>2, <3>3
  <2>2. CASE p = o
    <3>1. pc'[o] # "start" /\ Event(o)' = Event(o)
      <4>1. pc'[o] \in UnderWay
        BY <1>1, <2>2, Points DEF Goes, Terminal, UnderWay
      <4> QED
        BY <1>1, <4>1, Points DEF Goes
    <3>2. CASE e \notin EventsOf(store)
      BY <1>5, <2>2, <3>1, <3>2
    <3>3. CASE e \in EventsOf(store) /\ pc[o] \in Early
      <4>1. e = Event(o)
        BY <2>2, <3>3 DEF FreshInv
      <4> QED
        BY <2>2, <3>1, <4>1
    <3>4. CASE e \in EventsOf(store) /\ pc[o] \in Kept
      <4>1. Event(o) \in EventsOf(store)
        BY <3>4 DEF WrittenInv
      <4>2. e = Event(o)
        BY <1>3, <2>2, <3>4, <4>1 DEF FreshInv
      <4> QED
        BY <2>2, <3>1, <4>2
    <3> QED
      BY <3>2, <3>3, <3>4 DEF UnderWay
  <2> QED
    BY <2>1, <2>2
<1>8. \A e, f \in EventsOf(store') : e.id = f.id => e = f
  BY <1>3, <1>5 DEF FreshInv
<1> QED
  BY <1>6, <1>7, <1>8 DEF FreshInv

\* What the steps of decide and learn leave of an observation, and what follows from it.
Leaves ==
    /\ store' = store /\ replay' = replay /\ journal' = journal /\ work' = work
    /\ IdsOf(ledger'.transitions) = IdsOf(ledger.transitions)
    /\ \A o \in ObserveCalls : pc'[o] = pc[o]
    /\ state'.steps = state.steps

LEMMA LeavesFresh ==
    ASSUME FreshInv, Leaves
    PROVE  FreshInv'
<1>1. \A o \in ObserveCalls : pc'[o] = pc[o] /\ Event(o)' = Event(o)
  BY DEF Leaves, Event
<1> QED
  BY <1>1 DEF Leaves, FreshInv

LEMMA LeavesCounted ==
    ASSUME Counted, Leaves
    PROVE  Counted'
<1>1. Journaled("state_applied")' = Journaled("state_applied")
  BY DEF Leaves, Journaled
<1> QED
  BY <1>1 DEF Leaves, Counted

\* When one call is under way no other is.
LEMMA OnlyOne ==
    ASSUME Alone, NEW o \in ObserveCalls, pc[o] \in UnderWay
    PROVE  \A c \in Calls : c # o => ~IsUnderWay(c)
  BY Kinds, Points DEF Alone, IsUnderWay

\* Applied steps stay counted.
LEMMA ObserveKeepsCounted ==
    ASSUME IInv, TurnInv, NEW o \in ObserveCalls, Observe(o), pc[o] \in UnderWay
    PROVE  Counted'
<1> DEFINE J == Journaled("state_applied")
<1>0. ContextOf(o) \in Contexts
  BY DEF IInv, CallInv, ContextOf, StoredEvent
<1> PICK c \in Contexts : c = ContextOf(o)
  BY <1>0
<1>1. Stand(o, c) /\ Goes(o) /\ Writes(o)
  BY Path, ObserveWrites DEF TurnInv, IInv
<1>2. \A p \in ObserveCalls : p # o => pc[p] # "journalState" /\ pc'[p] # "journalState"
  <2>1. ASSUME NEW p \in ObserveCalls, p # o PROVE pc[p] # "journalState" /\ pc'[p] = pc[p]
    <3>1. ~IsUnderWay(p) /\ pc'[p] = pc[p]
      BY <2>1, OnlyOne, ObserveStep, Kinds DEF TurnInv, IInv
    <3> QED
      BY <3>1 DEF IsUnderWay, Terminal, Waiting
  <2> QED
    BY <2>1
<1>3. /\ IsFiniteSet(J) /\ Cardinality(J) \in Nat
      /\ state.steps = Cardinality(J) + (IF pc[o] = "journalState" THEN 1 ELSE 0)
  BY <1>2, FS_CardinalityType DEF TurnInv, Counted
<1>4. SUFFICES IsFiniteSet(J') /\ state'.steps = Cardinality(J') + (IF pc'[o] = "journalState" THEN 1 ELSE 0)
  BY <1>2 DEF Counted
<1>5. CASE pc[o] = "journalState"
  <2>1. RecordState(o)
    BY <1>5 DEF Observe, Start, ReadHistory, RecordDiscovered, ConsumeDecision,
       StoreExperience, LookAgain, RecordExperience, StoreTransition, RecordTransition,
       AssimilateBelief, CountStep, IndexReplay, RecordReplay, RecordFailure, RecordStage
  <2>2. J' = J \cup {c}
    <3>1. /\ StagesOf(journal'[c]) = StagesOf(journal[c]) \cup {"state_applied"}
          /\ \A d \in Contexts \ {c} : journal'[d] = journal[d]
      BY <1>1, <2>1, StateRecorded DEF StageAdded
    <3> QED
      BY <3>1 DEF Journaled
  <2>3. c \notin J
    BY <1>1, <1>5 DEF Stand, Journaled
  <2>4. pc'[o] # "journalState" /\ state'.steps = state.steps
    BY <1>1, <1>5 DEF Goes, Counts
  <2> HIDE DEF J
  <2>5. IsFiniteSet(J \cup {c}) /\ Cardinality(J \cup {c}) = Cardinality(J) + 1
    BY <1>3, <2>3, FS_AddElement
  <2> QED
    BY <1>3, <1>5, <2>2, <2>4, <2>5
<1>6. CASE pc[o] # "journalState"
  <2>1. J' = J
    <3>1. ASSUME NEW x \in Record, Records(o, x) PROVE J' = J
      <4>1. x.stage # "state_applied"
        BY <1>6, <3>1 DEF Records
      <4>2. /\ journal' = [journal EXCEPT ![ContextOf(o)] = Append(@, x)]
            /\ journal \in [Contexts -> Seq(Record)]
        BY <3>1 DEF Records, IInv, TypeInv
      <4>3. StagesOf(journal'[c]) = StagesOf(journal[c]) \cup {x.stage}
        BY <4>2, RecordAdds
      <4>4. \A d \in Contexts \ {c} : journal'[d] = journal[d]
        BY <4>2
      <4> QED
        BY <4>1, <4>3, <4>4 DEF Journaled
    <3>2. CASE journal' = journal
      BY <3>2 DEF Journaled
    <3> QED
      BY <1>1, <3>1, <3>2 DEF Writes
  <2> HIDE DEF J
  <2>2. CASE pc'[o] = "journalState"
    <3>1. state'.steps = state.steps + 1
      BY <1>1, <2>2 DEF Goes, Counts
    <3> QED
      BY <1>3, <1>6, <2>1, <2>2, <3>1
  <2>3. CASE pc'[o] # "journalState"
    <3>1. state'.steps = state.steps
      BY <1>1, <2>3 DEF Goes, Counts
    <3> QED
      BY <1>3, <1>6, <2>1, <2>3, <3>1
  <2> QED
    BY <2>2, <2>3
<1> QED
  BY <1>5, <1>6

\* A call begins when nobody else is at work.
LEMMA StartKeepsTurns ==
    ASSUME IInv, TurnInv, StepStore, ~Concurrent, NEW o \in ObserveCalls, Start(o)
    PROVE  TurnInv'
<1> USE DEF IInv
<1>1. \A c \in Calls : ~IsUnderWay(c)
  BY DEF Start, MayBegin, IsUnderWay
<1>2. /\ UNCHANGED <<state, ledger, store, replay, journal>>
      /\ pc[o] = "start" /\ pc'[o] = "history"
      /\ \A c \in Calls : c # o => pc'[c] = pc[c]
  BY ObserveStep, Moving DEF Start, Observe
<1>3. \A p \in ObserveCalls : pc[p] \notin UnderWay
  BY <1>1, Kinds, Points DEF IsUnderWay
<1>4. \A p \in ObserveCalls : pc'[p] \in UnderWay => p = o
  BY <1>2, <1>3, Kinds
<1>5. Alone'
  BY <1>1, <1>2 DEF Alone, IsUnderWay
<1>6. FreshInv'
  BY StartKeepsFresh DEF TurnInv
<1>7. \A d \in Contexts : ExactAt(d) /\ ExactAt(d)'
  <2>1. \A d \in Contexts : ExactAt(d)
    BY <1>3 DEF TurnInv, RestExact
  <2>2. \A d \in Contexts : ExactAt(d)' <=> ExactAt(d)
    BY <1>2, SameWrites DEF ExactAt
  <2> QED
    BY <2>1, <2>2
<1>8. Counted'
  <2>1. \A p \in ObserveCalls : pc[p] # "journalState" /\ pc'[p] # "journalState"
    BY <1>2, <1>3, <1>4, Points
  <2>2. Journaled("state_applied")' = Journaled("state_applied") /\ state'.steps = state.steps
    BY <1>2 DEF Journaled
  <2> QED
    BY <2>1, <2>2 DEF TurnInv, Counted
<1>9. ASSUME NEW c, c = ContextOf(o)' PROVE Stand(o, c)'
  <2>1. PICK d \in {d \in DecideCalls : pc[d] = "decided"}, context \in Contexts,
             closed \in Ticks, terminal \in BOOLEAN :
          /\ closed >= made[d].at
          /\ work' = [work EXCEPT
                       ![o].decision = made[d],
                       ![o].event = [id |-> o, decision |-> d, context |-> context,
                                     closed |-> closed, terminal |-> terminal],
                       ![o].found = Find(context)]
          /\ Goto(o, "history")
    BY Zenon DEF Start
  <2>2. /\ work'[o].event = [id |-> o, decision |-> d, context |-> context,
                             closed |-> closed, terminal |-> terminal]
        /\ work'[o].found = Find(context)
    <3>1. work \in [ObserveCalls -> Locals]
      BY DEF TypeInv
    <3> QED
      BY <2>1, <3>1 DEF Locals
  <2>3. c = context
    BY <1>9, <2>2 DEF ContextOf, Event
  <2>4. work'[o].found = FindStep(store', c)
    BY <1>2, <2>2, <2>3 DEF Find
  <2>5. ExactAt(c)'
    BY <1>7, <2>3
  <2> QED
    BY <1>2, <2>4, <2>5 DEF Stand, Kept, Derived, Applied, Indexed
<1> QED
  BY <1>4, <1>5, <1>6, <1>7, <1>8, <1>9 DEF TurnInv, RestExact

\* A call under way goes on, or ends with its step exactly recorded.
LEMMA ObserveKeepsTurns ==
    ASSUME IInv, TurnInv, StepStore, NEW o \in ObserveCalls, Observe(o), pc[o] \in UnderWay
    PROVE  TurnInv'
<1> USE DEF IInv
<1>0. ContextOf(o) \in Contexts
  BY DEF CallInv, ContextOf, StoredEvent
<1> PICK k \in Contexts : k = ContextOf(o)
  BY <1>0
<1>1. Stand(o, k) /\ FreshInv
  BY DEF TurnInv
<1>2. Good(o, k)
  BY <1>1, StandsWell
<1>3. \A c \in Calls : c # o => pc'[c] = pc[c] /\ ~IsUnderWay(c)
  BY ObserveStep, OnlyOne DEF TurnInv
<1>4. \A p \in ObserveCalls : p # o => pc[p] \notin UnderWay /\ pc'[p] \notin UnderWay
  BY <1>3, Kinds, Points DEF IsUnderWay
<1>5. Alone'
  BY <1>3 DEF Alone, IsUnderWay
<1>6. FreshInv'
  BY <1>1, ObserveKeepsFresh
<1>7. Counted'
  BY ObserveKeepsCounted
<1>8. \A d \in Contexts : d # k => ExactAt(d)'
  <2> SUFFICES ASSUME NEW d \in Contexts, d # k PROVE ExactAt(d)'
    OBVIOUS
  <2>1. ExactAt(d)
    BY <1>4 DEF TurnInv, RestExact
  <2> QED
    BY <1>1, <2>1, OthersExact
<1>9. RestExact'
  <2> SUFFICES ASSUME NEW d \in Contexts,
                      \A p \in ObserveCalls : pc'[p] \in UnderWay => ContextOf(p)' # d
               PROVE  ExactAt(d)'
    BY DEF RestExact
  <2>1. CASE d = k
    BY <1>2, <2>1 DEF Good
  <2> QED
    BY <1>8, <2>1
<1>10. \A p \in ObserveCalls : pc'[p] \in UnderWay => Stand(p, ContextOf(p))'
  <2> SUFFICES ASSUME pc'[o] \in UnderWay PROVE Stand(o, ContextOf(o))'
    BY <1>4
  <2>1. pc'[o] \notin Terminal
    BY Points
  <2>2. ContextOf(o)' = k /\ Stand(o, k)'
    BY <1>2, <2>1 DEF Good
  <2> QED
    BY <2>2 DEF Stand
<1> QED
  BY <1>5, <1>6, <1>7, <1>9, <1>10 DEF TurnInv

\* A decision and a learning commit write nothing of a step.
LEMMA DecideKeepsTurns ==
    ASSUME IInv, TurnInv, ~Concurrent, NEW d \in DecideCalls, DecideSnapshot(d) \/ RegisterDecision(d)
    PROVE  TurnInv'
<1> USE DEF IInv
<1>1. \A c \in Calls : c # d => ~IsUnderWay(c)
  <2>1. CASE DecideSnapshot(d)
    BY <2>1 DEF DecideSnapshot, MayBegin, IsUnderWay
  <2>2. CASE RegisterDecision(d)
    BY <2>2, Kinds DEF RegisterDecision, TurnInv, Alone, IsUnderWay, Terminal, Waiting
  <2> QED
    BY <2>1, <2>2
<1>2. /\ UNCHANGED <<ledger, store, replay, journal, work>>
      /\ state'.belief = state.belief /\ state'.steps = state.steps
      /\ \A c \in Calls : c # d => pc'[c] = pc[c]
  BY DecideStep DEF TypeInv
<1>3. \A p \in ObserveCalls : pc'[p] = pc[p] /\ pc[p] \notin UnderWay
  BY <1>1, <1>2, Kinds, Points DEF IsUnderWay
<1>4. Leaves
  BY <1>2, <1>3 DEF Leaves
<1>5. Alone'
  BY <1>1, <1>2 DEF Alone, IsUnderWay
<1>6. RestExact'
  <2>1. \A c \in Contexts : ExactAt(c)
    BY <1>3 DEF TurnInv, RestExact
  <2>2. \A c \in Contexts : ExactAt(c)' <=> ExactAt(c)
    BY <1>2, SameWrites DEF ExactAt
  <2> QED
    BY <2>1, <2>2 DEF RestExact
<1> QED
  BY <1>3, <1>4, <1>5, <1>6, LeavesFresh, LeavesCounted DEF TurnInv

LEMMA LearnKeepsTurns ==
    ASSUME IInv, TurnInv, ~Concurrent, NEW l \in LearnCalls, Learn(l)
    PROVE  TurnInv'
<1> USE DEF IInv
<1>1. \A c \in Calls : ~IsUnderWay(c)
  BY DEF Learn, MayBegin, IsUnderWay
<1>2. /\ UNCHANGED <<store, replay, journal, work>>
      /\ \A c \in Calls : c # l => pc'[c] = pc[c]
      /\ pc'[l] \in LearnPoints
  BY LearnStep, Kinds DEF TypeInv
<1>3. \A p \in ObserveCalls : pc'[p] = pc[p] /\ pc[p] \notin UnderWay
  BY <1>1, <1>2, Kinds, Points DEF IsUnderWay
<1>4. \A c \in Contexts : ExactAt(c)
  BY <1>3 DEF TurnInv, RestExact
<1>5. Alone'
  BY <1>1, <1>2 DEF Alone, IsUnderWay
<1>6. CASE state' = state /\ ledger' = ledger
  <2>1. Leaves
    BY <1>2, <1>3, <1>6 DEF Leaves
  <2>2. \A c \in Contexts : ExactAt(c)' <=> ExactAt(c)
    BY <1>2, <1>6, SameWrites DEF ExactAt
  <2> QED
    BY <1>3, <1>4, <1>5, <2>1, <2>2, LeavesFresh, LeavesCounted DEF TurnInv, RestExact
<1>7. ASSUME NEW r \in UpdateReceipt, state' = ApplyUpdate(state, r), ledger' = AppendReceipt(ledger, r)
      PROVE  TurnInv'
  <2>1. /\ state'.steps = state.steps
        /\ state'.belief = IF r.resulting # NoBelief THEN r.resulting ELSE state.belief
    BY <1>7, UpdateType DEF TypeInv
  <2>2. /\ ledger'.transitions = ledger.transitions
        /\ EntriesOf(ledger'.updates) = EntriesOf(ledger.updates) \cup {r}
    BY <1>7, LearnKeeps
  <2>3. Leaves
    BY <1>2, <1>3, <2>1, <2>2 DEF Leaves
  <2>4. LearnedEvidence \subseteq LearnedEvidence'
    BY <2>2 DEF LearnedEvidence
  <2>5. state'.belief.evidence \subseteq state.belief.evidence \cup LearnedEvidence'
    BY <2>1, <2>2 DEF LearnedEvidence
  <2>6. ASSUME NEW c \in Contexts PROVE ExactAt(c)'
    <3>1. StoredAt(c)' = StoredAt(c)
      BY <1>2, SameWrites
    <3>2. \A i, j \in StoredAt(c) : i = j
      BY DEF UseInv, StoredAt, FindStep
    <3>3. ExactAt(c)
      BY <1>4
    <3>4. ASSUME StoredAt(c) \cap state'.belief.evidence # {}
          PROVE  "state_applied" \in StagesOf(journal[c]) \/ StoredAt(c) \subseteq LearnedEvidence'
      <4>1. PICK i \in StoredAt(c) : i \in state'.belief.evidence
        BY <3>4
      <4>2. CASE i \in state.belief.evidence
        BY <2>4, <3>3, <4>2 DEF ExactAt
      <4>3. CASE i \in LearnedEvidence'
        BY <3>2, <4>3
      <4> QED
        BY <2>5, <4>1, <4>2, <4>3
    <3> QED
      BY <1>2, <2>2, <3>1, <3>3, <3>4 DEF ExactAt
  <2> QED
    BY <1>3, <1>5, <2>3, <2>6, LeavesFresh, LeavesCounted DEF TurnInv, RestExact
<1> QED
  BY <1>6, <1>7, LearnStep

LEMMA InitTurns == Init => TurnInv
<1> SUFFICES ASSUME Init PROVE TurnInv
  OBVIOUS
<1>1. \A o \in ObserveCalls : pc[o] = "start" /\ pc[o] \notin UnderWay
  BY Kinds, Points DEF Init
<1>2. Alone
  BY DEF Init, Alone, IsUnderWay, Waiting
<1>3. EventsOf(store) = {} /\ replay = {} /\ IdsOf(ledger.transitions) = {Genesis}
  BY DEF Init, EventsOf, IdsOf, InitTransition
<1>4. FreshInv
  BY <1>3, Kinds DEF FreshInv
<1>5. RestExact
  <2>1. \A c \in Contexts : StoredAt(c) = {}
    BY <1>3 DEF StoredAt, FindStep
  <2> QED
    BY <2>1 DEF RestExact, ExactAt
<1>6. Counted
  <2>1. Journaled("state_applied") = {}
    BY DEF Init, Journaled, StagesOf
  <2>2. state.steps = 0 /\ \A o \in ObserveCalls : pc[o] # "journalState"
    BY <1>1 DEF Init
  <2> QED
    BY <2>1, <2>2, FS_EmptySet DEF Counted
<1> QED
  BY <1>1, <1>2, <1>4, <1>5, <1>6 DEF TurnInv

LEMMA NextTurns ==
    ASSUME ~Concurrent, StepStore
    PROVE  IInv /\ TurnInv /\ [Next]_vars => TurnInv'
<1> SUFFICES ASSUME IInv, TurnInv, [Next]_vars PROVE TurnInv'
  OBVIOUS
<1>1. ASSUME NEW o \in ObserveCalls, Observe(o) PROVE TurnInv'
  <2>1. CASE pc[o] \in UnderWay
    BY <1>1, <2>1, ObserveKeepsTurns
  <2>2. CASE Start(o)
    BY <2>2, StartKeepsTurns
  <2> QED
    BY <1>1, <2>1, <2>2, Points DEF Observe, ReadHistory, RecordDiscovered, ConsumeDecision,
       StoreExperience, LookAgain, RecordExperience, StoreTransition, RecordTransition,
       AssimilateBelief, CountStep, RecordState, IndexReplay, RecordReplay, RecordFailure, RecordStage
<1>2. CASE UNCHANGED vars
  <2>1. FreshInv' /\ Alone' /\ Counted'
    BY <1>2 DEF vars, TurnInv, FreshInv, Alone, IsUnderWay, Counted, Journaled, Event
  <2>2. \A c : ExactAt(c)' <=> ExactAt(c)
    BY <1>2 DEF vars, ExactAt, StoredAt, LearnedEvidence
  <2>3. \A o : ContextOf(o)' = ContextOf(o) /\ Event(o)' = Event(o)
    BY <1>2 DEF vars, ContextOf, Event
  <2>4. ASSUME NEW o, NEW c, Stand(o, c) PROVE Stand(o, c)'
    <3>1. ExactAt(c)' <=> ExactAt(c)
      BY <2>2
    <3>2. StoredAt(c)' = StoredAt(c) /\ (OnlyStored(c)' <=> OnlyStored(c))
      BY <1>2 DEF vars, OnlyStored, StoredAt
    <3>3. Event(o)' = Event(o)
      BY <2>3
    <3> QED
      BY <1>2, <2>4, <3>1, <3>2, <3>3 DEF vars, Stand
  <2>5. RestExact'
    BY <1>2, <2>2, <2>3 DEF vars, TurnInv, RestExact
  <2> QED
    <3>1. \A o \in ObserveCalls : pc'[o] \in UnderWay => Stand(o, ContextOf(o))'
      <4> SUFFICES ASSUME NEW o \in ObserveCalls, pc'[o] \in UnderWay PROVE Stand(o, ContextOf(o))'
        OBVIOUS
      <4>1. Stand(o, ContextOf(o))
        BY <1>2 DEF vars, TurnInv
      <4>2. \A c : c = ContextOf(o) => Stand(o, c)'
        BY <2>4, <4>1
      <4> QED
        BY <2>3, <4>2 DEF Stand
    <3> QED
      BY <2>1, <2>5, <3>1 DEF TurnInv
<1> QED
  BY <1>1, <1>2, DecideKeepsTurns, LearnKeepsTurns DEF Next, Rest

\* When callers take turns over a store that can be asked for a step, the journal of every
\* step shows, whenever no call is under way, all that was written of it, whatever stage
\* failed and however often the step was tried again.
THEOREM JournalAlwaysExact ==
    ASSUME ~Concurrent, StepStore
    PROVE  Spec => []JournalExact
<1>1. TurnInv => JournalExact
  <2> SUFFICES ASSUME TurnInv, Idle PROVE
        /\ \A stage \in Stages, c \in Contexts :
             Written(stage, c) =>
               \/ c \in Journaled(stage)
               \/ stage = "state_applied" /\ StoredAt(c) \subseteq LearnedEvidence
        /\ state.steps = Cardinality(Journaled("state_applied"))
    BY DEF JournalExact
  <2>1. \A o \in ObserveCalls : pc[o] \notin UnderWay
    BY Kinds, Points DEF Idle
  <2>2. \A c \in Contexts : ExactAt(c)
    BY <2>1 DEF TurnInv, RestExact
  <2>3. state.steps = Cardinality(Journaled("state_applied"))
    BY <2>1, FS_CardinalityType, Points DEF TurnInv, Counted
  <2>4. \A stage \in Stages, c \in Contexts :
          Written(stage, c) =>
            \/ c \in Journaled(stage)
            \/ stage = "state_applied" /\ StoredAt(c) \subseteq LearnedEvidence
    BY <2>2, StageNames DEF ExactAt, Written, Journaled
  <2> QED
    BY <2>3, <2>4
<1>2. Init => IInv /\ TurnInv
  BY InitInvariant, InitTurns
<1>3. IInv /\ TurnInv /\ [Next]_vars => (IInv /\ TurnInv)'
  BY NextInvariant, NextTurns
<1> QED
  BY <1>1, <1>2, <1>3, PTL DEF Spec
=============================================================================
