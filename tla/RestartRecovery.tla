--------------------------- MODULE RestartRecovery ---------------------------
(***************************************************************************)
(* The records of one agent across restarts: the experience store, the     *)
(* ledger with its rehydration (storage/ledger.py), the replay index       *)
(* (storage/torchrl_replay.py) and the latest update of the agent, rebuilt *)
(* from a bundle in the order of _restore_checkpoint_state (bench/         *)
(* world_model_lifecycle/parity.py).  The bundle itself, its hashes and    *)
(* its file are those of CheckpointBundle: here it is whole or not there.  *)
(*                                                                         *)
(* What counts is which object a record refers to.  An object is its       *)
(* content and the graph it belongs to; decoding a bundle gives copies in  *)
(* graphs of their own, and rehydration has to lead every reference back   *)
(* to the object the store or the ledger holds.  Times follow identities,  *)
(* which one counter gives out in order.                                   *)
(***************************************************************************)
EXTENDS Integers, Sequences, FiniteSets, Functions

CONSTANTS Capacity,   \* of the replay buffer
          NoReceipt,  \* the agent has learned nothing yet
          NoBundle,   \* nothing was saved yet
          MaxId,      \* bound on identities
          MaxTorn,    \* bound on writes that are not remembered
          MaxLives    \* bound on processes

ASSUME RecoveryAssumption ==
    Capacity \in Nat \ {0} /\ MaxId \in Nat /\ MaxTorn \in Nat
    /\ MaxLives \in Nat \ {0}

VARIABLES pc,           \* "running", "restoring", or "refused" by a record that must fit
          life,         \* which process this is
          store,        \* events, in order of storage
          transitions,  \* of the ledger, in order
          updates,      \* receipts of the ledger, in order
          latest,       \* the latest update of the agent's snapshot
          counter,      \* the last identity given out
          buffer,       \* replay: the contents of events written, oldest first
          seen,         \* replay: identities remembered as indexed
          torn,         \* identities whose write was not remembered
          bundle        \* the last bundle saved

ledger == <<transitions, updates>>
replay == <<buffer, seen, torn>>
vars == <<pc, life, store, ledger, latest, counter, replay, bundle>>

-----------------------------------------------------------------------------
(* Objects *)

Content(event) == [id |-> event.id, born |-> event.born]

CopyEvent(event, graph) == [id |-> event.id, born |-> event.born, graph |-> graph]

\* A transition refers to an event, and to a prior belief by the graph it is in.
CopyTransition(t, graph) ==
    [exp |-> CopyEvent(t.exp, graph), prior |-> graph, graph |-> graph]

CopyReceipt(r, graph) ==
    [id |-> r.id, born |-> r.born, graph |-> graph,
     inputs |-> {CopyTransition(t, graph) : t \in r.inputs}]

\* Everything the process holds, and what it says whichever objects hold it.
Graph ==
    [store |-> store, transitions |-> transitions, updates |-> updates, latest |-> latest,
     counter |-> counter, buffer |-> buffer, seen |-> seen, torn |-> torn]

ContentsOf(g) ==
    [store |-> [i \in DOMAIN g.store |-> Content(g.store[i])],
     transitions |-> [i \in DOMAIN g.transitions |-> CopyTransition(g.transitions[i], "saved")],
     updates |-> [i \in DOMAIN g.updates |-> CopyReceipt(g.updates[i], "saved")],
     latest |-> IF g.latest = NoReceipt THEN NoReceipt ELSE CopyReceipt(g.latest, "saved"),
     counter |-> g.counter, buffer |-> g.buffer, seen |-> g.seen, torn |-> g.torn]

-----------------------------------------------------------------------------
(* What the owners accept *)

EventAccepted(e) == \A i \in DOMAIN store : store[i].id < e.id

\* append_transition: the very object the store holds, in order.
TransitionAccepted(t) ==
    /\ t.exp \in Range(store)
    /\ \A i \in DOMAIN transitions : transitions[i].exp.id < t.exp.id

\* _validate_update_locked: the very transitions of the ledger, in order.
ReceiptAccepted(r) ==
    /\ r.inputs \subseteq Range(transitions)
    /\ \A i \in DOMAIN updates : updates[i].id < r.id

\* The buffer drops its oldest sample when it is full.
Written(event) ==
    Append(IF Len(buffer) < Capacity THEN buffer ELSE Tail(buffer), Content(event))

Remember(event) ==
    buffer' = Written(event) /\ seen' = seen \cup {event.id} /\ UNCHANGED torn

\* The buffer raises after it has written.
Tear(event) ==
    /\ Cardinality(torn) < MaxTorn
    /\ buffer' = Written(event) /\ torn' = torn \cup {event.id} /\ UNCHANGED seen

\* Bug: the remembered identities are not looked at.
AddAgain(event) == Remember(event) \/ Tear(event)

\* TensorDictExperienceReplay.add
Add(event) == event.id \notin seen /\ (Remember(event) \/ Tear(event))

-----------------------------------------------------------------------------
(* A running process *)

\* An interaction stores its event, derives and appends the transition and
\* indexes the event; a failure leaves the records before it in place.
Observe ==
    /\ pc = "running" /\ counter < MaxId
    /\ counter' = counter + 1
    /\ LET e == [id |-> counter + 1, born |-> life, graph |-> "live"]
           t == [exp |-> e, prior |-> "live", graph |-> "live"]
       IN  IF ~EventAccepted(e)
           THEN pc' = "refused" /\ UNCHANGED <<store, transitions, replay>>
           ELSE /\ store' = Append(store, e)
                /\ \/ UNCHANGED <<pc, transitions, replay>>
                   \/ transitions' = Append(transitions, t) /\ UNCHANGED <<pc, replay>>
                   \/ transitions' = Append(transitions, t) /\ Add(e) /\ UNCHANGED pc
    /\ UNCHANGED <<life, updates, latest, bundle>>

\* An event whose indexing raised, or never happened, is added again.
IndexAgain(e) ==
    /\ pc = "running"
    /\ Add(e)
    /\ UNCHANGED <<pc, life, store, ledger, latest, counter, bundle>>

\* A learning transaction over the transitions from the n-th on.
Learn(n) ==
    /\ pc = "running" /\ counter < MaxId
    /\ counter' = counter + 1
    /\ LET r == [id |-> counter + 1, born |-> life, graph |-> "live",
                 inputs |-> {transitions[i] : i \in n..Len(transitions)}]
       IN  IF ReceiptAccepted(r)
           THEN updates' = Append(updates, r) /\ latest' = r /\ UNCHANGED pc
           ELSE pc' = "refused" /\ UNCHANGED <<updates, latest>>
    /\ UNCHANGED <<life, store, transitions, replay, bundle>>

\* Every component is captured at an episode boundary, after some learning.
Save ==
    /\ pc = "running" /\ updates # <<>>
    /\ bundle' = Graph
    /\ UNCHANGED <<pc, life, store, ledger, latest, counter, replay>>

\* The process ends, in its work or in a restore, and another one starts.
Restart ==
    /\ pc # "refused" /\ life < MaxLives
    /\ life' = life + 1
    /\ pc' = IF bundle = NoBundle THEN "running" ELSE "restoring"
    /\ store' = <<>> /\ transitions' = <<>> /\ updates' = <<>>
    /\ latest' = NoReceipt /\ counter' = 0
    /\ buffer' = <<>> /\ seen' = {} /\ torn' = {}
    /\ UNCHANGED bundle

-----------------------------------------------------------------------------
(* A restoring process *)

RestoreEvent ==
    /\ pc = "restoring" /\ Len(store) < Len(bundle.store)
    /\ LET e == CopyEvent(bundle.store[Len(store) + 1], "events")
       IN  IF EventAccepted(e) THEN store' = Append(store, e) /\ UNCHANGED pc
           ELSE pc' = "refused" /\ UNCHANGED store
    /\ UNCHANGED <<life, ledger, latest, counter, replay, bundle>>

\* Bug: the prior belief of the copy is kept.
RelinkedExperienceOnly(copy, canonical) == [copy EXCEPT !.exp = canonical, !.graph = "ledger"]

\* The transition as it goes to the ledger: linked to the event of the store that
\* has its copy's identity, and to the belief of that event's decision.
Relinked(copy, canonical) ==
    [exp |-> canonical, prior |-> canonical.graph, graph |-> "ledger"]

\* append_rehydrated_transition
RestoreTransition ==
    /\ pc = "restoring" /\ Len(store) = Len(bundle.store)
    /\ Len(transitions) < Len(bundle.transitions)
    /\ LET copy == CopyTransition(bundle.transitions[Len(transitions) + 1], "transitions")
           fits == {e \in Range(store) : Content(e) = Content(copy.exp)}
       IN  IF \E e \in fits : TransitionAccepted(Relinked(copy, e))
           THEN /\ \E e \in fits : transitions' = Append(transitions, Relinked(copy, e))
                /\ UNCHANGED pc
           ELSE pc' = "refused" /\ UNCHANGED transitions
    /\ UNCHANGED <<life, store, updates, latest, counter, replay, bundle>>

\* append_rehydrated_update
RehydratedUpdate ==
    LET copy == CopyReceipt(bundle.updates[Len(updates) + 1], "receipts")
        fits(t) == {c \in Range(transitions) : Content(c.exp) = Content(t.exp)}
        r == [id |-> copy.id, born |-> copy.born, graph |-> "ledger",
              inputs |-> UNION {fits(t) : t \in copy.inputs}]
    IN  IF (\A t \in copy.inputs : fits(t) # {}) /\ ReceiptAccepted(r)
        THEN updates' = Append(updates, r) /\ UNCHANGED pc
        ELSE pc' = "refused" /\ UNCHANGED updates

\* Bug: receipts are restored before the transitions.
RestoreUpdateEarly ==
    /\ pc = "restoring" /\ Len(store) = Len(bundle.store)
    /\ Len(updates) < Len(bundle.updates)
    /\ RehydratedUpdate
    /\ UNCHANGED <<life, store, transitions, latest, counter, replay, bundle>>

RestoreUpdate ==
    /\ pc = "restoring" /\ Len(store) = Len(bundle.store)
    /\ Len(transitions) = Len(bundle.transitions)
    /\ Len(updates) < Len(bundle.updates)
    /\ RehydratedUpdate
    /\ UNCHANGED <<life, store, transitions, latest, counter, replay, bundle>>

\* Bug: the identities of evicted samples are forgotten.
ResumeForgetsEvicted ==
    /\ pc = "restoring"
    /\ Len(store) = Len(bundle.store) /\ Len(transitions) = Len(bundle.transitions)
    /\ Len(updates) = Len(bundle.updates)
    /\ buffer' = bundle.buffer /\ seen' = {x.id : x \in Range(bundle.buffer)}
    /\ torn' = bundle.torn
    /\ counter' = bundle.counter
    /\ latest' = updates[Len(updates)]
    /\ pc' = "running"
    /\ UNCHANGED <<life, store, ledger, bundle>>

\* load_checkpoint_bytes, the identity counter, and a snapshot whose latest update
\* is the last receipt of the ledger itself.
Resume ==
    /\ pc = "restoring"
    /\ Len(store) = Len(bundle.store) /\ Len(transitions) = Len(bundle.transitions)
    /\ Len(updates) = Len(bundle.updates)
    /\ buffer' = bundle.buffer /\ seen' = bundle.seen /\ torn' = bundle.torn
    /\ counter' = bundle.counter
    /\ latest' = updates[Len(updates)]
    /\ pc' = "running"
    /\ UNCHANGED <<life, store, ledger, bundle>>

-----------------------------------------------------------------------------
Init ==
    /\ pc = "running" /\ life = 1
    /\ store = <<>> /\ transitions = <<>> /\ updates = <<>>
    /\ latest = NoReceipt /\ counter = 0
    /\ buffer = <<>> /\ seen = {} /\ torn = {}
    /\ bundle = NoBundle

\* The bounds are reached and nothing is left to index or save.
Rest ==
    /\ life = MaxLives /\ pc # "restoring"
    /\ UNCHANGED vars

Next ==
    \/ Observe \/ Save \/ Restart
    \/ \E e \in Range(store) : IndexAgain(e)
    \/ \E n \in DOMAIN transitions : Learn(n)
    \/ RestoreEvent \/ RestoreTransition \/ RestoreUpdate \/ Resume
    \/ Rest

Spec == Init /\ [][Next]_vars

-----------------------------------------------------------------------------
(* Properties *)

Graphs == {"live", "events", "transitions", "receipts", "ledger"}
Contents == [id : 1..MaxId, born : 1..MaxLives]
Events == [id : 1..MaxId, born : 1..MaxLives, graph : Graphs]
Transitions == [exp : Events, prior : Graphs, graph : Graphs]
Receipts == [id : 1..MaxId, born : 1..MaxLives, graph : Graphs, inputs : SUBSET Transitions]

ASSUME NoReceiptAssumption == NoReceipt \notin Receipts

TypeOK ==
    /\ pc \in {"running", "restoring", "refused"}
    /\ life \in 1..MaxLives /\ counter \in 0..MaxId
    /\ store \in Seq(Events) /\ transitions \in Seq(Transitions) /\ updates \in Seq(Receipts)
    /\ latest \in Receipts \cup {NoReceipt}
    /\ buffer \in Seq(Contents) /\ Len(buffer) <= Capacity
    /\ seen \subseteq 1..MaxId /\ torn \subseteq 1..MaxId

\* After any number of restarts a transition refers to the event object of the store
\* and to the belief of its decision, a receipt to the transition objects of the
\* ledger, and the agent to the last receipt of the ledger (EpistemicLedger: records
\* with reused identifiers cannot change evidence lineage).
LinksAreCanonical ==
    /\ \A t \in Range(transitions) : t.exp \in Range(store) /\ t.prior = t.exp.graph
    /\ \A r \in Range(updates) : r.inputs \subseteq Range(transitions)
    /\ pc = "running" /\ updates # <<>> => latest = updates[Len(updates)]

\* No record of a bundle is refused when it is restored, and none of a process that
\* goes on after it.
NothingIsRefused == pc # "refused"

\* Every event of the replay buffer is one of the store, indexed once unless its
\* write was torn, and the buffer is as full as what was indexed can fill it.
ReplayIsFaithful ==
    /\ \A i, j \in DOMAIN buffer :
          i # j /\ buffer[i].id = buffer[j].id => buffer[i].id \in torn
    /\ \A i \in DOMAIN buffer : \E e \in Range(store) : Content(e) = buffer[i]
    /\ \A i \in DOMAIN buffer : buffer[i].id \in seen \cup torn
    /\ Len(buffer) < Capacity => \A x \in seen : \E i \in DOMAIN buffer : buffer[i].id = x

\* A process resumes with the contents of the bundle, all of them.
RestoredIsSaved ==
    [][pc = "restoring" /\ pc' = "running" /\ life' = life
       => ContentsOf(Graph)' = ContentsOf(bundle)]_vars

=============================================================================
