--------------------------- MODULE ExperienceStore ---------------------------
(***************************************************************************)
(* Canonical append-only storage of real experience (storage/memory.py,    *)
(* class MemoryExperienceStore) for one agent and one run: the sequence of *)
(* its events.  The dictionaries by id and by step, the last close time,   *)
(* the last step of an episode and the set of closed episodes are derived  *)
(* from the sequence, because every one of them is written with it.        *)
(***************************************************************************)
EXTENDS Naturals, Sequences

EventsOf(store) == {store[i] : i \in DOMAIN store}

SameEpisode(store, context) ==
    {e \in EventsOf(store) : e.context.episode = context.episode}

\* Close times never go back, no step is stored twice, an episode only moves to later
\* steps and ends with its first terminated or truncated step.
StoreAccepts(store, event) ==
    /\ \A e \in EventsOf(store) : e.id # event.id /\ e.closed <= event.closed
    /\ \A e \in SameEpisode(store, event.context) :
         /\ ~e.terminal
         /\ e.context.step < event.context.step

\* The events of exactly this step: none or one.
FindStep(store, context) == {e \in EventsOf(store) : e.context = context}
=============================================================================
