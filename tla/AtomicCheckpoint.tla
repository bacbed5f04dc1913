-------------------------- MODULE AtomicCheckpoint --------------------------
(***************************************************************************)
(* What saving and restoring promise to an agent: a save records, in one   *)
(* step, identities of the running agent and a counter beyond all of them; *)
(* a crash takes only saves that have not returned; and a process that     *)
(* comes up again goes on from the whole of the last record and draws no   *)
(* identity that it holds.                                                 *)
(***************************************************************************)
EXTENDS Naturals, Sequences

CONSTANT Savers

VARIABLES up,        \* is the agent at work
          agent,     \* the identities it holds and the next one it draws
          archive,   \* what was saved and by which save, in order
          kept,      \* how many of these no crash can take
          returned   \* the saves that returned

vars == <<up, agent, archive, kept, returned>>

Fresh == [held |-> {}, next |-> 0]

Init ==
    /\ up = TRUE /\ agent = Fresh
    /\ archive = <<>> /\ kept = 0
    /\ returned = {}

\* The agent draws an identity that it does not hold.
Draw ==
    /\ up
    /\ agent.next \notin agent.held
    /\ agent' = [held |-> agent.held \cup {agent.next}, next |-> agent.next + 1]
    /\ UNCHANGED <<up, archive, kept, returned>>

\* A record that fits the agent: behind it, and with no identity it would draw again.
Past(record) ==
    /\ record.held \subseteq agent.held /\ record.next <= agent.next
    /\ \A id \in record.held : id < record.next

Save ==
    /\ up
    /\ \E s \in Savers : \E record \in [held : SUBSET agent.held, next : 0..agent.next] :
          /\ Past(record)
          /\ archive' = Append(archive, [by |-> s, record |-> record])
    /\ UNCHANGED <<up, agent, kept, returned>>

\* A save returns when it and all before it are kept.
Return ==
    /\ up
    /\ kept' = Len(archive)
    /\ \E i \in 1..kept' : returned' = returned \cup {archive[i].by}
    /\ UNCHANGED <<up, agent, archive>>

Crash ==
    /\ up' = FALSE /\ agent' = Fresh
    /\ \E n \in kept..Len(archive) : archive' = SubSeq(archive, 1, n)
    /\ UNCHANGED <<kept, returned>>

Resume ==
    /\ ~up /\ archive # <<>>
    /\ up' = TRUE
    /\ agent' = archive[Len(archive)].record
    /\ UNCHANGED <<archive, kept, returned>>

Next == Draw \/ Save \/ Return \/ Crash \/ Resume

Spec == Init /\ [][Next]_vars
=============================================================================
