--------------------------- MODULE EpistemicLedger ---------------------------
(***************************************************************************)
(* The canonical ledger of transitions and update receipts of one agent    *)
(* (storage/ledger.py, class EpistemicLedger) as a record and one operator *)
(* per method.  As in AgentState, the methods are atomic under the         *)
(* ledger's own lock and the caller decides who may hold it.               *)
(*                                                                         *)
(* transitions and updates are the per-agent lists; the by-id dictionaries *)
(* are the same records seen as sets.  A "last" time that is None in the   *)
(* code is tick 0 here, which admits the same appends.                     *)
(***************************************************************************)
EXTENDS Naturals, Sequences

EntriesOf(records) == {records[i] : i \in DOMAIN records}

IdsOf(records) == {records[i].id : i \in DOMAIN records}

(***************************************************************************)
(* Transitions.                                                            *)
(***************************************************************************)

TransitionAccepts(l, t) ==
    /\ t.id \notin IdsOf(l.transitions)
    /\ t.at >= l.transitionLast

AppendTransition(l, t) ==
    [l EXCEPT !.transitions = Append(@, t), !.transitionLast = t.at, !.gen = @ + 1]

(***************************************************************************)
(* Update receipts.                                                        *)
(***************************************************************************)

ReceiptAccepts(l, r) ==
    /\ r.id \notin IdsOf(l.updates)
    /\ r.source \in EntriesOf(l.transitions)
    /\ r.status = "rolled_back" => r.rollbackOf \in IdsOf(l.updates)
    /\ r.completed >= l.updateLast

AppendReceipt(l, r) ==
    [l EXCEPT !.updates = Append(@, r), !.updateLast = r.completed, !.gen = @ + 1]

\* What a prepared append keeps for its rollback.
LedgerToken(l) == [gen |-> l.gen, updateLast |-> l.updateLast]

LedgerUntouched(l, token) == l.gen = token.gen

LedgerRollsBack(l, token, r) ==
    /\ l.gen = token.gen + 1
    /\ l.updates # <<>>
    /\ l.updates[Len(l.updates)] = r

\* Bug: the rollback resets the order of the ledger and leaves the receipt in it.
RemoveReceiptTimeOnly(l, token) ==
    [l EXCEPT !.updateLast = token.updateLast, !.gen = token.gen]

RemoveReceipt(l, token) ==
    [l EXCEPT !.updates = SubSeq(@, 1, Len(@) - 1),
              !.updateLast = token.updateLast,
              !.gen = token.gen]
=============================================================================
