------------------------ MODULE RestartRecoveryProofs ------------------------
(***************************************************************************)
(* Theorems about RestartRecovery for any capacity of the buffer and any   *)
(* number of identities, torn writes and lives.                            *)
(*                                                                         *)
(* What a process holds is well formed: identities are in order and not    *)
(* ahead of the counter, references lead to the owners' objects and the    *)
(* buffer is faithful to the store.  So is every bundle, which is a copy   *)
(* of what a process held.  A restoring process holds a prefix of the      *)
(* bundle, by content, over objects of its own: the next record of the     *)
(* bundle fits after it because it did so when it was first stored.        *)
(***************************************************************************)
EXTENDS RestartRecovery, TLAPS

Bundles ==
    [store : Seq(Events), transitions : Seq(Transitions), updates : Seq(Receipts),
     latest : Receipts \cup {NoReceipt}, counter : 0..MaxId,
     buffer : Seq(Contents), seen : SUBSET (1..MaxId), torn : SUBSET (1..MaxId)]

\* Identities are in order and were given out.
Ordered(s, n) ==
    \A i \in DOMAIN s : s[i].id <= n /\ \A j \in DOMAIN s : i < j => s[i].id < s[j].id

OrderedByEvent(s, n) ==
    \A i \in DOMAIN s :
        s[i].exp.id <= n /\ \A j \in DOMAIN s : i < j => s[i].exp.id < s[j].exp.id

InOrder(st, tr, up, n) == Ordered(st, n) /\ OrderedByEvent(tr, n) /\ Ordered(up, n)

Linked(st, tr, up) ==
    /\ \A t \in Range(tr) : t.exp \in Range(st) /\ t.prior = t.exp.graph
    /\ \A r \in Range(up) : r.inputs \subseteq Range(tr)

Faithful(b, st, se, to) ==
    /\ \A i, j \in DOMAIN b : i # j /\ b[i].id = b[j].id => b[i].id \in to
    /\ \A i \in DOMAIN b : \E e \in Range(st) : Content(e) = b[i]
    /\ \A i \in DOMAIN b : b[i].id \in se \cup to
    /\ Len(b) < Capacity => \A x \in se : \E i \in DOMAIN b : b[i].id = x

\* A running process is well formed.
RunningInv ==
    /\ InOrder(store, transitions, updates, counter)
    /\ updates # <<>> => latest = updates[Len(updates)]

\* So is a bundle, which was saved after some learning.
BundleInv ==
    bundle # NoBundle =>
        /\ bundle \in Bundles /\ Len(bundle.buffer) <= Capacity
        /\ InOrder(bundle.store, bundle.transitions, bundle.updates, bundle.counter)
        /\ Linked(bundle.store, bundle.transitions, bundle.updates)
        /\ Faithful(bundle.buffer, bundle.store, bundle.seen, bundle.torn)
        /\ bundle.updates # <<>> /\ bundle.latest = bundle.updates[Len(bundle.updates)]

SameReceipt(r, s) == CopyReceipt(r, "saved") = CopyReceipt(s, "saved")

\* A restoring process holds prefixes of the bundle.
RestoringInv ==
    /\ bundle # NoBundle
    /\ buffer = <<>> /\ seen = {} /\ torn = {} /\ latest = NoReceipt /\ counter = 0
    /\ Len(store) <= Len(bundle.store)
    /\ \A i \in DOMAIN store : Content(store[i]) = Content(bundle.store[i])
    /\ Len(transitions) <= Len(bundle.transitions)
    /\ transitions # <<>> => Len(store) = Len(bundle.store)
    /\ \A i \in DOMAIN transitions :
          Content(transitions[i].exp) = Content(bundle.transitions[i].exp)
    /\ Len(updates) <= Len(bundle.updates)
    /\ updates # <<>> => Len(transitions) = Len(bundle.transitions)
    /\ \A i \in DOMAIN updates : SameReceipt(updates[i], bundle.updates[i])

IInv ==
    /\ TypeOK /\ NothingIsRefused /\ BundleInv
    /\ Linked(store, transitions, updates)
    /\ Faithful(buffer, store, seen, torn)
    /\ pc = "running" => RunningInv
    /\ pc = "restoring" => RestoringInv

USE RecoveryAssumption

-----------------------------------------------------------------------------
(* Records and sequences *)

LEMMA Identities ==
  /\ MaxId \in Nat
  /\ \A e \in Events : e.id \in 1..MaxId /\ e.id \in Int
  /\ \A t \in Transitions : t.exp \in Events /\ t.exp.id \in Int
  /\ \A r \in Receipts : r.id \in 1..MaxId /\ r.id \in Int
  <1>1. MaxId \in Nat /\ \A x \in 1..MaxId : x \in Int
    OBVIOUS
  <1>2. \A e \in Events : e.id \in 1..MaxId
    BY DEF Events
  <1>3. \A t \in Transitions : t.exp \in Events
    BY DEF Transitions
  <1>4. \A r \in Receipts : r.id \in 1..MaxId
    BY DEF Receipts
  <1> QED BY <1>1, <1>2, <1>3, <1>4

LEMMA AppendFacts ==
  ASSUME NEW S, NEW s \in Seq(S), NEW x \in S
  PROVE  /\ Append(s, x) \in Seq(S) /\ Len(Append(s, x)) = Len(s) + 1
         /\ DOMAIN Append(s, x) = 1..(Len(s) + 1)
         /\ \A i \in DOMAIN s : Append(s, x)[i] = s[i]
         /\ Append(s, x)[Len(s) + 1] = x
         /\ Range(Append(s, x)) = Range(s) \cup {x}
  <1>1. /\ Append(s, x) \in Seq(S) /\ Len(Append(s, x)) = Len(s) + 1
        /\ DOMAIN Append(s, x) = 1..(Len(s) + 1)
        /\ DOMAIN s = 1..Len(s) /\ Len(s) \in Nat
        /\ \A i \in DOMAIN s : Append(s, x)[i] = s[i]
        /\ Append(s, x)[Len(s) + 1] = x
    OBVIOUS
  <1> QED BY <1>1 DEF Range

LEMMA OrderedAppend ==
  ASSUME NEW S, NEW s \in Seq(S), NEW x \in S, NEW n \in Int, NEW m \in Int,
         \A y \in S : y.id \in Int, Ordered(s, n), n < x.id, x.id <= m
  PROVE  Ordered(Append(s, x), m)
  <1>1. DOMAIN s = 1..Len(s) /\ Len(s) \in Nat /\ \A i \in DOMAIN s : s[i] \in S
    OBVIOUS
  <1> QED BY <1>1, AppendFacts DEF Ordered

LEMMA OrderedByEventAppend ==
  ASSUME NEW S, NEW s \in Seq(S), NEW x \in S, NEW n \in Int, NEW m \in Int,
         \A y \in S : y.exp.id \in Int, OrderedByEvent(s, n), n < x.exp.id, x.exp.id <= m
  PROVE  OrderedByEvent(Append(s, x), m)
  <1>1. DOMAIN s = 1..Len(s) /\ Len(s) \in Nat /\ \A i \in DOMAIN s : s[i] \in S
    OBVIOUS
  <1> QED BY <1>1, AppendFacts DEF OrderedByEvent

\* Records in order stay so when the counter moves on.
LEMMA OrderedLater ==
  ASSUME NEW st, NEW tr, NEW up, NEW n \in Int, NEW m \in Int, n <= m,
         st \in Seq(Events), tr \in Seq(Transitions), up \in Seq(Receipts),
         InOrder(st, tr, up, n)
  PROVE  InOrder(st, tr, up, m)
  <1>1. /\ \A i \in DOMAIN st : st[i] \in Events
        /\ \A i \in DOMAIN tr : tr[i] \in Transitions
        /\ \A i \in DOMAIN up : up[i] \in Receipts
    OBVIOUS
  <1>2. /\ \A i \in DOMAIN st : st[i].id \in Int
        /\ \A i \in DOMAIN tr : tr[i].exp.id \in Int
        /\ \A i \in DOMAIN up : up[i].id \in Int
    BY <1>1, Identities
  <1> QED BY <1>2 DEF InOrder, Ordered, OrderedByEvent

-----------------------------------------------------------------------------
(* The replay buffer *)

\* What add writes and remembers is faithful to a store that has the event.
LEMMA AddFaithful ==
  ASSUME NEW e \in Events, NEW st, e \in Range(st), Range(store) \subseteq Range(st),
         buffer \in Seq(Contents), Len(buffer) <= Capacity,
         seen \subseteq 1..MaxId, torn \subseteq 1..MaxId,
         Faithful(buffer, store, seen, torn), Add(e)
  PROVE  /\ buffer' \in Seq(Contents) /\ Len(buffer') <= Capacity
         /\ seen' \subseteq 1..MaxId /\ torn' \subseteq 1..MaxId
         /\ Faithful(buffer', st, seen', torn')
  <1> DEFINE kept == IF Len(buffer) < Capacity THEN buffer ELSE Tail(buffer)
             d == IF Len(buffer) < Capacity THEN 0 ELSE 1
             n == Len(kept)
  <1>1. Content(e) \in Contents /\ Content(e).id = e.id /\ e.id \in 1..MaxId
    BY DEF Content, Contents, Events
  <1>2. /\ kept \in Seq(Contents) /\ n < Capacity /\ n \in Nat /\ d \in 0..1
        /\ DOMAIN kept = 1..n /\ DOMAIN buffer = 1..Len(buffer) /\ Len(buffer) = n + d
        /\ \A i \in DOMAIN kept : i + d \in DOMAIN buffer /\ kept[i] = buffer[i + d]
    OBVIOUS
  <1>3. e.id \notin seen /\ buffer' = Append(kept, Content(e))
    BY DEF Add, Remember, Tear, Written
  <1>4. /\ buffer' \in Seq(Contents) /\ Len(buffer') = n + 1 /\ Len(buffer') <= Capacity
        /\ DOMAIN buffer' = 1..(n + 1)
        /\ \A i \in 1..n : buffer'[i] = kept[i]
        /\ buffer'[n + 1] = Content(e)
    <2> HIDE DEF kept, n, d
    <2>1. kept \in Seq(Contents) /\ Content(e) \in Contents
      BY <1>1, <1>2
    <2>2. /\ Append(kept, Content(e)) \in Seq(Contents)
          /\ Len(Append(kept, Content(e))) = Len(kept) + 1
          /\ DOMAIN Append(kept, Content(e)) = 1..(Len(kept) + 1)
          /\ \A i \in DOMAIN kept : Append(kept, Content(e))[i] = kept[i]
          /\ Append(kept, Content(e))[Len(kept) + 1] = Content(e)
      BY <2>1, AppendFacts
    <2>3. n + 1 <= Capacity
      BY <1>2
    <2> QED BY <2>2, <2>3, <1>2, <1>3 DEF n
  <1>5. /\ seen' \cup torn' = seen \cup torn \cup {e.id}
        /\ seen \subseteq seen' /\ torn \subseteq torn' /\ seen' \subseteq seen \cup {e.id}
    BY DEF Add, Remember, Tear
  <1>6. seen' \subseteq 1..MaxId /\ torn' \subseteq 1..MaxId
    BY <1>1, <1>5
  <1> HIDE DEF kept, n, d
  <1>7. \A i \in 1..n : kept[i].id = e.id => e.id \in torn'
    <2> SUFFICES ASSUME NEW i \in 1..n, kept[i].id = e.id PROVE e.id \in torn'
      OBVIOUS
    <2>1. i + d \in DOMAIN buffer /\ buffer[i + d].id = e.id
      BY <1>2
    <2>2. e.id \in seen \cup torn
      BY <2>1 DEF Faithful
    <2> QED BY <2>2, <1>3, <1>5
  <1>8. \A i, j \in 1..n : i # j /\ kept[i].id = kept[j].id => kept[i].id \in torn'
    <2> SUFFICES ASSUME NEW i \in 1..n, NEW j \in 1..n, i # j, kept[i].id = kept[j].id
                 PROVE  kept[i].id \in torn'
      OBVIOUS
    <2>1. i + d \in DOMAIN buffer /\ j + d \in DOMAIN buffer /\ i + d # j + d
      BY <1>2
    <2>2. kept[i] = buffer[i + d] /\ kept[j] = buffer[j + d]
      BY <1>2
    <2>3. buffer[i + d].id \in torn
      BY <2>1, <2>2 DEF Faithful
    <2> QED BY <2>2, <2>3, <1>5
  <1>9. \A i, j \in DOMAIN buffer' :
           i # j /\ buffer'[i].id = buffer'[j].id => buffer'[i].id \in torn'
    <2> SUFFICES ASSUME NEW i \in 1..(n + 1), NEW j \in 1..(n + 1), i # j,
                        buffer'[i].id = buffer'[j].id
                 PROVE  buffer'[i].id \in torn'
      BY <1>4
    <2>1. CASE i \in 1..n /\ j \in 1..n
      BY <2>1, <1>4, <1>8
    <2>2. CASE i = n + 1 \/ j = n + 1
      <3>1. buffer'[i].id = e.id
        BY <2>2, <1>1, <1>4
      <3>2. i \in 1..n \/ j \in 1..n
        BY <2>2, <1>2
      <3>3. e.id \in torn'
        BY <3>1, <3>2, <1>4, <1>7
      <3> QED BY <3>1, <3>3
    <2> QED BY <2>1, <2>2, <1>2
  <1>10. \A i \in DOMAIN buffer' : \E x \in Range(st) : Content(x) = buffer'[i]
    <2>1. \A i \in 1..n : \E x \in Range(st) : Content(x) = kept[i]
      BY <1>2 DEF Faithful
    <2> QED BY <2>1, <1>2, <1>4
  <1>11. \A i \in DOMAIN buffer' : buffer'[i].id \in seen' \cup torn'
    <2>1. \A i \in 1..n : kept[i].id \in seen \cup torn
      BY <1>2 DEF Faithful
    <2> QED BY <2>1, <1>1, <1>2, <1>4, <1>5
  <1>12. Len(buffer') < Capacity => \A x \in seen' : \E i \in DOMAIN buffer' : buffer'[i].id = x
    <2> SUFFICES ASSUME Len(buffer') < Capacity, NEW x \in seen'
                 PROVE  \E i \in DOMAIN buffer' : buffer'[i].id = x
      OBVIOUS
    <2>1. CASE x = e.id
      BY <2>1, <1>1, <1>2, <1>4
    <2>2. CASE x \in seen
      <3>1. Len(buffer) < Capacity /\ d = 0
        BY <1>2, <1>4 DEF d
      <3>2. PICK i \in DOMAIN buffer : buffer[i].id = x
        BY <2>2, <3>1 DEF Faithful
      <3>3. i \in 1..n /\ kept[i] = buffer[i]
        BY <3>1, <1>2 DEF kept
      <3> QED BY <3>2, <3>3, <1>2, <1>4
    <2> QED BY <2>1, <2>2, <1>5
  <1> QED BY <1>4, <1>6, <1>9, <1>10, <1>11, <1>12 DEF Faithful

LEMMA FaithfulLater ==
  ASSUME NEW b, NEW se, NEW to, NEW st, NEW later, Range(st) \subseteq Range(later),
         Faithful(b, st, se, to)
  PROVE  Faithful(b, later, se, to)
  BY DEF Faithful

LEMMA EmptyFaithful == \A st : Faithful(<<>>, st, {}, {})
  BY DEF Faithful

-----------------------------------------------------------------------------
(* References *)

LEMMA LinkedLater ==
  ASSUME NEW st, NEW later, NEW tr, NEW up, Range(st) \subseteq Range(later), Linked(st, tr, up)
  PROVE  Linked(later, tr, up)
  BY DEF Linked

LEMMA LinkedTransition ==
  ASSUME NEW st, NEW tr \in Seq(Transitions), NEW up, NEW t \in Transitions,
         t.exp \in Range(st), t.prior = t.exp.graph, Linked(st, tr, up)
  PROVE  Linked(st, Append(tr, t), up)
  <1>1. Range(Append(tr, t)) = Range(tr) \cup {t}
    BY AppendFacts
  <1> QED BY <1>1 DEF Linked

LEMMA LinkedReceipt ==
  ASSUME NEW st, NEW tr, NEW up \in Seq(Receipts), NEW r \in Receipts,
         r.inputs \subseteq Range(tr), Linked(st, tr, up)
  PROVE  Linked(st, tr, Append(up, r))
  <1>1. Range(Append(up, r)) = Range(up) \cup {r}
    BY AppendFacts
  <1> QED BY <1>1 DEF Linked

-----------------------------------------------------------------------------
(* Steps of a running process *)

LEMMA InitIInv == Init => IInv
  <1> SUFFICES ASSUME Init PROVE IInv
    OBVIOUS
  <1>1. TypeOK
    BY DEF Init, TypeOK
  <1>2. Linked(store, transitions, updates) /\ Faithful(buffer, store, seen, torn)
    BY EmptyFaithful DEF Init, Linked, Range
  <1>3. NothingIsRefused /\ BundleInv
    BY DEF Init, NothingIsRefused, BundleInv
  <1>4. RunningInv
    BY DEF Init, RunningInv, InOrder, Ordered, OrderedByEvent
  <1> QED BY <1>1, <1>2, <1>3, <1>4 DEF IInv, Init

LEMMA ObserveIInv == IInv /\ Observe => IInv'
  <1> SUFFICES ASSUME IInv, Observe PROVE IInv'
    OBVIOUS
  <1> DEFINE e == [id |-> counter + 1, born |-> life, graph |-> "live"]
             t == [exp |-> e, prior |-> "live", graph |-> "live"]
  <1>1. /\ TypeOK /\ NothingIsRefused /\ BundleInv /\ Linked(store, transitions, updates)
        /\ Faithful(buffer, store, seen, torn) /\ pc = "running" /\ RunningInv
    BY DEF IInv, Observe
  <1>2. counter \in Int /\ counter + 1 \in 1..MaxId /\ counter < counter + 1
    BY <1>1, Identities DEF TypeOK, Observe
  <1>3. e \in Events /\ e.id = counter + 1 /\ e.graph = "live"
    BY <1>1, <1>2 DEF TypeOK, Events, Graphs
  <1>4. t \in Transitions /\ t.exp = e /\ t.prior = t.exp.graph
    BY <1>3 DEF Transitions, Graphs
  <1> HIDE DEF e, t
  <1>5. EventAccepted(e)
    <2>1. \A i \in DOMAIN store : store[i].id <= counter /\ store[i].id \in Int
      BY <1>1, Identities DEF TypeOK, RunningInv, InOrder, Ordered
    <2> QED BY <2>1, <1>2, <1>3 DEF EventAccepted
  <1>6. /\ store' = Append(store, e) /\ counter' = counter + 1
        /\ UNCHANGED <<pc, life, updates, latest, bundle>>
        /\ \/ UNCHANGED <<transitions, replay>>
           \/ transitions' = Append(transitions, t) /\ UNCHANGED replay
           \/ transitions' = Append(transitions, t) /\ Add(e)
    BY <1>5 DEF Observe, e, t
  <1>7. /\ store' \in Seq(Events) /\ Range(store') = Range(store) \cup {e}
        /\ Ordered(store', counter') /\ Linked(store', transitions, updates)
    <2>1. store \in Seq(Events) /\ Ordered(store, counter) /\ \A y \in Events : y.id \in Int
      BY <1>1, Identities DEF TypeOK, RunningInv, InOrder
    <2>2. Ordered(Append(store, e), counter + 1)
      BY <2>1, <1>2, <1>3, OrderedAppend
    <2>3. store' \in Seq(Events) /\ Range(store') = Range(store) \cup {e}
      BY <2>1, <1>3, <1>6, AppendFacts
    <2> QED BY <2>2, <2>3, <1>1, <1>6, LinkedLater
  <1>8. /\ transitions' \in Seq(Transitions) /\ OrderedByEvent(transitions', counter')
        /\ Linked(store', transitions', updates)
    <2>1. /\ transitions \in Seq(Transitions) /\ OrderedByEvent(transitions, counter)
          /\ \A y \in Transitions : y.exp.id \in Int
      BY <1>1, Identities DEF TypeOK, RunningInv, InOrder
    <2>2. CASE UNCHANGED transitions
      <3>1. InOrder(store, transitions, updates, counter + 1)
        BY <1>1, <1>2, OrderedLater DEF TypeOK, RunningInv
      <3> QED BY <3>1, <2>1, <2>2, <1>6, <1>7 DEF InOrder
    <2>3. CASE transitions' = Append(transitions, t)
      <3>1. OrderedByEvent(Append(transitions, t), counter + 1)
        BY <2>1, <1>2, <1>3, <1>4, OrderedByEventAppend
      <3>2. Append(transitions, t) \in Seq(Transitions)
        BY <2>1, <1>4, AppendFacts
      <3>3. Linked(store', Append(transitions, t), updates)
        BY <2>1, <1>4, <1>7, LinkedTransition
      <3> QED BY <3>1, <3>2, <3>3, <2>3, <1>6
    <2> QED BY <2>2, <2>3, <1>6
  <1>9. /\ buffer' \in Seq(Contents) /\ Len(buffer') <= Capacity
        /\ seen' \subseteq 1..MaxId /\ torn' \subseteq 1..MaxId
        /\ Faithful(buffer', store', seen', torn')
    <2>1. CASE UNCHANGED replay
      BY <2>1, <1>1, <1>7, FaithfulLater DEF TypeOK, replay
    <2>2. CASE Add(e)
      BY <2>2, <1>1, <1>3, <1>7, AddFaithful DEF TypeOK
    <2> QED BY <2>1, <2>2, <1>6 DEF replay
  <1>10. TypeOK' /\ NothingIsRefused'
    BY <1>1, <1>2, <1>6, <1>7, <1>8, <1>9 DEF TypeOK, NothingIsRefused
  <1>11. BundleInv'
    BY <1>1, <1>6 DEF BundleInv
  <1>12. RunningInv'
    <2>1. InOrder(store, transitions, updates, counter + 1)
      BY <1>1, <1>2, OrderedLater DEF TypeOK, RunningInv
    <2> QED BY <2>1, <1>1, <1>6, <1>7, <1>8 DEF RunningInv, InOrder
  <1> QED BY <1>1, <1>6, <1>8, <1>9, <1>10, <1>11, <1>12 DEF IInv

LEMMA IndexAgainIInv == ASSUME IInv, NEW e \in Range(store), IndexAgain(e) PROVE IInv'
  <1>1. /\ TypeOK /\ NothingIsRefused /\ BundleInv /\ Linked(store, transitions, updates)
        /\ Faithful(buffer, store, seen, torn) /\ pc = "running" /\ RunningInv
    BY DEF IInv, IndexAgain
  <1>2. Add(e) /\ UNCHANGED <<pc, life, store, transitions, updates, latest, counter, bundle>>
    BY DEF IndexAgain, ledger
  <1>3. e \in Events
    BY <1>1 DEF TypeOK, Range
  <1>4. /\ buffer' \in Seq(Contents) /\ Len(buffer') <= Capacity
        /\ seen' \subseteq 1..MaxId /\ torn' \subseteq 1..MaxId
        /\ Faithful(buffer', store, seen', torn')
    BY <1>1, <1>2, <1>3, AddFaithful DEF TypeOK
  <1>5. TypeOK' /\ NothingIsRefused'
    BY <1>1, <1>2, <1>4 DEF TypeOK, NothingIsRefused
  <1>6. BundleInv' /\ RunningInv'
    BY <1>1, <1>2 DEF BundleInv, RunningInv
  <1> QED BY <1>1, <1>2, <1>4, <1>5, <1>6 DEF IInv

LEMMA LearnIInv == ASSUME IInv, NEW n \in DOMAIN transitions, Learn(n) PROVE IInv'
  <1> DEFINE r == [id |-> counter + 1, born |-> life, graph |-> "live",
                   inputs |-> {transitions[i] : i \in n..Len(transitions)}]
  <1>1. /\ TypeOK /\ NothingIsRefused /\ BundleInv /\ Linked(store, transitions, updates)
        /\ Faithful(buffer, store, seen, torn) /\ pc = "running" /\ RunningInv
    BY DEF IInv, Learn
  <1>2. counter \in Int /\ counter + 1 \in 1..MaxId /\ counter < counter + 1
    BY <1>1, Identities DEF TypeOK, Learn
  <1>3. r.inputs \subseteq Range(transitions) /\ r.inputs \subseteq Transitions
    <2>1. n \in 1..Len(transitions) /\ transitions \in Seq(Transitions)
      BY <1>1 DEF TypeOK
    <2>2. \A i \in n..Len(transitions) : i \in DOMAIN transitions
      BY <2>1
    <2> QED BY <2>1, <2>2 DEF Range
  <1>4. r \in Receipts /\ r.id = counter + 1
    BY <1>1, <1>2, <1>3 DEF TypeOK, Receipts, Graphs
  <1> HIDE DEF r
  <1>5. ReceiptAccepted(r)
    <2>1. \A i \in DOMAIN updates : updates[i].id <= counter /\ updates[i].id \in Int
      BY <1>1, Identities DEF TypeOK, RunningInv, InOrder, Ordered
    <2> QED BY <2>1, <1>2, <1>3, <1>4 DEF ReceiptAccepted
  <1>6. /\ updates' = Append(updates, r) /\ latest' = r /\ counter' = counter + 1
        /\ UNCHANGED <<pc, life, store, transitions, buffer, seen, torn, bundle>>
    BY <1>5 DEF Learn, r, replay
  <1>7. /\ updates' \in Seq(Receipts) /\ latest' = updates'[Len(updates')]
        /\ Ordered(updates', counter') /\ Linked(store, transitions, updates')
    <2>1. updates \in Seq(Receipts) /\ Ordered(updates, counter) /\ \A y \in Receipts : y.id \in Int
      BY <1>1, Identities DEF TypeOK, RunningInv, InOrder
    <2>2. Ordered(Append(updates, r), counter + 1)
      BY <2>1, <1>2, <1>4, OrderedAppend
    <2>3. Linked(store, transitions, Append(updates, r))
      BY <2>1, <1>1, <1>3, <1>4, LinkedReceipt
    <2>4. Append(updates, r) \in Seq(Receipts) /\ Append(updates, r)[Len(Append(updates, r))] = r
      BY <2>1, <1>4, AppendFacts
    <2> QED BY <2>2, <2>3, <2>4, <1>6
  <1>8. InOrder(store, transitions, updates, counter + 1)
    BY <1>1, <1>2, OrderedLater DEF TypeOK, RunningInv
  <1>9. TypeOK' /\ NothingIsRefused'
    BY <1>1, <1>2, <1>4, <1>6, <1>7 DEF TypeOK, NothingIsRefused
  <1>10. BundleInv' /\ RunningInv'
    BY <1>1, <1>6, <1>7, <1>8 DEF BundleInv, RunningInv, InOrder
  <1> QED BY <1>1, <1>6, <1>7, <1>9, <1>10 DEF IInv

LEMMA SaveIInv == IInv /\ Save => IInv'
  <1> SUFFICES ASSUME IInv, Save PROVE IInv'
    OBVIOUS
  <1>1. /\ TypeOK /\ NothingIsRefused /\ BundleInv /\ Linked(store, transitions, updates)
        /\ Faithful(buffer, store, seen, torn) /\ pc = "running" /\ RunningInv
    BY DEF IInv, Save
  <1>2. /\ bundle' = Graph /\ updates # <<>>
        /\ UNCHANGED <<pc, life, store, transitions, updates, latest, counter, buffer, seen, torn>>
    BY DEF Save, ledger, replay
  <1>3. Graph \in Bundles
    BY <1>1 DEF TypeOK, Graph, Bundles
  <1>4. /\ Graph.store = store /\ Graph.transitions = transitions /\ Graph.updates = updates
        /\ Graph.latest = latest /\ Graph.counter = counter
        /\ Graph.buffer = buffer /\ Graph.seen = seen /\ Graph.torn = torn
    BY DEF Graph
  <1>5. BundleInv'
    BY <1>1, <1>2, <1>3, <1>4 DEF BundleInv, RunningInv, TypeOK
  <1>6. TypeOK' /\ NothingIsRefused' /\ RunningInv'
    BY <1>1, <1>2 DEF TypeOK, NothingIsRefused, RunningInv
  <1> QED BY <1>1, <1>2, <1>5, <1>6 DEF IInv

LEMMA RestartIInv == IInv /\ Restart => IInv'
  <1> SUFFICES ASSUME IInv, Restart PROVE IInv'
    OBVIOUS
  <1>1. TypeOK /\ BundleInv
    BY DEF IInv
  <1>2. /\ life' = life + 1 /\ life < MaxLives /\ UNCHANGED bundle
        /\ pc' = IF bundle = NoBundle THEN "running" ELSE "restoring"
        /\ store' = <<>> /\ transitions' = <<>> /\ updates' = <<>>
        /\ latest' = NoReceipt /\ counter' = 0
        /\ buffer' = <<>> /\ seen' = {} /\ torn' = {}
    BY DEF Restart
  <1>3. TypeOK' /\ NothingIsRefused'
    <2>1. life + 1 \in 1..MaxLives /\ 0 \in 0..MaxId
      BY <1>1, <1>2 DEF TypeOK
    <2> QED BY <2>1, <1>2 DEF TypeOK, NothingIsRefused
  <1>4. BundleInv'
    BY <1>1, <1>2 DEF BundleInv
  <1>5. Linked(<<>>, <<>>, <<>>) /\ Faithful(<<>>, <<>>, {}, {})
    BY EmptyFaithful DEF Linked, Range
  <1>6. pc' = "running" => RunningInv'
    BY <1>2 DEF RunningInv, InOrder, Ordered, OrderedByEvent
  <1>7. pc' = "restoring" => RestoringInv'
    <2> SUFFICES ASSUME pc' = "restoring" PROVE RestoringInv'
      OBVIOUS
    <2>1. bundle # NoBundle
      BY <1>2
    <2>2. Len(bundle.store) \in Nat /\ Len(bundle.transitions) \in Nat /\ Len(bundle.updates) \in Nat
      BY <2>1, <1>1 DEF BundleInv, Bundles
    <2> QED BY <2>1, <2>2, <1>2 DEF RestoringInv
  <1> QED BY <1>2, <1>3, <1>4, <1>5, <1>6, <1>7 DEF IInv

-----------------------------------------------------------------------------
(* Steps of a restoring process *)

\* What is known while a process restores.
LEMMA RestoringFacts ==
  ASSUME IInv, pc = "restoring"
  PROVE  /\ TypeOK /\ NothingIsRefused /\ BundleInv /\ RestoringInv
         /\ Linked(store, transitions, updates)
         /\ bundle \in Bundles /\ Len(bundle.buffer) <= Capacity
         /\ bundle.store \in Seq(Events) /\ bundle.transitions \in Seq(Transitions)
         /\ bundle.updates \in Seq(Receipts) /\ bundle.counter \in 0..MaxId
         /\ InOrder(bundle.store, bundle.transitions, bundle.updates, bundle.counter)
         /\ Linked(bundle.store, bundle.transitions, bundle.updates)
         /\ Faithful(bundle.buffer, bundle.store, bundle.seen, bundle.torn)
         /\ bundle.updates # <<>> /\ bundle.latest = bundle.updates[Len(bundle.updates)]
  <1>1. TypeOK /\ NothingIsRefused /\ BundleInv /\ RestoringInv /\ Linked(store, transitions, updates)
    BY DEF IInv
  <1>2. bundle # NoBundle
    BY <1>1 DEF RestoringInv
  <1> QED BY <1>1, <1>2 DEF BundleInv, Bundles

LEMMA RestoreEventIInv == IInv /\ RestoreEvent => IInv'
  <1> SUFFICES ASSUME IInv, RestoreEvent PROVE IInv'
    OBVIOUS
  <1> DEFINE b == bundle.store[Len(store) + 1]
             e == CopyEvent(b, "events")
  <1>1. pc = "restoring" /\ Len(store) < Len(bundle.store)
    BY DEF RestoreEvent
  <1>2. /\ store \in Seq(Events) /\ bundle.store \in Seq(Events)
        /\ Len(store) \in Nat /\ Len(bundle.store) \in Nat
        /\ DOMAIN store = 1..Len(store) /\ DOMAIN bundle.store = 1..Len(bundle.store)
        /\ Len(store) + 1 \in DOMAIN bundle.store
        /\ \A i \in DOMAIN store : i \in DOMAIN bundle.store /\ i < Len(store) + 1
    <2>1. store \in Seq(Events) /\ bundle.store \in Seq(Events)
      BY <1>1, RestoringFacts DEF TypeOK
    <2> QED BY <2>1, <1>1
  <1>3. b \in Events /\ e \in Events /\ e.id = b.id /\ Content(e) = Content(b)
    <2>1. b \in Events
      BY <1>2
    <2> QED BY <2>1 DEF CopyEvent, Events, Graphs, Content
  <1>4. \A i \in DOMAIN store : Content(store[i]) = Content(bundle.store[i])
    BY <1>1, RestoringFacts DEF RestoringInv
  <1>5. \A i \in DOMAIN store : store[i].id < b.id
    <2>1. \A i \in DOMAIN store : store[i].id = bundle.store[i].id
      BY <1>4 DEF Content
    <2> QED BY <2>1, <1>1, <1>2, RestoringFacts DEF InOrder, Ordered
  <1> HIDE DEF b, e
  <1>6. /\ store' = Append(store, e)
        /\ UNCHANGED <<pc, life, transitions, updates, latest, counter, buffer, seen, torn, bundle>>
    <2>1. EventAccepted(e)
      BY <1>3, <1>5 DEF EventAccepted
    <2> QED BY <2>1 DEF RestoreEvent, e, b, ledger, replay
  <1>7. /\ store' \in Seq(Events) /\ Len(store') = Len(store) + 1
        /\ DOMAIN store' = 1..(Len(store) + 1)
        /\ \A i \in DOMAIN store : store'[i] = store[i]
        /\ store'[Len(store) + 1] = e
        /\ Range(store') = Range(store) \cup {e}
    BY <1>2, <1>3, <1>6, AppendFacts
  <1>8. TypeOK' /\ NothingIsRefused'
    BY <1>1, <1>6, <1>7, RestoringFacts DEF TypeOK, NothingIsRefused
  <1>9. Linked(store', transitions', updates')
    BY <1>1, <1>6, <1>7, RestoringFacts, LinkedLater
  <1>10. Faithful(buffer', store', seen', torn')
    BY <1>1, <1>6, RestoringFacts, EmptyFaithful DEF RestoringInv
  <1>11. \A i \in DOMAIN store' : Content(store'[i]) = Content(bundle.store[i])
    BY <1>2, <1>3, <1>4, <1>7 DEF b
  <1>12. RestoringInv'
    <2>1. transitions = <<>>
      BY <1>1, RestoringFacts DEF RestoringInv
    <2> QED BY <2>1, <1>1, <1>2, <1>6, <1>7, <1>11, RestoringFacts DEF RestoringInv
  <1>13. BundleInv'
    BY <1>1, <1>6, RestoringFacts DEF BundleInv
  <1> QED BY <1>1, <1>6, <1>8, <1>9, <1>10, <1>12, <1>13 DEF IInv

LEMMA RestoreTransitionIInv == IInv /\ RestoreTransition => IInv'
  <1> SUFFICES ASSUME IInv, RestoreTransition PROVE IInv'
    OBVIOUS
  <1> DEFINE b == bundle.transitions[Len(transitions) + 1]
             copy == CopyTransition(b, "transitions")
             fits == {e \in Range(store) : Content(e) = Content(copy.exp)}
  <1>1. /\ pc = "restoring" /\ Len(store) = Len(bundle.store)
        /\ Len(transitions) < Len(bundle.transitions)
    BY DEF RestoreTransition
  <1>2. /\ transitions \in Seq(Transitions) /\ bundle.transitions \in Seq(Transitions)
        /\ Len(transitions) \in Nat /\ Len(bundle.transitions) \in Nat
        /\ DOMAIN transitions = 1..Len(transitions)
        /\ DOMAIN bundle.transitions = 1..Len(bundle.transitions)
        /\ Len(transitions) + 1 \in DOMAIN bundle.transitions
        /\ \A i \in DOMAIN transitions : i \in DOMAIN bundle.transitions /\ i < Len(transitions) + 1
    <2>1. transitions \in Seq(Transitions) /\ bundle.transitions \in Seq(Transitions)
      BY <1>1, RestoringFacts DEF TypeOK
    <2> QED BY <2>1, <1>1
  <1>3. b \in Transitions /\ b \in Range(bundle.transitions) /\ Content(copy.exp) = Content(b.exp)
    <2>1. b \in Transitions /\ b \in Range(bundle.transitions)
      BY <1>2 DEF Range
    <2> QED BY <2>1 DEF CopyTransition, CopyEvent, Content
  <1>4. \E e \in Range(store) : Content(e) = Content(b.exp)
    <2>1. PICK j \in DOMAIN bundle.store : bundle.store[j] = b.exp
      BY <1>1, <1>3, RestoringFacts DEF Linked, Range
    <2>2. j \in DOMAIN store
      <3>1. store \in Seq(Events) /\ bundle.store \in Seq(Events)
        BY <1>1, RestoringFacts DEF TypeOK
      <3> QED BY <3>1, <2>1, <1>1
    <2>3. store[j] \in Range(store) /\ Content(store[j]) = Content(b.exp)
      BY <2>1, <2>2, <1>1, RestoringFacts DEF RestoringInv, Range
    <2> QED BY <2>3
  <1>5. \A i \in DOMAIN transitions : transitions[i].exp.id < b.exp.id
    <2>1. \A i \in DOMAIN transitions : transitions[i].exp.id = bundle.transitions[i].exp.id
      BY <1>1, RestoringFacts DEF RestoringInv, Content
    <2> QED BY <2>1, <1>1, <1>2, RestoringFacts DEF InOrder, OrderedByEvent
  <1>6. \A e \in fits : TransitionAccepted(Relinked(copy, e))
    <2> SUFFICES ASSUME NEW e \in fits PROVE TransitionAccepted(Relinked(copy, e))
      OBVIOUS
    <2>1. Relinked(copy, e).exp = e /\ e \in Range(store) /\ e.id = b.exp.id
      BY <1>3 DEF Relinked, Content
    <2> QED BY <2>1, <1>5 DEF TransitionAccepted
  <1>7. fits # {}
    BY <1>3, <1>4
  <1>8. PICK e \in fits : transitions' = Append(transitions, Relinked(copy, e))
    BY <1>6, <1>7 DEF RestoreTransition
  <1>9. UNCHANGED <<pc, life, store, updates, latest, counter, buffer, seen, torn, bundle>>
    BY <1>6, <1>7 DEF RestoreTransition, replay
  <1> DEFINE t == Relinked(copy, e)
  <1>10. /\ t \in Transitions /\ t.exp \in Range(store) /\ t.prior = t.exp.graph
         /\ Content(t.exp) = Content(b.exp)
    <2>1. e \in Events
      BY <1>1, RestoringFacts DEF TypeOK, Range
    <2>2. e.graph \in Graphs
      BY <2>1 DEF Events
    <2> QED BY <2>1, <2>2, <1>3 DEF Relinked, Transitions, Graphs
  <1>11. transitions' = Append(transitions, t)
    BY <1>8
  <1> HIDE DEF b, copy, fits, t
  <1>12. /\ transitions' \in Seq(Transitions) /\ Len(transitions') = Len(transitions) + 1
         /\ DOMAIN transitions' = 1..(Len(transitions) + 1)
         /\ \A i \in DOMAIN transitions : transitions'[i] = transitions[i]
         /\ transitions'[Len(transitions) + 1] = t
    BY <1>2, <1>10, <1>11, AppendFacts
  <1>13. TypeOK' /\ NothingIsRefused'
    BY <1>1, <1>9, <1>12, RestoringFacts DEF TypeOK, NothingIsRefused
  <1>14. Linked(store, transitions', updates)
    BY <1>1, <1>2, <1>10, <1>11, RestoringFacts, LinkedTransition
  <1>15. \A i \in DOMAIN transitions' :
            Content(transitions'[i].exp) = Content(bundle.transitions[i].exp)
    <2>1. \A i \in DOMAIN transitions :
             Content(transitions[i].exp) = Content(bundle.transitions[i].exp)
      BY <1>1, RestoringFacts DEF RestoringInv
    <2> QED BY <2>1, <1>2, <1>10, <1>12 DEF b
  <1>16. RestoringInv'
    <2>1. updates = <<>>
      BY <1>1, RestoringFacts DEF RestoringInv
    <2> QED BY <2>1, <1>1, <1>2, <1>9, <1>12, <1>15, RestoringFacts DEF RestoringInv
  <1>17. BundleInv'
    BY <1>1, <1>9, RestoringFacts DEF BundleInv
  <1>18. Faithful(buffer', store', seen', torn')
    BY <1>1, <1>9, RestoringFacts, EmptyFaithful DEF RestoringInv
  <1> QED BY <1>1, <1>9, <1>13, <1>14, <1>16, <1>17, <1>18 DEF IInv

LEMMA RestoreUpdateIInv == IInv /\ RestoreUpdate => IInv'
  <1> SUFFICES ASSUME IInv, RestoreUpdate PROVE IInv'
    OBVIOUS
  <1> DEFINE b == bundle.updates[Len(updates) + 1]
             copy == CopyReceipt(b, "receipts")
             fits(t) == {c \in Range(transitions) : Content(c.exp) = Content(t.exp)}
             r == [id |-> copy.id, born |-> copy.born, graph |-> "ledger",
                   inputs |-> UNION {fits(t) : t \in copy.inputs}]
  <1>1. /\ pc = "restoring" /\ Len(transitions) = Len(bundle.transitions)
        /\ Len(updates) < Len(bundle.updates)
    BY DEF RestoreUpdate
  <1>2. /\ updates \in Seq(Receipts) /\ bundle.updates \in Seq(Receipts)
        /\ Len(updates) \in Nat /\ Len(bundle.updates) \in Nat
        /\ DOMAIN updates = 1..Len(updates) /\ DOMAIN bundle.updates = 1..Len(bundle.updates)
        /\ Len(updates) + 1 \in DOMAIN bundle.updates
        /\ \A i \in DOMAIN updates : i \in DOMAIN bundle.updates /\ i < Len(updates) + 1
    <2>1. updates \in Seq(Receipts) /\ bundle.updates \in Seq(Receipts)
      BY <1>1, RestoringFacts DEF TypeOK
    <2> QED BY <2>1, <1>1
  <1>3. b \in Receipts /\ b \in Range(bundle.updates)
    BY <1>2 DEF Range
  <1>4. \A t \in b.inputs : \E c \in Range(transitions) : Content(c.exp) = Content(t.exp)
    <2> SUFFICES ASSUME NEW t \in b.inputs
                 PROVE  \E c \in Range(transitions) : Content(c.exp) = Content(t.exp)
      OBVIOUS
    <2>1. PICK j \in DOMAIN bundle.transitions : bundle.transitions[j] = t
      BY <1>1, <1>3, RestoringFacts DEF Linked, Range
    <2>2. j \in DOMAIN transitions
      <3>1. transitions \in Seq(Transitions) /\ bundle.transitions \in Seq(Transitions)
        BY <1>1, RestoringFacts DEF TypeOK
      <3> QED BY <3>1, <2>1, <1>1
    <2> QED BY <2>1, <2>2, <1>1, RestoringFacts DEF RestoringInv, Range
  <1>5. /\ copy.id = b.id /\ copy.born = b.born
        /\ copy.inputs = {CopyTransition(t, "receipts") : t \in b.inputs}
        /\ \A t : Content(CopyTransition(t, "receipts").exp) = Content(t.exp)
    BY DEF CopyReceipt, CopyTransition, CopyEvent, Content
  <1>6. /\ \A t \in copy.inputs : fits(t) # {}
        /\ \A c \in r.inputs : c \in Range(transitions)
                               /\ \E t \in b.inputs : Content(c.exp) = Content(t.exp)
        /\ \A t \in b.inputs : \E c \in r.inputs : Content(c.exp) = Content(t.exp)
    BY <1>4, <1>5
  <1>7. r \in Receipts /\ r.id = b.id /\ r.inputs \subseteq Range(transitions)
    <2>1. Range(transitions) \subseteq Transitions
      BY <1>1, RestoringFacts DEF TypeOK, Range
    <2>2. r.inputs \in SUBSET Transitions
      BY <1>6, <2>1
    <2>3. b.id \in 1..MaxId /\ b.born \in 1..MaxLives
      BY <1>3 DEF Receipts
    <2> QED BY <2>2, <2>3, <1>5, <1>6 DEF Receipts, Graphs
  <1>8. SameReceipt(r, b)
    <2>1. \A x, y : Content(x.exp) = Content(y.exp)
                    => CopyTransition(x, "saved") = CopyTransition(y, "saved")
      BY DEF Content, CopyTransition, CopyEvent
    <2>2. {CopyTransition(c, "saved") : c \in r.inputs}
          = {CopyTransition(t, "saved") : t \in b.inputs}
      <3> HIDE DEF r, b
      <3> QED BY <2>1, <1>6
    <2>3. r.id = b.id /\ r.born = b.born
      BY <1>5
    <2> HIDE DEF r, b
    <2> QED BY <2>2, <2>3 DEF SameReceipt, CopyReceipt
  <1>9. ReceiptAccepted(r)
    <2>1. \A i \in DOMAIN updates : updates[i].id = bundle.updates[i].id
      BY <1>1, RestoringFacts DEF RestoringInv, SameReceipt, CopyReceipt
    <2>2. \A i \in DOMAIN updates : updates[i].id < b.id
      BY <2>1, <1>1, <1>2, RestoringFacts DEF InOrder, Ordered
    <2> HIDE DEF r, b
    <2> QED BY <2>2, <1>7 DEF ReceiptAccepted
  <1>10. /\ updates' = Append(updates, r)
         /\ UNCHANGED <<pc, life, store, transitions, latest, counter, buffer, seen, torn, bundle>>
    BY <1>6, <1>9 DEF RestoreUpdate, RehydratedUpdate, replay
  <1> HIDE DEF b, copy, fits, r
  <1>11. /\ updates' \in Seq(Receipts) /\ Len(updates') = Len(updates) + 1
         /\ DOMAIN updates' = 1..(Len(updates) + 1)
         /\ \A i \in DOMAIN updates : updates'[i] = updates[i]
         /\ updates'[Len(updates) + 1] = r
    BY <1>2, <1>7, <1>10, AppendFacts
  <1>12. TypeOK' /\ NothingIsRefused'
    BY <1>1, <1>10, <1>11, RestoringFacts DEF TypeOK, NothingIsRefused
  <1>13. Linked(store, transitions, updates')
    BY <1>1, <1>2, <1>7, <1>10, RestoringFacts, LinkedReceipt
  <1>14. \A i \in DOMAIN updates' : SameReceipt(updates'[i], bundle.updates[i])
    <2>1. \A i \in DOMAIN updates : SameReceipt(updates[i], bundle.updates[i])
      BY <1>1, RestoringFacts DEF RestoringInv
    <2>2. SameReceipt(updates'[Len(updates) + 1], bundle.updates[Len(updates) + 1])
      BY <1>8, <1>11 DEF b
    <2>3. \A i \in DOMAIN updates' : i \in DOMAIN updates \/ i = Len(updates) + 1
      BY <1>2, <1>11
    <2> QED BY <2>1, <2>2, <2>3, <1>11
  <1>15. RestoringInv'
    <2>1. RestoringInv /\ Len(transitions) = Len(bundle.transitions)
      BY <1>1, RestoringFacts
    <2>2. Len(updates') <= Len(bundle.updates)
      BY <1>1, <1>2, <1>11
    <2> QED BY <2>1, <2>2, <1>10, <1>14 DEF RestoringInv
  <1>16. BundleInv'
    BY <1>1, <1>10, RestoringFacts DEF BundleInv
  <1>17. Faithful(buffer', store', seen', torn')
    BY <1>1, <1>10, RestoringFacts, EmptyFaithful DEF RestoringInv
  <1> QED BY <1>1, <1>10, <1>12, <1>13, <1>15, <1>16, <1>17 DEF IInv

\* When everything is restored, the process holds the contents of the bundle.
LEMMA RestoredFacts ==
  ASSUME IInv, Resume
  PROVE  /\ pc = "restoring" /\ pc' = "running"
         /\ buffer' = bundle.buffer /\ seen' = bundle.seen /\ torn' = bundle.torn
         /\ counter' = bundle.counter /\ latest' = updates[Len(updates)]
         /\ UNCHANGED <<life, store, transitions, updates, bundle>>
         /\ DOMAIN store = DOMAIN bundle.store
         /\ DOMAIN transitions = DOMAIN bundle.transitions
         /\ DOMAIN updates = DOMAIN bundle.updates
         /\ Len(updates) \in DOMAIN updates /\ Len(updates) = Len(bundle.updates)
         /\ updates[Len(updates)] \in Receipts
         /\ \A i \in DOMAIN store : Content(store[i]) = Content(bundle.store[i])
         /\ \A i \in DOMAIN transitions :
               Content(transitions[i].exp) = Content(bundle.transitions[i].exp)
         /\ \A i \in DOMAIN updates : SameReceipt(updates[i], bundle.updates[i])
  <1>1. /\ pc = "restoring" /\ pc' = "running"
        /\ buffer' = bundle.buffer /\ seen' = bundle.seen /\ torn' = bundle.torn
        /\ counter' = bundle.counter /\ latest' = updates[Len(updates)]
        /\ UNCHANGED <<life, store, transitions, updates, bundle>>
        /\ Len(store) = Len(bundle.store) /\ Len(transitions) = Len(bundle.transitions)
        /\ Len(updates) = Len(bundle.updates)
    BY DEF Resume, ledger
  <1>2. /\ store \in Seq(Events) /\ bundle.store \in Seq(Events)
        /\ transitions \in Seq(Transitions) /\ bundle.transitions \in Seq(Transitions)
        /\ updates \in Seq(Receipts) /\ bundle.updates \in Seq(Receipts) /\ bundle.updates # <<>>
    BY <1>1, RestoringFacts DEF TypeOK
  <1>3. /\ DOMAIN store = DOMAIN bundle.store
        /\ DOMAIN transitions = DOMAIN bundle.transitions
        /\ DOMAIN updates = DOMAIN bundle.updates
        /\ Len(updates) \in DOMAIN updates /\ updates[Len(updates)] \in Receipts
    BY <1>1, <1>2
  <1> QED BY <1>1, <1>3, RestoringFacts DEF RestoringInv

LEMMA ResumeIInv == IInv /\ Resume => IInv'
  <1> SUFFICES ASSUME IInv, Resume PROVE IInv'
    OBVIOUS
  <1>1. pc = "restoring" /\ pc' = "running"
    BY RestoredFacts
  <1>2. TypeOK' /\ NothingIsRefused'
    <2>1. /\ bundle.buffer \in Seq(Contents) /\ Len(bundle.buffer) <= Capacity
          /\ bundle.seen \subseteq 1..MaxId /\ bundle.torn \subseteq 1..MaxId
          /\ bundle.counter \in 0..MaxId
      BY <1>1, RestoringFacts DEF Bundles
    <2> QED BY <2>1, <1>1, RestoredFacts, RestoringFacts DEF TypeOK, NothingIsRefused
  <1>3. Linked(store', transitions', updates') /\ BundleInv'
    BY <1>1, RestoredFacts, RestoringFacts DEF BundleInv
  <1>4. Faithful(buffer', store', seen', torn')
    <2>1. Faithful(bundle.buffer, bundle.store, bundle.seen, bundle.torn)
      BY <1>1, RestoringFacts
    <2>2. \A e \in Range(bundle.store) : \E x \in Range(store) : Content(x) = Content(e)
      BY RestoredFacts DEF Range
    <2>3. Faithful(bundle.buffer, store, bundle.seen, bundle.torn)
      BY <2>1, <2>2 DEF Faithful
    <2> QED BY <2>3, RestoredFacts
  <1>5. RunningInv'
    <2>1. /\ \A i \in DOMAIN store : store[i].id = bundle.store[i].id
          /\ \A i \in DOMAIN transitions : transitions[i].exp.id = bundle.transitions[i].exp.id
          /\ \A i \in DOMAIN updates : updates[i].id = bundle.updates[i].id
      BY RestoredFacts DEF Content, SameReceipt, CopyReceipt
    <2>2. InOrder(bundle.store, bundle.transitions, bundle.updates, bundle.counter)
      BY <1>1, RestoringFacts
    <2>3. InOrder(store, transitions, updates, bundle.counter)
      BY <2>1, <2>2, RestoredFacts DEF InOrder, Ordered, OrderedByEvent
    <2> QED BY <2>3, RestoredFacts DEF RunningInv
  <1> QED BY <1>1, <1>2, <1>3, <1>4, <1>5 DEF IInv

LEMMA ResumeRestores == IInv /\ Resume => ContentsOf(Graph)' = ContentsOf(bundle)
  <1> SUFFICES ASSUME IInv, Resume PROVE ContentsOf(Graph)' = ContentsOf(bundle)
    OBVIOUS
  <1>1. [i \in DOMAIN store |-> Content(store[i])]
        = [i \in DOMAIN bundle.store |-> Content(bundle.store[i])]
    BY RestoredFacts
  <1>2. [i \in DOMAIN transitions |-> CopyTransition(transitions[i], "saved")]
        = [i \in DOMAIN bundle.transitions |-> CopyTransition(bundle.transitions[i], "saved")]
    <2>1. \A x, y : Content(x.exp) = Content(y.exp)
                    => CopyTransition(x, "saved") = CopyTransition(y, "saved")
      BY DEF Content, CopyTransition, CopyEvent
    <2> QED BY <2>1, RestoredFacts
  <1>3. [i \in DOMAIN updates |-> CopyReceipt(updates[i], "saved")]
        = [i \in DOMAIN bundle.updates |-> CopyReceipt(bundle.updates[i], "saved")]
    BY RestoredFacts DEF SameReceipt
  <1>4. /\ latest' # NoReceipt /\ bundle.latest # NoReceipt
        /\ CopyReceipt(latest', "saved") = CopyReceipt(bundle.latest, "saved")
    <2>1. bundle.latest = bundle.updates[Len(bundle.updates)] /\ bundle.updates \in Seq(Receipts)
      BY RestoredFacts, RestoringFacts
    <2>2. bundle.latest \in Receipts
      BY <2>1, RestoredFacts
    <2> QED BY <2>1, <2>2, RestoredFacts, NoReceiptAssumption DEF SameReceipt
  <1> DEFINE g == Graph'
  <1>5. /\ g.store = store /\ g.transitions = transitions /\ g.updates = updates
        /\ g.latest = latest' /\ g.counter = bundle.counter /\ g.buffer = bundle.buffer
        /\ g.seen = bundle.seen /\ g.torn = bundle.torn
    BY RestoredFacts DEF Graph
  <1>6. ContentsOf(g) = ContentsOf(bundle)
    <2> HIDE DEF g
    <2> QED BY <1>1, <1>2, <1>3, <1>4, <1>5 DEF ContentsOf
  <1> QED BY <1>6 DEF ContentsOf, g

-----------------------------------------------------------------------------
LEMMA StutterIInv == IInv /\ UNCHANGED vars => IInv'
  BY DEF IInv, TypeOK, NothingIsRefused, BundleInv, RunningInv, RestoringInv, vars, ledger, replay

\* The records of an agent stay well formed through every life of it, and a restoring
\* process holds a prefix of its bundle.
THEOREM RecoveryInvariant == Spec => []IInv
  <1>1. IInv /\ [Next]_vars => IInv'
    <2> SUFFICES ASSUME IInv, [Next]_vars PROVE IInv'
      OBVIOUS
    <2>1. CASE Observe
      BY <2>1, ObserveIInv
    <2>2. CASE Save
      BY <2>2, SaveIInv
    <2>3. CASE Restart
      BY <2>3, RestartIInv
    <2>4. CASE \E e \in Range(store) : IndexAgain(e)
      BY <2>4, IndexAgainIInv
    <2>5. CASE \E n \in DOMAIN transitions : Learn(n)
      BY <2>5, LearnIInv
    <2>6. CASE RestoreEvent
      BY <2>6, RestoreEventIInv
    <2>7. CASE RestoreTransition
      BY <2>7, RestoreTransitionIInv
    <2>8. CASE RestoreUpdate
      BY <2>8, RestoreUpdateIInv
    <2>9. CASE Resume
      BY <2>9, ResumeIInv
    <2>10. CASE Rest \/ UNCHANGED vars
      BY <2>10, StutterIInv DEF Rest
    <2> QED BY <2>1, <2>2, <2>3, <2>4, <2>5, <2>6, <2>7, <2>8, <2>9, <2>10 DEF Next
  <1> QED BY InitIInv, <1>1, PTL DEF Spec

\* Every variable keeps its type; the buffer never outgrows its capacity.
THEOREM RecoveryTypes == Spec => []TypeOK
  <1>1. IInv => TypeOK
    BY DEF IInv
  <1> QED BY <1>1, RecoveryInvariant, PTL

\* However often an agent is restarted, its transitions refer to the events of its
\* store, its receipts to the transitions of its ledger and its latest update is the
\* last of them: a restored copy never takes the place of a record
\* (append_rehydrated_transition, append_rehydrated_update).
THEOREM LinksAlwaysCanonical == Spec => []LinksAreCanonical
  <1>1. IInv => LinksAreCanonical
    BY DEF IInv, Linked, RunningInv, LinksAreCanonical
  <1> QED BY <1>1, RecoveryInvariant, PTL

\* Every record that was ever accepted is accepted again when its bundle is restored,
\* and so is every new one after it.
THEOREM NothingEverRefused == Spec => []NothingIsRefused
  <1>1. IInv => NothingIsRefused
    BY DEF IInv
  <1> QED BY <1>1, RecoveryInvariant, PTL

\* The replay buffer holds events of the store, each once unless a write was torn,
\* and forgets none before it is full, whatever was evicted, torn or restored.
THEOREM ReplayAlwaysFaithful == Spec => []ReplayIsFaithful
  <1>1. IInv => ReplayIsFaithful
    BY DEF IInv, Faithful, ReplayIsFaithful
  <1> QED BY <1>1, RecoveryInvariant, PTL

\* A process that resumes holds the contents of its bundle, all of them.
THEOREM RestoredIsWhatWasSaved == Spec => RestoredIsSaved
  <1>1. IInv /\ IInv' /\ [Next]_vars =>
            [pc = "restoring" /\ pc' = "running" /\ life' = life
             => ContentsOf(Graph)' = ContentsOf(bundle)]_vars
    <2> SUFFICES ASSUME IInv, [Next]_vars, pc = "restoring", pc' = "running", life' = life
                 PROVE  ContentsOf(Graph)' = ContentsOf(bundle)
      OBVIOUS
    <2>1. life + 1 # life
      BY DEF IInv, TypeOK
    <2>2. Resume
      BY <2>1 DEF Next, Observe, Save, Restart, IndexAgain, Learn, RestoreEvent,
         RestoreTransition, RestoreUpdate, RehydratedUpdate, Rest, vars
    <2> QED BY <2>2, ResumeRestores
  <1> QED BY <1>1, RecoveryInvariant, PTL DEF Spec, RestoredIsSaved

=============================================================================
