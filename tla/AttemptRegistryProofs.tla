------------------------ MODULE AttemptRegistryProofs ------------------------
(***************************************************************************)
(* Theorems about AttemptRegistry for any number of runs and power losses. *)
(*                                                                         *)
(* Who claimed is not recorded by the properties, only that two runs have  *)
(* not; the induction ties every claimed run to the first file that had    *)
(* the marker's name (RunInv), and needs the lock (LockInv) to know that   *)
(* nobody else touches the registry between two steps of a claim or a      *)
(* finalization.  Seen from outside the registry is a OneShotMarker; what  *)
(* that needs to know of temporary names and of the first marker, and that *)
(* the lock is given back, is WorkInv.                                     *)
(***************************************************************************)
EXTENDS AttemptRegistry, SequenceTheorems, TLAPS

LockInv == \A r \in Runs : pc[r] \in Claiming \cup Replacing => holder = r

Started(r) == Marker(r, "started")

\* Two files at most are ever given the name, the second a final one.
NameInv ==
    /\ Len(named) <= 2
    /\ Len(named) = 2 =>
          /\ named[2].run = named[1].run /\ named[2].status # "started"
          /\ named[2] \in synced

\* What a run at each point of its claim or finalization may rely on.
RunInv(r) ==
    /\ pc[r] \in {"created", "filled", "saved"} => Len(named) = 1 /\ named[1] = Started(r)
    /\ pc[r] = "filled" => Started(r) \in written
    /\ pc[r] = "saved" => Started(r) \in synced
    /\ Claimed(r) => durable >= 1 /\ named[1] = Started(r) /\ Started(r) \in synced
    /\ pc[r] \in {"staging", "temp", "tempFilled", "tempSaved"} => Len(named) = 1
    /\ pc[r] = "tempFilled" => Marker(r, aim[r]) \in written
    /\ pc[r] = "tempSaved" => Marker(r, aim[r]) \in synced
    /\ pc[r] = "renamed" => Len(named) = 2 /\ named[2] = Marker(r, aim[r])
    /\ pc[r] = "returned" => durable = 2 /\ named[2] = Marker(r, "completed")

IInv == TypeOK /\ LockInv /\ NameInv /\ \A r \in Runs : RunInv(r)

USE RegistryAssumption

LEMMA MarkerFacts ==
  ASSUME NEW r \in Runs, NEW status \in Statuses
  PROVE  /\ Marker(r, status) \in Files
         /\ Marker(r, status).run = r /\ Marker(r, status).status = status
         /\ \A t, other : Marker(t, other) = Marker(r, status) => t = r /\ other = status
  <1>1. \A t, other : Marker(t, other) = Marker(r, status) =>
           /\ Marker(t, other).run = Marker(r, status).run
           /\ Marker(t, other).status = Marker(r, status).status
    OBVIOUS
  <1> QED BY <1>1 DEF Marker, Files

LEMMA OneOrTwo == \A n \in Nat : n # 0 /\ n <= 2 => n = 1 \/ n = 2
  OBVIOUS

LEMMA InitIInv == Init => IInv
  BY DEF Init, IInv, TypeOK, LockInv, NameInv, RunInv, Claimed, Claiming, Replacing,
     Working, Over, Refused

-----------------------------------------------------------------------------
(* Types *)

LEMMA PowerLossNames ==
  ASSUME TypeOK, PowerLoss
  PROVE  /\ named' \in Seq(Files)
         /\ Len(named') \in durable..Len(named)
         /\ \A i \in 1..Len(named') : named'[i] = named[i]
  <1>1. PICK n \in durable..Len(named) : named' = SubSeq(named, 1, n)
    BY DEF PowerLoss
  <1>2. n \in 0..Len(named) /\ Len(named) \in Nat /\ durable \in Nat
    BY DEF TypeOK
  <1>3. /\ SubSeq(named, 1, n) \in Seq(Files)
        /\ Len(SubSeq(named, 1, n)) = n
        /\ \A i \in 1..n : SubSeq(named, 1, n)[i] = named[i]
    BY <1>2, SubSeqProperties DEF TypeOK
  <1> QED BY <1>1, <1>2, <1>3

-----------------------------------------------------------------------------
(* A step of one run *)

\* What the other runs rely on stands when a step of r gives no new names.
LEMMA OthersKeep ==
  ASSUME IInv, NEW r \in Runs, NEW to, Goto(r, to),
         named' = named, durable' \in {durable, Len(named)},
         written \subseteq written', synced \subseteq synced',
         \A t \in Runs : t # r => aim'[t] = aim[t]
  PROVE  \A t \in Runs : t # r => RunInv(t)'
  <1> SUFFICES ASSUME NEW t \in Runs, t # r PROVE RunInv(t)'
    OBVIOUS
  <1>1. pc'[t] = pc[t] /\ aim'[t] = aim[t]
    BY DEF IInv, TypeOK, Goto
  <1>2. RunInv(t) /\ Len(named) <= 2 /\ durable \in 0..Len(named)
    BY DEF IInv, NameInv, TypeOK
  <1> QED BY <1>1, <1>2 DEF RunInv, Claimed

\* The lock is with the run that claims or replaces.
LEMMA LockKept ==
  ASSUME IInv, NEW r \in Runs, NEW to, Goto(r, to),
         \/ holder' = holder /\ (to \in Claiming \cup Replacing => holder = r)
         \/ holder \in {None, r} /\ holder' = r
         \/ holder \in {None, r} /\ holder' = None /\ to \notin Claiming \cup Replacing
  PROVE  LockInv'
  BY DEF IInv, TypeOK, LockInv, Goto

LEMMA ClaimStep ==
  ASSUME IInv, NEW r \in Runs, Claim(r) PROVE IInv'
  <1> USE DEF Claiming, Replacing, Working, Over, Refused
  <1>0. TypeOK /\ LockInv /\ NameInv /\ RunInv(r) /\ Started(r) \in Files
    BY MarkerFacts DEF IInv, Started, Statuses
  <1>1. CASE LockClaim(r)
    <2>1. TypeOK'
      BY <1>0, <1>1 DEF TypeOK, LockClaim, Goto, disk
    <2>2. LockInv'
      BY <1>1, LockKept DEF LockClaim
    <2>3. /\ Goto(r, "opening") /\ aim' = aim /\ named' = named /\ durable' = durable
          /\ written' = written /\ synced' = synced
      BY <1>1 DEF LockClaim, disk
    <2>4. RunInv(r)'
      BY <1>0, <2>3 DEF TypeOK, RunInv, Claimed, Goto
    <2> QED BY <1>0, <2>1, <2>2, <2>3, <2>4, OthersKeep DEF IInv, NameInv
  <1>2. CASE OpenMarker(r) /\ named # <<>>
    <2>1. TypeOK'
      BY <1>0, <1>2 DEF TypeOK, OpenMarker, Goto
    <2>2. holder = r
      BY <1>0, <1>2 DEF LockInv, OpenMarker
    <2>3. /\ Goto(r, "refused") /\ holder' = None /\ aim' = aim /\ named' = named
          /\ durable' = durable /\ written' = written /\ synced' = synced
      BY <1>2 DEF OpenMarker
    <2>4. LockInv'
      BY <2>2, <2>3, LockKept
    <2>5. RunInv(r)'
      BY <1>0, <2>3 DEF TypeOK, RunInv, Claimed, Goto
    <2> QED BY <1>0, <2>1, <2>3, <2>4, <2>5, OthersKeep DEF IInv, NameInv
  <1>3. CASE OpenMarker(r) /\ named = <<>>
    <2>1. /\ Goto(r, "created") /\ named' = <<Started(r)>> /\ pc[r] = "opening"
          /\ UNCHANGED <<aim, seen, holder, durable, written, synced, temps, powerLosses>>
      BY <1>3 DEF OpenMarker, Started
    <2>2. /\ named' \in Seq(Files) /\ Len(named') = 1 /\ named'[1] = Started(r)
          /\ Len(named) = 0 /\ durable = 0
      BY <1>0, <1>3, <2>1 DEF TypeOK
    <2>3. TypeOK'
      BY <1>0, <2>1, <2>2 DEF TypeOK, Goto
    <2>4. holder = r
      BY <1>0, <2>1 DEF LockInv
    <2>5. LockInv'
      BY <2>1, <2>4, LockKept
    <2>6. ASSUME NEW t \in Runs PROVE RunInv(t)'
      <3>1. CASE t = r
        BY <1>0, <2>1, <2>2, <3>1 DEF TypeOK, RunInv, Claimed, Goto
      <3>2. CASE t # r
        <4>1. pc'[t] = pc[t] /\ RunInv(t) /\ ~Claimed(t)
          BY <1>0, <2>1, <2>2, <3>2 DEF IInv, TypeOK, RunInv, Goto
        <4>2. pc'[t] \notin {"created", "filled", "saved"}
          BY <1>0, <2>4, <3>2, <4>1 DEF LockInv
        <4> QED BY <4>1, <4>2 DEF RunInv, Claimed
      <3> QED BY <3>1, <3>2
    <2> QED BY <2>2, <2>3, <2>5, <2>6 DEF IInv, NameInv
  <1>4. CASE WriteMarker(r)
    <2>1. /\ Goto(r, "filled") /\ pc[r] = "created" /\ written' = written \cup {Started(r)}
          /\ UNCHANGED <<aim, seen, holder, named, durable, synced, temps, powerLosses>>
      BY <1>4 DEF WriteMarker, Started
    <2>2. TypeOK'
      BY <1>0, <2>1 DEF TypeOK, Goto
    <2>3. LockInv'
      BY <1>0, <2>1, LockKept DEF LockInv
    <2>4. RunInv(r)'
      BY <1>0, <2>1 DEF TypeOK, RunInv, Claimed, Goto
    <2> QED BY <1>0, <2>1, <2>2, <2>3, <2>4, OthersKeep DEF IInv, NameInv
  <1>5. CASE SyncMarker(r)
    <2>1. /\ Goto(r, "saved") /\ pc[r] = "filled" /\ synced' = synced \cup {Started(r)}
          /\ UNCHANGED <<aim, seen, holder, named, durable, written, temps, powerLosses>>
      BY <1>5 DEF SyncMarker, Started
    <2>2. TypeOK'
      BY <1>0, <2>1 DEF TypeOK, RunInv, Goto
    <2>3. LockInv'
      BY <1>0, <2>1, LockKept DEF LockInv
    <2>4. RunInv(r)'
      BY <1>0, <2>1 DEF TypeOK, RunInv, Claimed, Goto
    <2> QED BY <1>0, <2>1, <2>2, <2>3, <2>4, OthersKeep DEF IInv, NameInv
  <1>6. CASE ClaimReturns(r)
    <2>1. /\ Goto(r, "claimed") /\ pc[r] = "saved" /\ durable' = Len(named) /\ holder' = None
          /\ UNCHANGED <<aim, seen, named, written, synced, temps, powerLosses>>
      BY <1>6 DEF ClaimReturns
    <2>2. TypeOK'
      BY <1>0, <2>1 DEF TypeOK, Goto
    <2>3. LockInv'
      BY <1>0, <2>1, LockKept DEF LockInv
    <2>4. RunInv(r)'
      BY <1>0, <2>1 DEF TypeOK, RunInv, Claimed, Goto
    <2> QED BY <1>0, <2>1, <2>2, <2>3, <2>4, OthersKeep DEF IInv, NameInv
  <1>7. CASE ClaimRaises(r)
    <2>1. /\ Goto(r, "aborted") /\ pc[r] \in Claiming /\ durable' \in {durable, Len(named)}
          /\ holder' = None /\ UNCHANGED <<aim, seen, named, written, synced, temps, powerLosses>>
      BY <1>7 DEF ClaimRaises
    <2>2. TypeOK'
      BY <1>0, <2>1 DEF TypeOK, Goto
    <2>3. LockInv'
      BY <1>0, <2>1, LockKept DEF LockInv
    <2>4. RunInv(r)'
      BY <1>0, <2>1 DEF TypeOK, RunInv, Claimed, Goto
    <2> QED BY <1>0, <2>1, <2>2, <2>3, <2>4, OthersKeep DEF IInv, NameInv
  <1> QED BY <1>1, <1>2, <1>3, <1>4, <1>5, <1>6, <1>7 DEF Claim

LEMMA RunStep ==
  ASSUME IInv, NEW r \in Runs, Work(r) \/ HandleFailure(r) \/ Kill(r) PROVE IInv'
  <1> USE DEF Claiming, Replacing, Working, Over, Refused
  <1>0. TypeOK /\ LockInv /\ NameInv /\ RunInv(r)
    BY DEF IInv
  <1>1. PICK to \in {"finalizing", "failing", "left", "raised", "killed", "died"} :
           /\ Goto(r, to)
           /\ to = "killed" <=> pc[r] \in Claiming
           /\ pc[r] \in Claiming \cup Working
    <2>1. CASE Work(r)
      BY <2>1 DEF Work
    <2>2. CASE HandleFailure(r)
      BY <2>2 DEF HandleFailure
    <2>3. CASE Kill(r)
      BY <2>3 DEF Kill, Stopped
    <2> QED BY <2>1, <2>2, <2>3
  <1>2. /\ UNCHANGED <<seen, named, durable, written, synced, temps, powerLosses>>
        /\ aim' \in [Runs -> {"completed", "failed"}]
        /\ \A t \in Runs : t # r => aim'[t] = aim[t]
    BY <1>0 DEF TypeOK, Work, HandleFailure, Kill, disk
  <1>3. holder' = holder \/ (holder = r /\ holder' = None)
    BY DEF Work, HandleFailure, Kill
  <1>4. TypeOK'
    BY <1>0, <1>1, <1>2, <1>3 DEF TypeOK, Goto
  <1>5. LockInv'
    BY <1>1, <1>3, LockKept
  <1>6. RunInv(r)'
    BY <1>0, <1>1, <1>2 DEF TypeOK, RunInv, Claimed, Goto
  <1> QED BY <1>0, <1>1, <1>2, <1>4, <1>5, <1>6, OthersKeep DEF IInv, NameInv

LEMMA FinalizeStep ==
  ASSUME IInv, NEW r \in Runs, Finalize(r) PROVE IInv'
  <1> USE DEF Claiming, Replacing, Working, Over, Refused
  <1>0. /\ TypeOK /\ LockInv /\ NameInv /\ RunInv(r)
        /\ aim[r] \in {"completed", "failed"} /\ Marker(r, aim[r]) \in Files
    BY MarkerFacts DEF IInv, TypeOK, Statuses
  <1>1. CASE LockFinalize(r)
    <2>1. pc[r] = "finalizing" /\ holder = None /\ UNCHANGED <<aim, disk, powerLosses>>
      BY <1>1 DEF LockFinalize
    <2>2. CASE /\ Finalizable(r) /\ holder' = r /\ seen' = [seen EXCEPT ![r] = Len(named)]
               /\ Goto(r, "staging")
      <3>1. named # <<>> /\ Last(named).status = "started" /\ Last(named) = named[Len(named)]
        BY <2>2 DEF Finalizable, Loads, OnPath, Last
      <3>2. Len(named) = 1
        <4>1. named \in Seq(Files) /\ Len(named) \in Nat /\ Len(named) # 0
          BY <1>0, <3>1, EmptySeq DEF TypeOK
        <4>2. Len(named) # 2
          BY <1>0, <3>1 DEF NameInv
        <4>3. Len(named) <= 2
          BY <1>0 DEF NameInv
        <4> QED BY <4>1, <4>2, <4>3, OneOrTwo, Zenon
      <3>3. TypeOK'
        BY <1>0, <2>1, <2>2 DEF TypeOK, Goto, disk
      <3>4. LockInv'
        BY <2>1, <2>2, LockKept
      <3>5. RunInv(r)'
        BY <1>0, <2>1, <2>2, <3>2 DEF TypeOK, RunInv, Claimed, Goto, disk
      <3> QED BY <1>0, <2>1, <2>2, <3>3, <3>4, <3>5, OthersKeep DEF IInv, NameInv, disk
    <2>3. CASE UNCHANGED <<holder, seen>> /\ Goto(r, AfterRaise(r))
      <3>1. AfterRaise(r) \in {"failing", "raised"}
        BY DEF AfterRaise
      <3>2. TypeOK'
        BY <1>0, <2>1, <2>3, <3>1 DEF TypeOK, Goto, disk
      <3>3. LockInv'
        BY <2>3, <3>1, LockKept
      <3>4. RunInv(r)'
        BY <1>0, <2>1, <2>3, <3>1 DEF TypeOK, RunInv, Claimed, Goto, disk
      <3> QED BY <1>0, <2>1, <2>3, <3>2, <3>3, <3>4, OthersKeep DEF IInv, NameInv, disk
    <2> QED BY <1>1, <2>2, <2>3 DEF LockFinalize
  <1>2. CASE CreateTemp(r)
    <2>1. /\ Goto(r, "temp") /\ pc[r] = "staging" /\ temps' = temps \cup {r}
          /\ UNCHANGED <<aim, seen, holder, named, durable, written, synced, powerLosses>>
      BY <1>2 DEF CreateTemp
    <2>2. TypeOK'
      BY <1>0, <2>1 DEF TypeOK, Goto
    <2>3. LockInv'
      BY <1>0, <2>1, LockKept DEF LockInv
    <2>4. RunInv(r)'
      BY <1>0, <2>1 DEF TypeOK, RunInv, Claimed, Goto
    <2> QED BY <1>0, <2>1, <2>2, <2>3, <2>4, OthersKeep DEF IInv, NameInv
  <1>3. CASE WriteTemp(r)
    <2>1. /\ Goto(r, "tempFilled") /\ pc[r] = "temp"
          /\ written' = written \cup {Marker(r, aim[r])}
          /\ UNCHANGED <<aim, seen, holder, named, durable, synced, temps, powerLosses>>
      BY <1>3 DEF WriteTemp
    <2>2. TypeOK'
      BY <1>0, <2>1 DEF TypeOK, Goto
    <2>3. LockInv'
      BY <1>0, <2>1, LockKept DEF LockInv
    <2>4. RunInv(r)'
      BY <1>0, <2>1 DEF TypeOK, RunInv, Claimed, Goto
    <2> QED BY <1>0, <2>1, <2>2, <2>3, <2>4, OthersKeep DEF IInv, NameInv
  <1>4. CASE SyncTemp(r)
    <2>1. /\ Goto(r, "tempSaved") /\ pc[r] = "tempFilled"
          /\ synced' = synced \cup {Marker(r, aim[r])}
          /\ UNCHANGED <<aim, seen, holder, named, durable, written, temps, powerLosses>>
      BY <1>4 DEF SyncTemp
    <2>2. TypeOK'
      BY <1>0, <2>1 DEF TypeOK, RunInv, Goto
    <2>3. LockInv'
      BY <1>0, <2>1, LockKept DEF LockInv
    <2>4. RunInv(r)'
      BY <1>0, <2>1 DEF TypeOK, RunInv, Claimed, Goto
    <2> QED BY <1>0, <2>1, <2>2, <2>3, <2>4, OthersKeep DEF IInv, NameInv
  <1>5. CASE ReplaceMarker(r)
    <2>1. /\ Goto(r, "renamed") /\ pc[r] = "tempSaved" /\ named' = Append(named, Marker(r, aim[r]))
          /\ temps' = temps \ {r}
          /\ UNCHANGED <<aim, seen, holder, durable, written, synced, powerLosses>>
      BY <1>5 DEF ReplaceMarker
    <2>2. Len(named) = 1 /\ named[1] = Started(r) /\ durable = 1 /\ Marker(r, aim[r]) \in synced
      <3>1. Claimed(r)
        BY <2>1 DEF Claimed
      <3>2. /\ Len(named) = 1 /\ named[1] = Started(r) /\ durable >= 1
            /\ Marker(r, aim[r]) \in synced
        BY <1>0, <2>1, <3>1 DEF RunInv
      <3>3. durable \in 0..Len(named)
        BY <1>0 DEF TypeOK
      <3> QED BY <3>2, <3>3
    <2>3. /\ named' \in Seq(Files) /\ Len(named') = 2
          /\ named'[1] = named[1] /\ named'[2] = Marker(r, aim[r])
      <3>1. named \in Seq(Files)
        BY <1>0 DEF TypeOK
      <3>2. /\ Append(named, Marker(r, aim[r])) \in Seq(Files)
            /\ Len(Append(named, Marker(r, aim[r]))) = Len(named) + 1
            /\ \A i \in 1..Len(named) : Append(named, Marker(r, aim[r]))[i] = named[i]
            /\ Append(named, Marker(r, aim[r]))[Len(named) + 1] = Marker(r, aim[r])
        BY <1>0, <3>1, AppendProperties
      <3>3. named' = Append(named, Marker(r, aim[r])) /\ Len(named) = 1
        BY <2>1, <2>2
      <3> QED BY <3>2, <3>3
    <2>4. TypeOK'
      BY <1>0, <2>1, <2>2, <2>3 DEF TypeOK, Goto
    <2>5. LockInv'
      BY <1>0, <2>1, LockKept DEF LockInv
    <2>6. NameInv'
      <3>1. Marker(r, aim[r]).run = r /\ Marker(r, aim[r]).status = aim[r] /\ Started(r).run = r
        BY <1>0, MarkerFacts DEF Statuses, Started
      <3> QED BY <1>0, <2>1, <2>2, <2>3, <3>1 DEF NameInv
    <2>7. ASSUME NEW t \in Runs PROVE RunInv(t)'
      <3>1. CASE t = r
        BY <1>0, <2>1, <2>2, <2>3, <3>1 DEF TypeOK, RunInv, Claimed, Goto
      <3>2. CASE t # r
        <4>1. pc'[t] = pc[t] /\ RunInv(t)
          BY <1>0, <2>1, <3>2 DEF IInv, TypeOK, Goto
        <4>2. holder = r /\ pc[t] \notin Claiming \cup Replacing
          BY <1>0, <2>1, <3>2 DEF LockInv
        <4>3. pc[t] # "returned"
          BY <2>2, <4>1 DEF RunInv
        <4> QED BY <2>1, <2>3, <4>1, <4>2, <4>3 DEF RunInv, Claimed
      <3> QED BY <3>1, <3>2
    <2> QED BY <2>4, <2>5, <2>6, <2>7 DEF IInv
  <1>6. CASE FinalizeReturns(r)
    <2>1. /\ pc[r] = "renamed" /\ durable' = Len(named) /\ holder' = None
          /\ UNCHANGED <<aim, seen, named, written, synced, temps, powerLosses>>
      BY <1>6 DEF FinalizeReturns
    <2>2. PICK to \in {"returned", "raised"} :
             Goto(r, to) /\ (to = "returned" => aim[r] = "completed")
      BY <1>0, <1>6 DEF FinalizeReturns
    <2>3. TypeOK'
      BY <1>0, <2>1, <2>2 DEF TypeOK, Goto
    <2>4. LockInv'
      BY <1>0, <2>1, <2>2, LockKept DEF LockInv
    <2>5. RunInv(r)'
      BY <1>0, <2>1, <2>2 DEF TypeOK, RunInv, Claimed, Goto
    <2> QED BY <1>0, <2>1, <2>2, <2>3, <2>4, <2>5, OthersKeep DEF IInv, NameInv
  <1>7. CASE FinalizeRaises(r)
    <2>1. PICK to \in {"failing", "raised"} : Goto(r, to)
      BY <1>7 DEF FinalizeRaises, AfterRaise
    <2>2. /\ pc[r] \in Replacing /\ durable' \in {durable, Len(named)}
          /\ durable' # durable => pc[r] = "renamed"
          /\ holder' = None /\ temps' \subseteq temps
          /\ UNCHANGED <<aim, seen, named, powerLosses>>
      BY <1>7 DEF FinalizeRaises
    <2>3. PICK gone \in SUBSET {Marker(r, aim[r])} :
             /\ written' = written \ gone /\ synced' = synced \ gone
             /\ pc[r] = "renamed" => gone = {}
      <3>1. CASE UNCHANGED <<written, synced>>
        BY <3>1
      <3>2. CASE /\ written' = written \ {Marker(r, aim[r])} /\ synced' = synced \ {Marker(r, aim[r])}
                 /\ pc[r] \in Staged
        BY <3>2 DEF Staged
      <3> QED BY <1>7, <3>1, <3>2 DEF FinalizeRaises
    <2>4. TypeOK'
      BY <1>0, <2>1, <2>2, <2>3 DEF TypeOK, Goto
    <2>5. LockInv'
      BY <1>0, <2>1, <2>2, LockKept DEF LockInv
    <2>6. \A t \in Runs : Started(t) \notin gone
      BY <1>0, MarkerFacts DEF Started, Statuses
    <2>7. Len(named) = 2 => gone = {}
      BY <1>0, <2>2, <2>3 DEF RunInv
    <2>8. ASSUME NEW t \in Runs PROVE RunInv(t)'
      <3>1. CASE t = r
        BY <1>0, <2>1, <2>2, <2>3, <2>6, <3>1 DEF TypeOK, RunInv, Claimed, Goto
      <3>2. CASE t # r
        <4>1. pc'[t] = pc[t] /\ RunInv(t) /\ Len(named) <= 2 /\ durable \in 0..Len(named)
          BY <1>0, <2>1, <3>2 DEF IInv, NameInv, TypeOK, Goto
        <4>2. pc[t] \notin Claiming \cup Replacing
          BY <1>0, <2>2, <3>2 DEF LockInv
        <4> QED BY <2>2, <2>3, <2>6, <4>1, <4>2 DEF RunInv, Claimed
      <3> QED BY <3>1, <3>2
    <2> QED BY <1>0, <2>2, <2>3, <2>4, <2>5, <2>7, <2>8 DEF IInv, NameInv
  <1> QED BY <1>1, <1>2, <1>3, <1>4, <1>5, <1>6, <1>7 DEF Finalize

-----------------------------------------------------------------------------
(* The invariant *)

LEMMA PowerLossStep ==
  ASSUME IInv, PowerLoss PROVE IInv'
  <1> USE DEF Claiming, Replacing, Working, Over, Refused
  <1>0. TypeOK /\ NameInv
    BY DEF IInv
  <1>1. /\ pc' = [r \in Runs |-> Stopped(r)] /\ holder' = None
        /\ UNCHANGED <<aim, seen, durable, synced>>
        /\ written' \subseteq written /\ synced \subseteq written'
        /\ temps' \subseteq Runs /\ powerLosses' \in 0..MaxPowerLosses
    BY <1>0 DEF PowerLoss, Unfinalized, TypeOK
  <1>2. \A r \in Runs : /\ pc'[r] \in {"idle"} \cup Refused \cup Over
                        /\ Claimed(r)' => Claimed(r)
                        /\ pc'[r] = "returned" => pc[r] = "returned"
    BY <1>0, <1>1 DEF TypeOK, Stopped, Claimed
  <1>3. /\ named' \in Seq(Files) /\ Len(named') \in durable..Len(named)
        /\ \A i \in 1..Len(named') : named'[i] = named[i]
    BY <1>0, PowerLossNames
  <1>4. TypeOK'
    BY <1>0, <1>1, <1>2, <1>3 DEF TypeOK
  <1>5. LockInv'
    BY <1>2 DEF LockInv
  <1>6. NameInv'
    BY <1>0, <1>1, <1>3 DEF NameInv, TypeOK
  <1>7. ASSUME NEW r \in Runs PROVE RunInv(r)'
    <2>1. RunInv(r) /\ durable \in 0..Len(named) /\ Len(named) <= 2
      BY <1>0 DEF IInv, TypeOK, NameInv
    <2>2. Claimed(r) => 1 \in 1..Len(named')
      BY <1>3, <2>1 DEF RunInv
    <2>3. pc[r] = "returned" => 2 \in 1..Len(named')
      BY <1>3, <2>1 DEF RunInv
    <2> QED BY <1>1, <1>2, <1>3, <2>1, <2>2, <2>3 DEF RunInv
  <1> QED BY <1>4, <1>5, <1>6, <1>7 DEF IInv

LEMMA NextIInv == IInv /\ [Next]_vars => IInv'
  <1> SUFFICES ASSUME IInv, [Next]_vars PROVE IInv'
    OBVIOUS
  <1>1. CASE UNCHANGED vars
    BY <1>1 DEF IInv, TypeOK, LockInv, NameInv, RunInv, Claimed, vars, disk
  <1>2. CASE Rest
    BY <1>1, <1>2 DEF Rest
  <1> QED BY <1>1, <1>2, ClaimStep, RunStep, FinalizeStep, PowerLossStep DEF Next

LEMMA Invariant == Spec => []IInv
  BY InitIInv, NextIInv, PTL DEF Spec

-----------------------------------------------------------------------------
(* What a run at work leaves behind and relies on *)

\* The lock is with a run that goes on; a temporary name is of the run that claimed, and
\* nothing is renamed yet; what was renamed is of that run too; the marker is still the
\* one that was read; the first marker was a started one.
WorkInv ==
    /\ holder # None => pc[holder] \in Claiming \cup Replacing
    /\ \A r \in temps : Claimed(r) /\ Len(named) = 1
    /\ Len(named) = 2 => Claimed(named[2].run)
    /\ \A r \in Runs : pc[r] \in {"staging"} \cup Staged => seen[r] = Len(named)
    /\ named # <<>> => named[1].status = "started"

LEMMA InitWorkInv == Init => WorkInv
  BY DEF Init, WorkInv, Staged

LEMMA OneMoves ==
  ASSUME TypeOK, NEW r \in Runs, NEW to, Goto(r, to)
  PROVE  pc'[r] = to /\ \A t \in Runs : t # r => pc'[t] = pc[t]
  BY DEF TypeOK, Goto

LEMMA SecondNamed ==
  ASSUME TypeOK PROVE Len(named) = 2 => named[2].run \in Runs
  <1>0. named \in Seq(Files)
    BY DEF TypeOK
  <1>1. Len(named) = 2 => named[2] \in Files
    BY <1>0
  <1> QED BY <1>1 DEF Files

LEMMA ClaimWork ==
  ASSUME IInv, WorkInv, NEW r \in Runs, Claim(r) PROVE WorkInv'
  <1> USE DEF Claiming, Replacing, Staged
  <1>0. TypeOK /\ (holder = None \/ holder \in Runs) /\ temps \subseteq Runs
    BY DEF IInv, TypeOK
  <1>1. PICK to \in Claiming \cup {"refused", "claimed", "aborted"} :
           /\ Goto(r, to) /\ pc[r] \in {"idle"} \cup Claiming
           /\ \/ holder' = holder /\ pc[r] \in Claiming /\ to \in Claiming
              \/ holder' = r /\ to \in Claiming
              \/ holder' = None
    BY DEF Claim, LockClaim, OpenMarker, WriteMarker, SyncMarker, ClaimReturns, ClaimRaises
  <1>2. /\ temps' = temps /\ seen' = seen
        /\ \/ named' = named
           \/ named = <<>> /\ pc[r] = "opening" /\ named' = <<Started(r)>>
    BY DEF Claim, LockClaim, OpenMarker, WriteMarker, SyncMarker, ClaimReturns, ClaimRaises, disk,
       Started
  <1>3. pc'[r] = to /\ \A t \in Runs : t # r => pc'[t] = pc[t]
    BY <1>0, <1>1, OneMoves
  <1>4. holder' # None => pc'[holder'] \in Claiming \cup Replacing
    BY <1>0, <1>1, <1>3 DEF WorkInv
  <1>5. /\ \A t \in temps' : Claimed(t)' /\ Len(named') = 1
        /\ Len(named') = 2 => Claimed(named[2].run)'
    <2>1. \A t \in Runs : Claimed(t) => Claimed(t)'
      BY <1>1, <1>3 DEF Claimed, Working, Over
    <2>2. CASE named' = named
      <3>1. Len(named) = 2 => named[2].run \in Runs
        BY <1>0, SecondNamed
      <3> QED BY <1>0, <1>2, <2>1, <2>2, <3>1 DEF WorkInv
    <2>3. CASE named = <<>> /\ named' = <<Started(r)>>
      BY <1>2, <2>3 DEF WorkInv
    <2> QED BY <1>2, <2>2, <2>3
  <1>6. ASSUME NEW t \in Runs, pc'[t] \in {"staging"} \cup Staged PROVE seen'[t] = Len(named')
    <2>1. t # r /\ pc[t] = pc'[t]
      BY <1>1, <1>3, <1>6
    <2>2. Len(named) = 1
      BY <1>6, <2>1 DEF IInv, RunInv
    <2>3. named # <<>>
      BY <2>2
    <2> QED BY <1>2, <1>6, <2>1, <2>3 DEF WorkInv
  <1>7. named' # <<>> => named'[1].status = "started"
    BY <1>2, MarkerFacts DEF WorkInv, Started, Statuses
  <1> QED BY <1>4, <1>5, <1>6, <1>7 DEF WorkInv

LEMMA RunWork ==
  ASSUME IInv, WorkInv, NEW r \in Runs, Work(r) \/ HandleFailure(r) \/ Kill(r) PROVE WorkInv'
  <1> USE DEF Claiming, Replacing, Staged
  <1>0. TypeOK /\ (holder = None \/ holder \in Runs) /\ temps \subseteq Runs
    BY DEF IInv, TypeOK
  <1>1. PICK to \in {"finalizing", "failing", "left", "raised", "killed", "died"} :
           /\ Goto(r, to)
           /\ \/ pc[r] \in {"claimed", "failing"} /\ holder' = holder
              \/ to \in {"killed", "died"} /\ holder' = IF holder = r THEN None ELSE holder
           /\ to = "died" \/ pc[r] \in Claiming \cup {"claimed", "failing"}
           /\ to = "killed" => pc[r] \in Claiming
    <2>1. CASE Work(r)
      BY <2>1 DEF Work
    <2>2. CASE HandleFailure(r)
      BY <2>2 DEF HandleFailure
    <2>3. CASE Kill(r)
      BY <2>3 DEF Kill, Stopped
    <2> QED BY <2>1, <2>2, <2>3
  <1>2. temps' = temps /\ seen' = seen /\ named' = named
    BY DEF Work, HandleFailure, Kill, disk
  <1>3. pc'[r] = to /\ \A t \in Runs : t # r => pc'[t] = pc[t]
    BY <1>0, <1>1, OneMoves
  <1>4. holder' # None => pc'[holder'] \in Claiming \cup Replacing
    BY <1>0, <1>1, <1>3 DEF WorkInv
  <1>5. /\ \A t \in temps' : Claimed(t)' /\ Len(named') = 1
        /\ Len(named') = 2 => Claimed(named[2].run)'
    <2>1. \A t \in Runs : Claimed(t) => Claimed(t)'
      BY <1>1, <1>3 DEF Claimed, Working, Over
    <2>2. Len(named) = 2 => named[2].run \in Runs
      BY <1>0, SecondNamed
    <2> QED BY <1>0, <1>2, <2>1, <2>2 DEF WorkInv
  <1>6. \A t \in Runs : pc'[t] \in {"staging"} \cup Staged => seen'[t] = Len(named')
    BY <1>1, <1>2, <1>3 DEF WorkInv
  <1> QED BY <1>2, <1>4, <1>5, <1>6 DEF WorkInv

\* A finalization goes on in a claimed run.
LEMMA FinalizeClaimed ==
  ASSUME TypeOK, WorkInv, NEW r \in Runs, NEW to \in Working \cup Over,
         pc'[r] = to, \A t \in Runs : t # r => pc'[t] = pc[t],
         named' = named
  PROVE  /\ \A t \in temps : Claimed(t)' /\ Len(named') = 1
         /\ Len(named') = 2 => Claimed(named[2].run)'
  <1>1. \A t \in Runs : Claimed(t) => Claimed(t)'
    BY DEF Claimed
  <1>2. temps \subseteq Runs /\ (Len(named) = 2 => named[2].run \in Runs)
    BY SecondNamed DEF TypeOK
  <1> QED BY <1>1, <1>2 DEF WorkInv

LEMMA FinalizeWork ==
  ASSUME IInv, WorkInv, NEW r \in Runs, Finalize(r) PROVE WorkInv'
  <1> USE DEF Claiming, Replacing, Staged
  <1>0. TypeOK /\ LockInv /\ (holder = None \/ holder \in Runs) /\ temps \subseteq Runs
    BY DEF IInv, TypeOK
  <1>1. CASE LockFinalize(r)
    <2>1. PICK to \in {"staging", "failing", "raised"} :
             /\ Goto(r, to) /\ pc[r] = "finalizing" /\ temps' = temps /\ named' = named
             /\ \/ to = "staging" /\ holder' = r /\ seen' = [seen EXCEPT ![r] = Len(named)]
                \/ to # "staging" /\ holder' = holder /\ seen' = seen /\ holder = None
      BY <1>1 DEF LockFinalize, AfterRaise, disk
    <2>2. pc'[r] = to /\ \A t \in Runs : t # r => pc'[t] = pc[t]
      BY <1>0, <2>1, OneMoves
    <2>3. \A t \in Runs : pc'[t] \in {"staging"} \cup Staged => seen'[t] = Len(named')
      BY <1>0, <2>1, <2>2 DEF WorkInv, TypeOK
    <2>4. to \in Working \cup Over
      BY DEF Working, Over
    <2> QED BY <1>0, <2>1, <2>2, <2>3, <2>4, FinalizeClaimed DEF WorkInv
  <1>2. CASE CreateTemp(r) \/ WriteTemp(r) \/ SyncTemp(r)
    <2>1. PICK to \in Staged :
             /\ Goto(r, to) /\ pc[r] \in {"staging"} \cup Staged
             /\ holder' = holder /\ seen' = seen /\ named' = named
             /\ temps' \in {temps, temps \cup {r}}
      BY <1>2 DEF CreateTemp, WriteTemp, SyncTemp
    <2>2. pc'[r] = to /\ \A t \in Runs : t # r => pc'[t] = pc[t]
      BY <1>0, <2>1, OneMoves
    <2>3. to \in Working \cup Over
      BY DEF Working
    <2>4. Claimed(r)' /\ Len(named) = 1
      BY <2>1, <2>2, <2>3 DEF Claimed, IInv, RunInv
    <2> QED BY <1>0, <2>1, <2>2, <2>3, <2>4, FinalizeClaimed DEF WorkInv
  <1>3. CASE ReplaceMarker(r)
    <2>1. /\ Goto(r, "renamed") /\ pc[r] = "tempSaved" /\ temps' = temps \ {r}
          /\ holder' = holder /\ seen' = seen
      BY <1>3 DEF ReplaceMarker
    <2>2. pc'[r] = "renamed" /\ \A t \in Runs : t # r => pc'[t] = pc[t]
      BY <1>0, <2>1, OneMoves
    <2>3. \A t \in Runs : pc'[t] \notin {"staging"} \cup Staged
      BY <1>0, <2>1, <2>2 DEF LockInv
    <2>4. named'[1] = named[1] /\ named # <<>>
      <3>1. Len(named) = 1 /\ named \in Seq(Files) /\ named' = Append(named, Marker(r, aim[r]))
        BY <1>3, <2>1 DEF ReplaceMarker, IInv, RunInv, TypeOK
      <3>2. Marker(r, aim[r]) \in Files
        BY MarkerFacts DEF IInv, TypeOK, Statuses
      <3> QED BY <3>1, <3>2, AppendProperties
    <2>5. temps' = {}
      <3>1. ASSUME NEW t \in temps, t # r PROVE FALSE
        <4>1. Claimed(t) /\ Claimed(r)
          BY <2>1, <3>1 DEF WorkInv, Claimed, Working
        <4>2. named[1] = Started(t) /\ named[1] = Started(r)
          BY <1>0, <3>1, <4>1 DEF IInv, RunInv
        <4> QED BY <1>0, <3>1, <4>2, MarkerFacts DEF Started, Statuses
      <3> QED BY <2>1, <3>1
    <2>6. Len(named') = 2 => Claimed(named[2].run)'
      <3>1. Len(named') = 2 => named'[2] = Marker(r, aim[r])
        <4>1. Len(named) = 1 /\ named \in Seq(Files) /\ named' = Append(named, Marker(r, aim[r]))
          BY <1>3, <2>1 DEF ReplaceMarker, IInv, RunInv, TypeOK
        <4> QED BY <4>1
      <3>2. Marker(r, aim[r]).run = r
        BY MarkerFacts DEF IInv, TypeOK, Statuses
      <3> QED BY <2>2, <3>1, <3>2 DEF Claimed, Working
    <2> QED BY <1>0, <2>1, <2>2, <2>3, <2>4, <2>5, <2>6 DEF WorkInv
  <1>4. CASE FinalizeReturns(r) \/ FinalizeRaises(r)
    <2>1. PICK to \in {"returned", "failing", "raised"} :
             /\ Goto(r, to) /\ holder' = None /\ seen' = seen /\ named' = named
             /\ temps' \subseteq temps
      <3>1. CASE FinalizeReturns(r)
        BY <3>1 DEF FinalizeReturns
      <3>2. CASE FinalizeRaises(r)
        BY <3>2 DEF FinalizeRaises, AfterRaise
      <3> QED BY <1>4, <3>1, <3>2
    <2>2. pc'[r] = to /\ \A t \in Runs : t # r => pc'[t] = pc[t]
      BY <1>0, <2>1, OneMoves
    <2>3. to \in Working \cup Over
      BY DEF Working, Over
    <2> QED BY <1>0, <2>1, <2>2, <2>3, FinalizeClaimed DEF WorkInv
  <1> QED BY <1>1, <1>2, <1>3, <1>4 DEF Finalize

LEMMA PowerLossWork ==
  ASSUME IInv, WorkInv, PowerLoss PROVE WorkInv'
  <1> USE DEF Claiming, Replacing, Staged, Working, Over, Refused
  <1>1. /\ pc' = [r \in Runs |-> Stopped(r)] /\ holder' = None
        /\ TypeOK
    BY DEF PowerLoss, IInv
  <1>2. \A r \in Runs : /\ pc'[r] \notin {"staging"} \cup Staged
                        /\ Claimed(r) => Claimed(r)'
    BY <1>1 DEF TypeOK, Stopped, Claimed
  <1>3. named' # <<>> => named # <<>> /\ named'[1] = named[1]
    <2>1. /\ named' \in Seq(Files) /\ Len(named') \in durable..Len(named)
          /\ \A i \in 1..Len(named') : named'[i] = named[i]
      BY <1>1, PowerLossNames
    <2>2. named' # <<>> => Len(named') # 0 /\ Len(named') \in Nat
      BY <2>1, EmptySeq
    <2>3. Len(named) \in Nat /\ durable \in Nat /\ (named = <<>> => Len(named) = 0)
      BY <1>1 DEF TypeOK
    <2> QED BY <2>1, <2>2, <2>3
  <1>4. PICK n \in durable..Len(named) : /\ named' = SubSeq(named, 1, n)
                                         /\ temps' \subseteq temps \cup Unfinalized(n)
    BY DEF PowerLoss
  <1>5. /\ n \in Nat /\ durable \in Nat /\ Len(named) \in 0..2 /\ Len(named') = n
        /\ \A i \in 1..n : named'[i] = named[i]
    <2>1. n \in 0..Len(named) /\ Len(named) \in Nat /\ named \in Seq(Files) /\ durable \in Nat
      BY <1>1 DEF TypeOK
    <2>2. /\ Len(SubSeq(named, 1, n)) = n
          /\ \A i \in 1..n : SubSeq(named, 1, n)[i] = named[i]
      BY <2>1, SubSeqProperties
    <2>3. Len(named) <= 2 /\ n \in Nat
      BY <2>1 DEF IInv, NameInv
    <2>4. named' = SubSeq(named, 1, n)
      BY <1>4
    <2>5. Len(named') = n /\ \A i \in 1..n : named'[i] = named[i]
      BY <2>2, <2>4
    <2>6. \A k \in Nat : k <= 2 => k \in 0..2
      OBVIOUS
    <2>7. Len(named) \in 0..2
      BY <2>1, <2>3, <2>6
    <2> QED BY <2>1, <2>3, <2>5, <2>7, Zenon
  <1>6. \A r \in Runs : Claimed(r) => durable >= 1
    BY DEF IInv, RunInv
  <1>7. Len(named) = 2 => named[2].run \in Runs
    BY <1>1, SecondNamed
  <1>8. ASSUME NEW t \in temps' PROVE Claimed(t)' /\ Len(named') = 1
    <2>1. CASE t \in temps
      BY <1>1, <1>2, <1>4, <1>5, <1>6, <2>1 DEF WorkInv, TypeOK
    <2>2. CASE t \in Unfinalized(n)
      <3>1. PICK i \in n + 1..Len(named) : named[i].run = t /\ named[i].status # "started"
        BY <2>2 DEF Unfinalized
      <3>2. i = 2 /\ Len(named) = 2
        <4>1. i # 1
          BY <1>5, <3>1 DEF WorkInv
        <4> QED BY <1>5, <3>1, <4>1
      <3>3. t \in Runs /\ Claimed(t)
        BY <1>7, <3>1, <3>2 DEF WorkInv
      <3> QED BY <1>2, <1>5, <1>6, <3>1, <3>2, <3>3
    <2> QED BY <1>4, <1>8, <2>1, <2>2
  <1>9. Len(named') = 2 => Claimed(named[2].run)'
    <2> SUFFICES ASSUME Len(named') = 2 PROVE Claimed(named[2].run)'
      OBVIOUS
    <2>1. Len(named) = 2 /\ named'[2] = named[2]
      BY <1>4, <1>5
    <2> QED BY <1>2, <1>7, <2>1 DEF WorkInv
  <1> QED BY <1>1, <1>2, <1>3, <1>8, <1>9 DEF WorkInv, TypeOK

LEMMA NextWork == IInv /\ WorkInv /\ [Next]_vars => WorkInv'
  <1> SUFFICES ASSUME IInv, WorkInv, [Next]_vars PROVE WorkInv'
    OBVIOUS
  <1>1. CASE UNCHANGED vars
    BY <1>1 DEF WorkInv, Claimed, vars, disk
  <1>2. CASE Rest
    BY <1>1, <1>2 DEF Rest
  <1> QED BY <1>1, <1>2, ClaimWork, RunWork, FinalizeWork, PowerLossWork DEF Next

LEMMA WorkInvariant == Spec => []WorkInv
  BY InitWorkInv, NextWork, Invariant, PTL DEF Spec

-----------------------------------------------------------------------------
(* Theorems *)

\* Every variable of the registry keeps its type, for any number of runs.
THEOREM RegistryTypes == Spec => []TypeOK
  <1>1. IInv => TypeOK
    BY DEF IInv
  <1> QED BY <1>1, Invariant, PTL

\* However many runs are started, killed and started again, one of them gets
\* past its claim (claim_attempt).
THEOREM OnlyOneAttempt == Spec => []OneAttempt
  <1>1. IInv => OneAttempt
    <2> SUFFICES ASSUME IInv, NEW r \in Runs, NEW t \in Runs, Claimed(r), Claimed(t)
                 PROVE  r = t
      BY DEF OneAttempt
    <2>1. Started(r) = Started(t)
      BY DEF IInv, RunInv
    <2> QED BY <2>1, MarkerFacts DEF Started, Statuses
  <1> QED BY <1>1, Invariant, PTL

\* The marker of a claimed attempt is there and can be read, through failed
\* finalizations and crashes (claim_attempt, finalize_attempt).
THEOREM MarkerAlwaysStands == Spec => []MarkerStands
  <1>1. IInv => MarkerStands
    <2> SUFFICES ASSUME IInv, NEW r \in Runs, Claimed(r) PROVE Loads(r)
      BY DEF MarkerStands
    <2>1. /\ Len(named) \in {1, 2} /\ named[1] = Started(r) /\ Started(r) \in written
          /\ OnPath = named[Len(named)] /\ Started(r).run = r
      <3>1. /\ durable >= 1 /\ named[1] = Started(r) /\ Started(r) \in synced
            /\ Len(named) <= 2
        BY DEF IInv, RunInv, NameInv
      <3>2. named \in Seq(Files) /\ durable \in 0..Len(named) /\ synced \subseteq written
        BY DEF IInv, TypeOK
      <3>3. Len(named) \in Nat /\ Len(named) # 0
        BY <3>1, <3>2
      <3>4. Started(r).run = r
        BY MarkerFacts DEF Started, Statuses
      <3>5. Len(named) \in {1, 2}
        BY <3>1, <3>3, OneOrTwo, Zenon
      <3>6. named[1] = Started(r) /\ Started(r) \in written
        BY <3>1, <3>2
      <3>7. OnPath = named[Len(named)]
        BY DEF OnPath, Last
      <3> QED BY <3>4, <3>5, <3>6, <3>7
    <2>2. Len(named) = 2 => named[2].run = r /\ named[2] \in written
      BY <2>1 DEF IInv, TypeOK, NameInv
    <2> QED BY <2>1, <2>2 DEF Loads
  <1> QED BY <1>1, Invariant, PTL

\* A run that returned is completed on disk for ever (finalize_attempt).
THEOREM ReturnedStaysCompleted == Spec => []ReturnedIsCompleted
  <1>1. IInv => ReturnedIsCompleted
    BY DEF IInv, TypeOK, NameInv, RunInv, ReturnedIsCompleted, OnPath, Last
  <1> QED BY <1>1, Invariant, PTL

\* A temporary file is never left beside a final marker, whichever finalization failed to
\* clean up and whatever a power loss took back (finalize_attempt).
THEOREM LeftoverAlwaysStarted == Spec => []LeftoverMeansStarted
  <1>1. IInv /\ WorkInv => LeftoverMeansStarted
    <2> SUFFICES ASSUME IInv, WorkInv, NEW r \in temps
                 PROVE  named # <<>> /\ OnPath = Started(r)
      BY DEF LeftoverMeansStarted, Started
    <2>1. r \in Runs /\ Claimed(r) /\ Len(named) = 1
      BY DEF IInv, TypeOK, WorkInv
    <2>2. named[1] = Started(r)
      BY <2>1 DEF IInv, RunInv
    <2> QED BY <2>1, <2>2 DEF OnPath, Last
  <1> QED BY <1>1, Invariant, WorkInvariant, PTL

\* Nobody but the machine losing power changes a final marker, whatever fails
\* and whoever else claims (claim_attempt, finalize_attempt).
THEOREM FinalNeverChanges == Spec => FinalOnce
  <1> DEFINE Kept == (named # <<>> /\ OnPath.status # "started" /\ named' # named)
                        => powerLosses' # powerLosses
  <1>1. ASSUME IInv, [Next]_vars PROVE Kept
    <2> SUFFICES ASSUME named # <<>>, OnPath.status # "started", named' # named
                 PROVE  powerLosses' # powerLosses
      OBVIOUS
    <2>1. CASE PowerLoss
      BY <1>1, <2>1 DEF PowerLoss, IInv, TypeOK
    <2>2. ASSUME NEW r \in Runs, ReplaceMarker(r) PROVE FALSE
      <3>1. pc[r] = "tempSaved" /\ Claimed(r)
        BY <2>2 DEF ReplaceMarker, Claimed, Working, Replacing
      <3>2. Len(named) = 1 /\ named[1] = Started(r)
        BY <1>1, <3>1 DEF IInv, RunInv
      <3>3. OnPath.status = "started"
        BY <3>2, MarkerFacts DEF OnPath, Last, Started, Statuses
      <3> QED BY <3>3
    <2>3. ASSUME NEW r \in Runs, Claim(r) \/ Work(r) \/ HandleFailure(r) \/ Kill(r) PROVE FALSE
      BY <2>3 DEF Claim, LockClaim, OpenMarker, WriteMarker, SyncMarker, ClaimReturns,
         ClaimRaises, Work, HandleFailure, Kill, disk
    <2>4. ASSUME NEW r \in Runs, Finalize(r) PROVE FALSE
      BY <2>2, <2>4 DEF Finalize, LockFinalize, CreateTemp, WriteTemp, SyncTemp,
         FinalizeReturns, FinalizeRaises, disk
    <2>5. CASE Rest \/ UNCHANGED vars
      BY <2>5 DEF Rest, vars, disk
    <2> QED BY <1>1, <2>1, <2>3, <2>4, <2>5 DEF Next
  <1> QED BY <1>1, Invariant, PTL DEF Spec, FinalOnce

\* The lock of the registry is with a run inside its claim or finalization, and
\* every way out of either gives it back (the finally clauses of attempt.py).
THEOREM LockIsReturned == Spec => [](holder # None => pc[holder] \in Claiming \cup Replacing)
  <1>1. WorkInv => (holder # None => pc[holder] \in Claiming \cup Replacing)
    BY DEF WorkInv
  <1> QED BY <1>1, WorkInvariant, PTL

-----------------------------------------------------------------------------
(* No run goes round in circles *)

\* The steps a run has at most before it, from where it stands: a failed
\* completion is followed by one finalization as failed.
StepsLeft(point, status) ==
    LET again == IF status = "completed" THEN 8 ELSE 1 IN
    CASE point = "idle" -> 20 [] point = "opening" -> 19 [] point = "created" -> 18
      [] point = "filled" -> 17 [] point = "saved" -> 16 [] point = "claimed" -> 15
      [] point = "finalizing" -> 6 + again [] point = "staging" -> 5 + again
      [] point = "temp" -> 4 + again [] point = "tempFilled" -> 3 + again
      [] point = "tempSaved" -> 2 + again [] point = "renamed" -> 1 + again
      [] point = "failing" -> 8 [] OTHER -> 0

Left(r) == StepsLeft(pc[r], aim[r])

\* What one step of the system does to the steps a run has left.
StepCounts(r) ==
    /\ Left(r)' < Left(r)
    /\ \A t \in Runs : t # r => Left(t)' = Left(t)

LEMMA StepsLeftFacts ==
  ASSUME NEW status \in {"completed", "failed"}
  PROVE  /\ StepsLeft("idle", status) = 20 /\ StepsLeft("opening", status) = 19
         /\ StepsLeft("created", status) = 18 /\ StepsLeft("filled", status) = 17
         /\ StepsLeft("saved", status) = 16 /\ StepsLeft("claimed", status) = 15
         /\ StepsLeft("failing", status) = 8
         /\ \A point \in Refused \cup Over : StepsLeft(point, status) = 0
  BY DEF StepsLeft, Refused, Over

LEMMA FinalizingStepsLeft ==
  ASSUME NEW status \in {"completed", "failed"}
  PROVE  LET again == IF status = "completed" THEN 8 ELSE 1 IN
         /\ StepsLeft("finalizing", status) = 6 + again
         /\ StepsLeft("staging", status) = 5 + again
         /\ StepsLeft("temp", status) = 4 + again
         /\ StepsLeft("tempFilled", status) = 3 + again
         /\ StepsLeft("tempSaved", status) = 2 + again
         /\ StepsLeft("renamed", status) = 1 + again
  BY DEF StepsLeft

LEMMA StepsLeftType ==
  ASSUME NEW point, NEW status PROVE StepsLeft(point, status) \in 0..20
  BY DEF StepsLeft

LEMMA MoveCounts ==
  ASSUME TypeOK, NEW r \in Runs, NEW to, Goto(r, to),
         \A t \in Runs : t # r => aim'[t] = aim[t],
         StepsLeft(to, aim'[r]) < StepsLeft(pc[r], aim[r])
  PROVE  StepCounts(r)
  <1>1. pc'[r] = to /\ \A t \in Runs : t # r => pc'[t] = pc[t]
    BY OneMoves
  <1> QED BY <1>1 DEF StepCounts, Left

LEMMA RunCounts ==
  ASSUME TypeOK, NEW r \in Runs,
         Claim(r) \/ Work(r) \/ HandleFailure(r) \/ Finalize(r) \/ Kill(r)
  PROVE  StepCounts(r)
  <1> USE DEF Claiming, Replacing, Working, Over, Refused
  <1>0. aim[r] \in {"completed", "failed"}
    BY DEF TypeOK
  <1>1. CASE Claim(r)
    <2>1. PICK to \in {"opening", "created", "filled", "saved", "claimed", "refused", "aborted"} :
             /\ Goto(r, to) /\ aim' = aim
             /\ \/ to = "opening" /\ pc[r] = "idle"
                \/ to = "created" /\ pc[r] = "opening"
                \/ to = "filled" /\ pc[r] = "created"
                \/ to = "saved" /\ pc[r] = "filled"
                \/ to = "claimed" /\ pc[r] = "saved"
                \/ to \in Refused /\ pc[r] \in Claiming
      BY <1>1 DEF Claim, LockClaim, OpenMarker, WriteMarker, SyncMarker, ClaimReturns, ClaimRaises
    <2>2. StepsLeft(to, aim'[r]) < StepsLeft(pc[r], aim[r])
      BY <1>0, <2>1, StepsLeftFacts
    <2> QED BY <2>1, <2>2, MoveCounts
  <1>2. CASE Work(r)
    <2>1. PICK to \in {"finalizing", "failing", "left"} :
             Goto(r, to) /\ aim' = aim /\ pc[r] = "claimed"
      BY <1>2 DEF Work
    <2>2. StepsLeft(to, aim'[r]) < StepsLeft(pc[r], aim[r])
      BY <1>0, <2>1, StepsLeftFacts, FinalizingStepsLeft
    <2> QED BY <2>1, <2>2, MoveCounts
  <1>3. CASE HandleFailure(r)
    <2>1. /\ pc[r] = "failing"
          /\ \/ Goto(r, "finalizing") /\ aim' = [aim EXCEPT ![r] = "failed"]
             \/ Goto(r, "raised") /\ aim' = aim
      BY <1>3 DEF HandleFailure
    <2>2. CASE Goto(r, "finalizing") /\ aim' = [aim EXCEPT ![r] = "failed"]
      <3>1. aim'[r] = "failed" /\ \A t \in Runs : t # r => aim'[t] = aim[t]
        BY <2>2 DEF TypeOK
      <3>2. StepsLeft("finalizing", aim'[r]) < StepsLeft(pc[r], aim[r])
        BY <1>0, <2>1, <3>1, StepsLeftFacts, FinalizingStepsLeft
      <3> QED BY <2>2, <3>1, <3>2, MoveCounts
    <2>3. CASE Goto(r, "raised") /\ aim' = aim
      <3>1. StepsLeft("raised", aim'[r]) < StepsLeft(pc[r], aim[r])
        BY <1>0, <2>1, <2>3, StepsLeftFacts
      <3> QED BY <2>3, <3>1, MoveCounts
    <2> QED BY <2>1, <2>2, <2>3
  <1>4. CASE Finalize(r)
    <2>1. PICK to \in Replacing \cup {"returned", "raised", "failing"} :
             /\ Goto(r, to) /\ aim' = aim
             /\ \/ to = "staging" /\ pc[r] = "finalizing"
                \/ to = "temp" /\ pc[r] = "staging"
                \/ to = "tempFilled" /\ pc[r] = "temp"
                \/ to = "tempSaved" /\ pc[r] = "tempFilled"
                \/ to = "renamed" /\ pc[r] = "tempSaved"
                \/ /\ to \in {"returned", "raised"} \cup (IF aim[r] = "completed" THEN {"failing"} ELSE {})
                   /\ pc[r] \in {"finalizing"} \cup Replacing
      BY <1>4 DEF Finalize, LockFinalize, CreateTemp, WriteTemp, SyncTemp, ReplaceMarker,
         FinalizeReturns, FinalizeRaises, AfterRaise
    <2>2. StepsLeft(to, aim'[r]) < StepsLeft(pc[r], aim[r])
      BY <1>0, <2>1, StepsLeftFacts, FinalizingStepsLeft
    <2> QED BY <2>1, <2>2, MoveCounts
  <1>5. CASE Kill(r)
    <2>1. PICK to \in {"killed", "died"} :
             Goto(r, to) /\ aim' = aim /\ pc[r] \in Claiming \cup Working
      BY <1>5 DEF Kill, Stopped
    <2>2. StepsLeft(to, aim'[r]) < StepsLeft(pc[r], aim[r])
      BY <1>0, <2>1, StepsLeftFacts, FinalizingStepsLeft
    <2> QED BY <2>1, <2>2, MoveCounts
  <1> QED BY <1>1, <1>2, <1>3, <1>4, <1>5

\* Every step of a run brings it nearer to its end and keeps the others where
\* they are, and a loss of power brings nobody back: no failure is handled twice,
\* no finalization is repeated (the safety half of EveryRunEnds).
RunsAdvance ==
    [][\/ \E r \in Runs : StepCounts(r)
       \/ powerLosses' = powerLosses + 1 /\ \A r \in Runs : Left(r)' <= Left(r)]_vars

\* No run goes round in circles between its claim, its work, a finalization that
\* fails and the handler of that failure (_run_q1_attempt).
THEOREM RunsAlwaysAdvance == Spec => RunsAdvance
  <1> DEFINE Advance ==
        \/ \E r \in Runs : StepCounts(r)
        \/ powerLosses' = powerLosses + 1 /\ \A r \in Runs : Left(r)' <= Left(r)
  <1>1. ASSUME TypeOK, [Next]_vars PROVE Advance \/ UNCHANGED vars
    <2>1. CASE PowerLoss
      <3>1. /\ pc' = [r \in Runs |-> Stopped(r)] /\ aim' = aim
            /\ powerLosses' = powerLosses + 1
        BY <2>1 DEF PowerLoss
      <3>2. ASSUME NEW r \in Runs PROVE Left(r)' <= Left(r)
        <4>1. aim[r] \in {"completed", "failed"} /\ pc'[r] = Stopped(r) /\ aim'[r] = aim[r]
          BY <1>1, <3>1 DEF TypeOK
        <4>2. Left(r) \in Nat
          BY StepsLeftType DEF Left
        <4>3. pc'[r] = pc[r] \/ pc'[r] \in Refused \cup Over
          BY <4>1 DEF Stopped, Refused, Over
        <4>4. CASE pc'[r] \in Refused \cup Over
          BY <4>1, <4>2, <4>4, StepsLeftFacts DEF Left
        <4>5. CASE pc'[r] = pc[r]
          BY <4>1, <4>2, <4>5 DEF Left
        <4> QED BY <4>3, <4>4, <4>5
      <3> QED BY <3>1, <3>2
    <2>2. CASE Rest \/ UNCHANGED vars
      BY <2>2 DEF Rest
    <2>3. ASSUME NEW r \in Runs,
                 Claim(r) \/ Work(r) \/ HandleFailure(r) \/ Finalize(r) \/ Kill(r)
          PROVE  Advance
      BY <1>1, <2>3, RunCounts
    <2> QED BY <1>1, <2>1, <2>2, <2>3 DEF Next
  <1> QED BY <1>1, RegistryTypes, PTL DEF Spec, RunsAdvance

-----------------------------------------------------------------------------
(* The registry implements OneShotMarker *)

Shown == <<Owner, Outcome, Settled, Told>>

OwnerIsClaimed ==
    /\ \A r \in Runs : Claimed(r) => Owner = r /\ Owner # None
    /\ (\A r \in Runs : ~Claimed(r)) => Owner = None

\* What the marker says, by the number of files that had its name.
OutcomeIsNamed ==
    /\ Len(named) \in {0, 1, 2} /\ durable \in 0..Len(named)
    /\ Len(named) # 2 => Outcome = "started" /\ ~Settled /\ ~Told
    /\ Len(named) = 2 => Outcome = named[2].status /\ Outcome \in {"completed", "failed"}
    /\ Told => Settled /\ Outcome = "completed"

LEMMA OwnerFacts == IInv => OwnerIsClaimed
  <1> SUFFICES ASSUME IInv PROVE OwnerIsClaimed
    OBVIOUS
  <1>1. \A r, t \in Runs : Claimed(r) /\ Claimed(t) => r = t
    <2>1. \A r, t \in Runs : Claimed(r) /\ Claimed(t) => Started(r) = Started(t)
      BY DEF IInv, RunInv
    <2> QED BY <2>1, MarkerFacts DEF Started, Statuses
  <1>2. ASSUME NEW r \in Runs, Claimed(r) PROVE Owner = r
    <2>1. Owner = CHOOSE t \in Runs : Claimed(t)
      BY <1>2 DEF Owner
    <2>2. Owner \in Runs /\ Claimed(CHOOSE t \in Runs : Claimed(t))
      BY <1>2, <2>1
    <2> QED BY <1>1, <1>2, <2>1, <2>2
  <1>3. (\A r \in Runs : ~Claimed(r)) => Owner = None
    BY DEF Owner
  <1> QED BY <1>2, <1>3 DEF OwnerIsClaimed

LEMMA OwnerThen == IInv' => OwnerIsClaimed'
  BY OwnerFacts, PTL

\* Nobody claims and nobody is done with the attempt: the owner is the same.
LEMMA OwnerKept ==
  ASSUME IInv, IInv', \A r \in Runs : Claimed(r)' = Claimed(r)
  PROVE  Owner' = Owner
  <1>1. CASE \E r \in Runs : Claimed(r)
    <2>1. PICK r \in Runs : Claimed(r)
      BY <1>1
    <2>2. Owner = r /\ Claimed(r)'
      BY <2>1, OwnerFacts DEF OwnerIsClaimed
    <2>3. Owner' = r
      BY <2>2, OwnerThen DEF OwnerIsClaimed
    <2> QED BY <2>2, <2>3
  <1>2. CASE \A r \in Runs : ~Claimed(r)
    BY <1>2 DEF Owner
  <1> QED BY <1>1, <1>2

LEMMA OutcomeFacts == IInv /\ WorkInv => OutcomeIsNamed
  <1> SUFFICES ASSUME IInv, WorkInv PROVE OutcomeIsNamed
    OBVIOUS
  <1>1. /\ named \in Seq(Files) /\ Len(named) \in Nat /\ Len(named) <= 2
        /\ durable \in 0..Len(named) /\ (named = <<>> <=> Len(named) = 0)
    BY EmptySeq DEF IInv, TypeOK, NameInv
  <1>2. Len(named) \in {0, 1, 2}
    BY <1>1, OneOrTwo
  <1>3. Len(named) # 0 => OnPath = named[Len(named)]
    BY DEF OnPath, Last
  <1>4. ASSUME Len(named) # 2 PROVE Outcome = "started" /\ ~Settled /\ ~Told
    <2>1. Outcome = "started"
      BY <1>1, <1>2, <1>3, <1>4 DEF Outcome, WorkInv
    <2>2. ~Settled
      BY <1>1, <1>2, <1>4 DEF Settled
    <2>3. ~Told
      BY <2>2 DEF Told, Settled, IInv, RunInv
    <2> QED BY <2>1, <2>2, <2>3
  <1>5. ASSUME Len(named) = 2
        PROVE  Outcome = named[2].status /\ Outcome \in {"completed", "failed"}
    <2>1. Outcome = named[2].status
      BY <1>1, <1>3, <1>5 DEF Outcome
    <2>2. named[2] \in Files /\ named[2].status # "started"
      <3>1. named[2] \in Files
        BY <1>1, <1>5, ElementOfSeq
      <3> QED BY <1>5, <3>1 DEF IInv, NameInv
    <2> QED BY <2>1, <2>2 DEF Files, Statuses
  <1>6. ASSUME Told PROVE Settled /\ Outcome = "completed"
    <2>1. durable = 2 /\ \E r \in Runs : named[2] = Marker(r, "completed")
      BY <1>6 DEF Told, IInv, RunInv
    <2>2. Len(named) = 2
      BY <1>1, <1>2, <2>1
    <2> QED BY <1>5, <2>1, <2>2, MarkerFacts DEF Settled, Statuses
  <1> QED BY <1>1, <1>2, <1>4, <1>5, <1>6 DEF OutcomeIsNamed

LEMMA OutcomeThen == IInv' /\ WorkInv' => OutcomeIsNamed'
  BY OutcomeFacts, PTL

LEMMA ClaimRefines ==
  ASSUME IInv, WorkInv, IInv', WorkInv', NEW r \in Runs, Claim(r)
  PROVE  Promise!Claim \/ UNCHANGED Shown
  <1> USE DEF Claiming, Replacing, Working, Over, Refused
  <1>0. TypeOK
    BY DEF IInv
  <1>1. PICK to \in {"opening", "created", "filled", "saved", "claimed", "refused", "aborted"} :
           /\ Goto(r, to) /\ pc[r] \in {"idle"} \cup Claiming
           /\ to = "claimed" => pc[r] = "saved" /\ durable' = Len(named) /\ named' = named
    BY DEF Claim, LockClaim, OpenMarker, WriteMarker, SyncMarker, ClaimReturns, ClaimRaises
  <1>2. pc'[r] = to /\ \A t \in Runs : t # r => pc'[t] = pc[t]
    BY <1>0, <1>1, OneMoves
  <1>3. \/ named' = named /\ durable' = durable
        \/ named' = named /\ durable' = Len(named) /\ Len(named) = 1
        \/ named = <<>> /\ Len(named') = 1 /\ durable' = durable
    <2>1. CASE LockClaim(r) \/ WriteMarker(r) \/ SyncMarker(r)
      BY <2>1 DEF LockClaim, WriteMarker, SyncMarker, disk
    <2>2. CASE OpenMarker(r)
      BY <2>2 DEF OpenMarker
    <2>3. CASE ClaimReturns(r)
      BY <2>3 DEF ClaimReturns, IInv, RunInv
    <2>4. CASE ClaimRaises(r)
      BY <2>4 DEF ClaimRaises, IInv, RunInv
    <2> QED BY <2>1, <2>2, <2>3, <2>4 DEF Claim
  <1>4. Told' = Told
    BY <1>1, <1>2 DEF Told
  <1>5. Outcome' = Outcome /\ Settled' = Settled
    <2>1. CASE named' = named /\ durable' = durable
      BY <2>1 DEF Outcome, Settled, OnPath
    <2>2. CASE named' = named /\ durable' = Len(named) /\ Len(named) = 1
      BY <2>2, OutcomeFacts DEF Outcome, Settled, OnPath, OutcomeIsNamed
    <2>3. CASE named = <<>> /\ Len(named') = 1 /\ durable' = durable
      <3>1. Len(named) = 0
        BY <2>3
      <3>2. Outcome = "started" /\ ~Settled
        BY <3>1, OutcomeFacts DEF OutcomeIsNamed
      <3>3. Outcome' = "started"
        BY <2>3, OutcomeThen DEF OutcomeIsNamed
      <3>4. Settled' = Settled
        BY <2>3 DEF Settled
      <3> QED BY <3>2, <3>3, <3>4
    <2> QED BY <1>3, <2>1, <2>2, <2>3
  <1>6. CASE to = "claimed"
    <2>1. \A t \in Runs : ~Claimed(t)
      <3> SUFFICES ASSUME NEW t \in Runs, Claimed(t) PROVE FALSE
        OBVIOUS
      <3>1. Started(t) = Started(r)
        BY <1>1, <1>6 DEF IInv, RunInv
      <3>2. t = r
        BY <3>1, MarkerFacts DEF Started, Statuses
      <3> QED BY <1>1, <1>6, <3>2 DEF Claimed
    <2>2. Owner = None
      BY <2>1, OwnerFacts DEF OwnerIsClaimed
    <2>3. Claimed(r)'
      BY <1>2, <1>6 DEF Claimed
    <2>4. Owner' = r
      BY <2>3, OwnerThen DEF OwnerIsClaimed
    <2> QED BY <1>4, <1>5, <2>2, <2>4 DEF Promise!Claim
  <1>7. CASE to # "claimed"
    <2>1. \A t \in Runs : Claimed(t)' = Claimed(t)
      BY <1>1, <1>2, <1>7 DEF Claimed
    <2> QED BY <1>4, <1>5, <2>1, OwnerKept DEF Shown
  <1> QED BY <1>6, <1>7

LEMMA RunRefines ==
  ASSUME IInv, IInv', NEW r \in Runs, Work(r) \/ HandleFailure(r) \/ Kill(r)
  PROVE  UNCHANGED Shown
  <1> USE DEF Claiming, Replacing, Working, Over, Refused
  <1>1. PICK to \in {"finalizing", "failing", "left", "raised", "killed", "died"} :
           /\ Goto(r, to) /\ pc[r] \in Claiming \cup Working
           /\ to = "killed" <=> pc[r] \in Claiming
    <2>1. CASE Work(r)
      BY <2>1 DEF Work
    <2>2. CASE HandleFailure(r)
      BY <2>2 DEF HandleFailure
    <2>3. CASE Kill(r)
      BY <2>3 DEF Kill, Stopped
    <2> QED BY <2>1, <2>2, <2>3
  <1>2. named' = named /\ durable' = durable
    BY DEF Work, HandleFailure, Kill, disk
  <1>3. pc'[r] = to /\ \A t \in Runs : t # r => pc'[t] = pc[t]
    BY <1>1, OneMoves DEF IInv
  <1>4. \A t \in Runs : Claimed(t)' = Claimed(t) /\ (pc'[t] = "returned") = (pc[t] = "returned")
    BY <1>1, <1>3 DEF Claimed
  <1>5. Outcome' = Outcome /\ Settled' = Settled /\ Told' = Told
    BY <1>2, <1>4 DEF Outcome, OnPath, Settled, Told
  <1> QED BY <1>4, <1>5, OwnerKept DEF Shown

\* The rename decides the outcome, the sync of the directory settles it, and a
\* finalization that returns after both tells its run.
LEMMA FinalizeRefines ==
  ASSUME IInv, WorkInv, IInv', WorkInv', NEW r \in Runs, Finalize(r)
  PROVE  Promise!Decide \/ UNCHANGED Shown
  <1> USE DEF Claiming, Replacing, Working, Over, Refused
  <1>0. TypeOK
    BY DEF IInv
  <1>1. PICK to \in Working \cup {"returned", "raised"} :
           /\ Goto(r, to) /\ pc[r] \in {"finalizing"} \cup Replacing
           /\ to = "returned" => FinalizeReturns(r) /\ aim[r] = "completed"
    <2>1. AfterRaise(r) \in {"failing", "raised"}
      BY DEF AfterRaise
    <2>2. aim[r] \in {"completed", "failed"}
      BY <1>0 DEF TypeOK
    <2>3. CASE FinalizeReturns(r)
      BY <2>2, <2>3 DEF FinalizeReturns
    <2>4. CASE LockFinalize(r) \/ CreateTemp(r) \/ WriteTemp(r) \/ SyncTemp(r) \/ ReplaceMarker(r)
      BY <2>1, <2>4 DEF LockFinalize, CreateTemp, WriteTemp, SyncTemp, ReplaceMarker
    <2>5. CASE FinalizeRaises(r)
      BY <2>1, <2>5 DEF FinalizeRaises
    <2> QED BY <2>3, <2>4, <2>5 DEF Finalize
  <1>2. pc'[r] = to /\ \A t \in Runs : t # r => pc'[t] = pc[t]
    BY <1>0, <1>1, OneMoves
  <1>3. Claimed(r) /\ \A t \in Runs : Claimed(t)' = Claimed(t)
    BY <1>1, <1>2 DEF Claimed
  <1>4. Owner = r /\ Owner' = Owner /\ Owner # None
    BY <1>3, OwnerFacts, OwnerKept DEF OwnerIsClaimed
  <1>5. ~Told
    <2> SUFFICES ASSUME NEW t \in Runs, pc[t] = "returned" PROVE FALSE
      BY DEF Told
    <2>1. Claimed(t) /\ t # r
      BY <1>1 DEF Claimed
    <2> QED BY <1>3, <2>1, OwnerFacts DEF OwnerIsClaimed
  <1>6. Told' <=> to = "returned"
    BY <1>2, <1>5 DEF Told
  <1>7. CASE named' = named /\ durable' = durable /\ to # "returned"
    BY <1>4, <1>5, <1>6, <1>7 DEF Shown, Outcome, OnPath, Settled, Told
  <1>8. CASE ReplaceMarker(r)
    <2>1. pc[r] = "tempSaved" /\ Len(named) = 1 /\ pc'[r] = "renamed" /\ durable' = durable
      BY <1>8, <1>2, OneMoves, <1>0 DEF ReplaceMarker, IInv, RunInv
    <2>2. Len(named') = 2
      BY <2>1 DEF IInv, RunInv
    <2>3. Outcome = "started" /\ ~Settled
      BY <2>1, OutcomeFacts DEF OutcomeIsNamed
    <2>4. Outcome' \in {"completed", "failed"}
      BY <2>2, OutcomeThen DEF OutcomeIsNamed
    <2>5. ~Told'
      BY <1>2, <1>6, <2>1
    <2> QED BY <1>4, <1>5, <2>3, <2>4, <2>5 DEF Promise!Decide
  <1>9. CASE pc[r] = "renamed" /\ named' = named /\ durable' \in {durable, Len(named)}
             /\ (to = "returned" => durable' = Len(named) /\ aim[r] = "completed")
    <2>1. Len(named) = 2 /\ named[2] = Marker(r, aim[r]) /\ aim[r] \in {"completed", "failed"}
      BY <1>0, <1>9 DEF IInv, RunInv, TypeOK
    <2>2. Outcome = aim[r] /\ Outcome' = Outcome
      BY <1>9, <2>1, OutcomeFacts, MarkerFacts DEF Outcome, OnPath, Statuses, OutcomeIsNamed
    <2>3. Settled => Settled'
      BY <1>9, <2>1 DEF Settled
    <2>4. Told' => Settled' /\ Outcome' = "completed"
      BY <1>6, <1>9, <2>1, <2>2 DEF Settled
    <2> QED BY <1>4, <1>5, <2>1, <2>2, <2>3, <2>4 DEF Promise!Decide
  <1>10. CASE FinalizeReturns(r)
    BY <1>1, <1>9, <1>10 DEF FinalizeReturns
  <1>11. CASE FinalizeRaises(r)
    <2>1. to # "returned"
      BY <1>2, <1>11 DEF FinalizeRaises, AfterRaise, Goto, IInv, TypeOK
    <2>2. CASE pc[r] = "renamed"
      BY <1>9, <1>11, <2>1, <2>2 DEF FinalizeRaises
    <2>3. CASE pc[r] # "renamed"
      BY <1>7, <1>11, <2>1, <2>3 DEF FinalizeRaises
    <2> QED BY <2>2, <2>3
  <1>12. CASE LockFinalize(r) \/ CreateTemp(r) \/ WriteTemp(r) \/ SyncTemp(r)
    <2>1. named' = named /\ durable' = durable
      BY <1>12 DEF LockFinalize, CreateTemp, WriteTemp, SyncTemp, disk
    <2>2. to # "returned"
      BY <1>1, <1>2, <1>12 DEF LockFinalize, CreateTemp, WriteTemp, SyncTemp, FinalizeReturns
    <2> QED BY <1>7, <2>1, <2>2
  <1> QED BY <1>8, <1>10, <1>11, <1>12 DEF Finalize

\* A loss of power takes an outcome only if it was not settled.
LEMMA PowerLossRefines ==
  ASSUME IInv, WorkInv, IInv', WorkInv', PowerLoss
  PROVE  Promise!Lose \/ UNCHANGED Shown
  <1> USE DEF Claiming, Replacing, Working, Over, Refused
  <1>1. TypeOK /\ pc' = [r \in Runs |-> Stopped(r)] /\ durable' = durable
    BY DEF IInv, PowerLoss
  <1>2. \A r \in Runs : Claimed(r)' = Claimed(r) /\ (pc'[r] = "returned") = (pc[r] = "returned")
    BY <1>1 DEF TypeOK, Stopped, Claimed
  <1>3. Owner' = Owner /\ Told' = Told /\ Settled' = Settled
    BY <1>1, <1>2, OwnerKept DEF Told, Settled
  <1>4. /\ Len(named') \in durable..Len(named)
        /\ \A i \in 1..Len(named') : named'[i] = named[i]
    BY <1>1, PowerLossNames
  <1>5. /\ Len(named) \in {0, 1, 2} /\ durable \in 0..Len(named)
        /\ Len(named) # 2 => Outcome = "started"
        /\ Len(named) = 2 => Outcome = named[2].status
    BY OutcomeFacts DEF OutcomeIsNamed
  <1>6. /\ Len(named') \in {0, 1, 2}
        /\ Len(named') # 2 => Outcome' = "started"
        /\ Len(named') = 2 => Outcome' = named'[2].status
    BY OutcomeThen DEF OutcomeIsNamed
  <1>7. CASE Len(named') = Len(named)
    BY <1>3, <1>4, <1>5, <1>6, <1>7 DEF Shown
  <1>8. CASE Len(named') # Len(named)
    <2>1. Len(named') # 2 /\ durable # 2
      BY <1>4, <1>5, <1>6, <1>8
    <2> QED BY <1>3, <1>6, <2>1 DEF Promise!Lose, Settled
  <1> QED BY <1>7, <1>8

\* Seen from outside, the registry is claimed once, decides once, and loses an
\* outcome only before its run was told of it, through every failure of a file
\* operation, kill and loss of power (claim_attempt, finalize_attempt).
THEOREM RegistryIsOneShot == Spec => IsOneShot
  <1>1. Init => Promise!Unclaimed
    <2> SUFFICES ASSUME Init PROVE Promise!Unclaimed
      OBVIOUS
    <2>1. IInv /\ WorkInv /\ Len(named) = 0 /\ \A r \in Runs : ~Claimed(r)
      BY InitIInv, InitWorkInv DEF Init, Claimed, Working, Replacing, Over
    <2> QED BY <2>1, OwnerFacts, OutcomeFacts DEF Promise!Unclaimed, OwnerIsClaimed, OutcomeIsNamed
  <1>2. ASSUME IInv, WorkInv, IInv', WorkInv', [Next]_vars
        PROVE  [Promise!Next]_(Promise!vars)
    <2>1. CASE Rest \/ UNCHANGED vars
      BY <2>1 DEF Rest, vars, disk, Promise!vars, Owner, Claimed, Outcome, OnPath, Settled, Told
    <2>2. CASE PowerLoss
      BY <1>2, <2>2, PowerLossRefines DEF Promise!Next, Promise!vars, Shown
    <2>3. ASSUME NEW r \in Runs,
                 Claim(r) \/ Work(r) \/ HandleFailure(r) \/ Finalize(r) \/ Kill(r)
          PROVE  Promise!Next \/ UNCHANGED Shown
      BY <1>2, <2>3, ClaimRefines, RunRefines, FinalizeRefines DEF Promise!Next
    <2> QED BY <1>2, <2>1, <2>2, <2>3 DEF Next, Promise!vars, Shown
  <1> QED BY <1>1, <1>2, Invariant, WorkInvariant, PTL DEF Spec, IsOneShot, Promise!Spec
=============================================================================
