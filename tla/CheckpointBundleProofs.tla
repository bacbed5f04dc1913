------------------------ MODULE CheckpointBundleProofs ------------------------
(***************************************************************************)
(* Theorems about CheckpointBundle for any saves, identities and crashes.  *)
(*                                                                         *)
(* PathIsComplete and SavedSurvives speak of the path after a crash, which *)
(* takes what was not synced; so the induction has to know what had been   *)
(* synced when the rename happened (DiskInv).  IdsAreFresh speaks of a     *)
(* running process, whose identities may come out of any bundle that was   *)
(* ever renamed; so the induction has to know that every bundle is sound,  *)
(* also the ones that are half captured (IdInv).  A bundle is saved in one *)
(* step of AtomicCheckpoint, the rename, although it was captured in       *)
(* pieces before: SaveInv says that until then the pieces are behind what  *)
(* the running agent holds.                                                *)
(***************************************************************************)
EXTENDS CheckpointBundle, SequenceTheorems, TLAPS

\* A process restores from a file that is there.
TypeInv == TypeOK /\ (phase = "restoring" => named # <<>>)

\* Only synced archives are renamed; a save that is past a step has its effect.
DiskInv ==
    /\ \A s \in Savers : synced[s] <= written[s]
    /\ \A s \in Savers : pc[s] \in {"synced", "replaced"} => synced[s] = Len(Archive)
    /\ \A i \in 1..Len(named) : synced[named[i]] = Len(Archive)
    /\ \A i \in 1..Len(named) : pc[named[i]] \in {"replaced"} \cup Ended
    /\ \A s \in Savers : pc[s] = "replaced" => \E i \in 1..Len(named) : named[i] = s
    /\ \A s \in Savers : pc[s] = "returned" => \E i \in 1..durable : named[i] = s

Sound(s) == \A id \in bundle[s].domain_custody : id < bundle[s].identity_counter

\* The records of a bundle are below its counter; while only the records are
\* captured they are below the live counter, which does not go back.
IdInv ==
    /\ IdsAreFresh
    /\ \A s \in Savers : pc[s] \in InProgress => phase = "running"
    /\ \A s \in Savers : pc[s] = "half" => \A id \in bundle[s].domain_custody : id < next
    /\ \A s \in Savers : pc[s] \in {"ready", "created", "writing", "synced", "replaced"} => Sound(s)
    /\ \A i \in 1..Len(named) : Sound(named[i])
    /\ phase # "running" => issued = {}
    /\ phase = "restoring" =>
          /\ "domain_custody" \notin todo => records = bundle[OnPath].domain_custody
          /\ "identity_counter" \notin todo => next = bundle[OnPath].identity_counter

USE BoundsAssumption

LEMMA ArchiveLength == Len(Archive) = 4
  BY DEF Archive, RestoreOrder

-----------------------------------------------------------------------------
(* Types *)

LEMMA TypeInit == Init => TypeOK
  BY ArchiveLength DEF Init, TypeOK, Ids, Bundles, NoBundle, Components, InProgress, Ended

\* A rename adds to the sequence, a power loss cuts it.
LEMMA RenameType ==
  ASSUME TypeOK, NEW s \in Savers, Replace(s)
  PROVE  /\ named' \in Seq(Savers) /\ Len(named') = Len(named) + 1
         /\ named'[Len(named) + 1] = s
         /\ \A i \in 1..Len(named) : named'[i] = named[i]
         /\ \A i \in 1..Len(named') :
               i \in 1..Len(named) \/ (i = Len(named) + 1 /\ named'[i] = s)
  <1>1. Len(named) \in Nat /\ named \in Seq(Savers) /\ named' = Append(named, s)
    BY DEF TypeOK, Replace
  <1>2. /\ named' \in Seq(Savers) /\ Len(named') = Len(named) + 1
        /\ named'[Len(named) + 1] = s
        /\ \A i \in 1..Len(named) : named'[i] = named[i]
    BY <1>1, AppendProperties
  <1>3. \A n \in Nat : \A i \in 1..n + 1 : i \in 1..n \/ i = n + 1
    OBVIOUS
  <1>4. \A i \in 1..Len(named') : i \in 1..Len(named) \/ i = Len(named) + 1
    BY <1>1, <1>2, <1>3
  <1> QED BY <1>2, <1>4

LEMMA PowerLossType ==
  ASSUME TypeOK, PowerLoss
  PROVE  /\ named' \in Seq(Savers)
         /\ Len(named') \in durable..Len(named)
         /\ \A i \in 1..Len(named') : i \in 1..Len(named) /\ named'[i] = named[i]
  <1>1. PICK n \in durable..Len(named) : named' = SubSeq(named, 1, n)
    BY DEF PowerLoss
  <1>2. n \in 0..Len(named) /\ Len(named) \in Nat /\ durable \in Nat
    BY DEF TypeOK
  <1>3. /\ SubSeq(named, 1, n) \in Seq(Savers)
        /\ Len(SubSeq(named, 1, n)) = n
        /\ \A i \in 1..n : SubSeq(named, 1, n)[i] = named[i]
    BY <1>2, SubSeqProperties DEF TypeOK
  <1> QED BY <1>1, <1>2, <1>3

LEMMA CaptureType ==
  ASSUME TypeOK, NEW s \in Savers, Capture(s)
  PROVE  /\ bundle' \in [Savers -> Bundles]
         /\ pc' \in [Savers -> {"idle"} \cup InProgress \cup Ended]
  <1>1. PICK i \in 1..2 :
          /\ pc[s] = <<"idle", "half">>[i]
          /\ bundle' = [bundle EXCEPT ![s][CaptureOrder[i]] = Live(CaptureOrder[i])]
          /\ Goto(s, <<"half", "ready">>[i])
    BY DEF Capture
  <1>2. CASE i = 1
    BY <1>1, <1>2 DEF TypeOK, CaptureOrder, Live, Goto, Bundles, InProgress
  <1>3. CASE i = 2
    BY <1>1, <1>3 DEF TypeOK, CaptureOrder, Live, Goto, Bundles, InProgress
  <1> QED BY <1>2, <1>3

LEMMA TypeNext == TypeInv /\ [Next]_vars => TypeOK'
  <1> SUFFICES ASSUME TypeInv, [Next]_vars PROVE TypeOK'
    OBVIOUS
  <1>0. TypeOK
    BY DEF TypeInv
  <1> USE <1>0, ArchiveLength
  <1>1. CASE NextId
    BY <1>1 DEF TypeOK, NextId, Ids, disk
  <1>2. CASE StoreRecord
    BY <1>2 DEF TypeOK, StoreRecord, Ids, disk
  <1>3. ASSUME NEW s \in Savers, Save(s) PROVE TypeOK'
    <2>1. CASE Capture(s)
      BY <2>1, CaptureType DEF TypeOK, Capture, process, disk
    <2>2. CASE Refuse(s)
      BY <2>2 DEF TypeOK, Refuse, Goto, Ended, process, disk
    <2>3. CASE CreateTemp(s) \/ CloseTemp(s)
      BY <2>3 DEF TypeOK, CreateTemp, CloseTemp, Goto, InProgress, process, disk
    <2>4. CASE WriteEntry(s)
      BY <2>4 DEF TypeOK, WriteEntry, process
    <2>5. CASE SyncFile(s)
      BY <2>5 DEF TypeOK, SyncFile, Goto, InProgress, process
    <2>6. CASE Replace(s)
      <3>1. durable' \in 0..Len(named')
        BY <2>6, RenameType DEF TypeOK, Replace
      <3> QED BY <2>6, <3>1, RenameType DEF TypeOK, Replace, Goto, InProgress, process
    <2>7. CASE SyncDirectory(s)
      BY <2>7 DEF TypeOK, SyncDirectory, Goto, Ended, process
    <2>8. CASE StepRaises(s)
      BY <2>8 DEF TypeOK, StepRaises, Goto, Ended, process
    <2> QED BY <1>3, <2>1, <2>2, <2>3, <2>4, <2>5, <2>6, <2>7, <2>8 DEF Save
  <1>4. CASE Kill
    BY <1>4 DEF TypeOK, Kill, Stop, Ended, disk
  <1>5. CASE PowerLoss
    <2>1. durable' \in 0..Len(named')
      BY <1>5, PowerLossType DEF TypeOK, PowerLoss
    <2>2. written' \in [Savers -> 0..Len(Archive)] /\ temps' \subseteq Savers
      BY <1>5 DEF PowerLoss
    <2> QED BY <1>5, <2>1, <2>2, PowerLossType DEF TypeOK, PowerLoss, Stop, Ended
  <1>6. CASE Restore
    BY <1>6 DEF TypeOK, Restore, disk
  <1>7. CASE RefuseRestore
    BY <1>7 DEF TypeOK, RefuseRestore, disk
  <1>8. CASE RestoreComponent
    <2>1. bundle[OnPath] \in Bundles
      BY <1>8 DEF TypeInv, TypeOK, OnPath, Last, RestoreComponent
    <2>2. records' \subseteq Ids /\ next' \in 0..MaxId /\ todo' \subseteq Components
      BY <1>8, <2>1 DEF TypeOK, RestoreComponent, Bundles
    <2> QED BY <1>8, <2>2 DEF TypeOK, RestoreComponent, disk
  <1>9. CASE RestorerRaises
    BY <1>9 DEF TypeOK, RestorerRaises, disk
  <1>10. CASE Resume
    BY <1>10 DEF TypeOK, Resume, disk
  <1>11. CASE UNCHANGED vars
    BY <1>11 DEF TypeOK, vars, process, disk
  <1>12. CASE Rest
    BY <1>11, <1>12 DEF Rest
  <1> QED BY <1>1, <1>2, <1>3, <1>4, <1>5, <1>6, <1>7, <1>8, <1>9, <1>10, <1>11, <1>12 DEF Next

LEMMA TypeInvNext == TypeInv /\ [Next]_vars => TypeInv'
  <1> SUFFICES ASSUME TypeInv, [Next]_vars, phase' = "restoring" PROVE named' # <<>>
    BY TypeNext DEF TypeInv
  <1>1. CASE phase = "restoring"
    <2>1. named' = named
      BY <1>1 DEF Next, vars, process, disk, NextId, StoreRecord, Save, Capture, Refuse,
         CreateTemp, CloseTemp, WriteEntry, SyncFile, Replace, SyncDirectory, StepRaises, Kill,
         PowerLoss, Stop, Restore, RefuseRestore, RestoreComponent, RestorerRaises,
         Resume, Rest
    <2> QED BY <1>1, <2>1 DEF TypeInv
  <1>2. CASE phase # "restoring"
    <2>1. Restore
      BY <1>2 DEF Next, vars, process, disk, NextId, StoreRecord, Save, Capture, Refuse,
         CreateTemp, CloseTemp, WriteEntry, SyncFile, Replace, SyncDirectory, StepRaises, Kill,
         PowerLoss, Stop, RefuseRestore, RestoreComponent, RestorerRaises, Resume, Rest
    <2> QED BY <2>1 DEF Restore, Loadable, disk
  <1> QED BY <1>1, <1>2

\* Every variable of the checkpoint model keeps its type, for any number of saves,
\* identities and crashes (CheckpointCoordinator, CounterIdentitySource).
THEOREM CheckpointTypes == Spec => []TypeOK
  <1>1. Init => TypeInv
    BY TypeInit DEF TypeInv, Init
  <1>2. TypeInv => TypeOK
    BY DEF TypeInv
  <1> QED BY <1>1, <1>2, TypeInvNext, PTL DEF Spec

-----------------------------------------------------------------------------
(* The disk *)

LEMMA DiskInit == Init => DiskInv
  BY DEF Init, DiskInv

LEMMA DiskNext == TypeInv /\ DiskInv /\ [Next]_vars => DiskInv'
  <1> SUFFICES ASSUME TypeOK, DiskInv, [Next]_vars PROVE DiskInv'
    BY DEF TypeInv
  <1> USE ArchiveLength
  <1>1. ASSUME UNCHANGED <<disk, pc>> PROVE DiskInv'
    BY <1>1 DEF DiskInv, disk
  <1>2. ASSUME NEW s \in Savers, Save(s) PROVE DiskInv'
    <2>1. CASE Capture(s)
      <3>1. PICK i \in 1..2 : pc[s] = <<"idle", "half">>[i] /\ Goto(s, <<"half", "ready">>[i])
        BY <2>1 DEF Capture
      <3>2. pc[s] \in {"idle", "half"} /\ \E to \in {"half", "ready"} : Goto(s, to)
        BY <3>1
      <3> QED BY <2>1, <3>2 DEF TypeOK, DiskInv, Capture, Goto, Ended, disk
    <2>2. CASE Refuse(s)
      BY <2>2 DEF TypeOK, DiskInv, Refuse, Goto, Ended, disk
    <2>3. CASE CreateTemp(s)
      BY <2>3 DEF TypeOK, DiskInv, CreateTemp, Goto, Ended
    <2>9. CASE CloseTemp(s)
      BY <2>9 DEF TypeOK, DiskInv, CloseTemp, Goto, Ended, disk
    <2>4. CASE WriteEntry(s)
      BY <2>4 DEF TypeOK, DiskInv, WriteEntry
    <2>5. CASE SyncFile(s)
      BY <2>5 DEF TypeOK, DiskInv, SyncFile, Goto, Ended
    <2>6. CASE Replace(s)
      <3>1. synced' = synced /\ written' = written /\ durable' = durable /\ pc[s] = "synced"
            /\ pc' = [pc EXCEPT ![s] = "replaced"]
        BY <2>6 DEF Replace, Goto
      <3>2. \A i \in 1..Len(named') : i \in 1..Len(named) \/ (i = Len(named) + 1 /\ named'[i] = s)
        BY <2>6, RenameType
      <3>3. \A i \in 1..Len(named') : synced'[named'[i]] = Len(Archive)
        BY <2>6, <3>1, <3>2, RenameType DEF DiskInv
      <3>4. \A i \in 1..Len(named') : pc'[named'[i]] \in {"replaced"} \cup Ended
        BY <2>6, <3>1, <3>2, RenameType DEF TypeOK, DiskInv
      <3>5. \A t \in Savers : pc'[t] = "replaced" => \E i \in 1..Len(named') : named'[i] = t
        <4>1. Len(named) + 1 \in 1..Len(named') /\ named'[Len(named) + 1] = s
          BY <2>6, RenameType DEF TypeOK
        <4>2. ASSUME NEW t \in Savers, t # s, pc'[t] = "replaced"
              PROVE  \E i \in 1..Len(named') : named'[i] = t
          <5>1. PICK i \in 1..Len(named) : named[i] = t
            BY <3>1, <4>2 DEF TypeOK, DiskInv
          <5> QED BY <2>6, <5>1, RenameType DEF TypeOK
        <4> QED BY <4>1, <4>2
      <3>6. \A t \in Savers : pc'[t] = "returned" => \E i \in 1..durable' : named'[i] = t
        BY <2>6, <3>1, RenameType DEF TypeOK, DiskInv
      <3>7. \A t \in Savers : /\ synced'[t] <= written'[t]
                              /\ pc'[t] \in {"synced", "replaced"} => synced'[t] = Len(Archive)
        BY <3>1 DEF TypeOK, DiskInv
      <3> QED BY <3>3, <3>4, <3>5, <3>6, <3>7 DEF DiskInv
    <2>7. CASE SyncDirectory(s)
      <3>1. /\ synced' = synced /\ written' = written /\ named' = named
            /\ durable' = Len(named) /\ pc[s] = "replaced"
            /\ pc' = [pc EXCEPT ![s] = "returned"]
        BY <2>7 DEF SyncDirectory, Goto
      <3>2. \A t \in Savers : pc'[t] = "returned" => \E i \in 1..durable' : named'[i] = t
        <4> SUFFICES ASSUME NEW t \in Savers, pc'[t] = "returned"
                     PROVE  \E i \in 1..Len(named) : named[i] = t
          BY <3>1
        <4>1. CASE t = s
          BY <3>1, <4>1 DEF DiskInv
        <4>2. CASE t # s
          <5>1. PICK i \in 1..durable : named[i] = t
            BY <3>1, <4>2 DEF TypeOK, DiskInv
          <5> QED BY <5>1 DEF TypeOK
        <4> QED BY <4>1, <4>2
      <3> QED BY <3>1, <3>2 DEF TypeOK, DiskInv, Ended
    <2>8. CASE StepRaises(s)
      BY <2>8 DEF TypeOK, DiskInv, StepRaises, Goto, Ended
    <2> QED BY <1>2, <2>1, <2>2, <2>3, <2>4, <2>5, <2>6, <2>7, <2>8, <2>9 DEF Save
  <1>3. ASSUME Stop
        PROVE  \A t \in Savers : /\ pc'[t] = pc[t] \/ pc'[t] = "killed"
                                /\ pc'[t] \notin InProgress
    BY <1>3 DEF TypeOK, Stop, InProgress, Ended
  <1>4. CASE Kill
    <2>1. UNCHANGED disk /\ Stop
      BY <1>4 DEF Kill
    <2>2. UNCHANGED <<written, synced, named, durable>>
      BY <2>1 DEF disk
    <2>3. \A i \in 1..Len(named) : named[i] \in Savers /\ pc'[named[i]] \in {"replaced"} \cup Ended
      <3>1. \A i \in 1..Len(named) : named[i] \in Savers
        BY DEF TypeOK
      <3> QED BY <1>3, <2>1, <3>1 DEF DiskInv, Ended
    <2>4. \A t \in Savers : pc'[t] \notin {"synced", "replaced"}
      BY <1>3, <2>1 DEF InProgress
    <2>5. \A t \in Savers : pc'[t] = "returned" => pc[t] = "returned"
      BY <1>3, <2>1
    <2> QED BY <2>2, <2>3, <2>4, <2>5 DEF DiskInv
  <1>5. CASE PowerLoss
    <2>1. /\ synced' = synced /\ durable' = durable /\ Stop
          /\ \A t \in Savers : written'[t] \in synced[t]..written[t]
      BY <1>5 DEF PowerLoss
    <2>2. \A i \in 1..Len(named') : i \in 1..Len(named) /\ named'[i] = named[i] /\ named[i] \in Savers
      BY <1>5, PowerLossType DEF TypeOK
    <2>3. \A t \in Savers : synced'[t] <= written'[t]
      BY <2>1 DEF TypeOK
    <2>4. \A t \in Savers : pc'[t] \notin {"synced", "replaced"}
      BY <1>3, <2>1 DEF InProgress
    <2>5. \A i \in 1..Len(named') : synced'[named'[i]] = Len(Archive)
      BY <2>1, <2>2 DEF DiskInv
    <2>6. \A i \in 1..Len(named') : pc'[named'[i]] \in {"replaced"} \cup Ended
      BY <1>3, <2>1, <2>2 DEF DiskInv, Ended
    <2>7. \A t \in Savers : pc'[t] = "returned" => \E i \in 1..durable' : named'[i] = t
      <3> SUFFICES ASSUME NEW t \in Savers, pc'[t] = "returned"
                   PROVE  \E i \in 1..durable' : named'[i] = t
        OBVIOUS
      <3>1. pc[t] = "returned"
        BY <1>3, <2>1
      <3>2. PICK i \in 1..durable : named[i] = t
        BY <3>1 DEF DiskInv
      <3>3. i \in 1..Len(named')
        BY <1>5, PowerLossType DEF TypeOK
      <3> QED BY <1>5, <2>1, <3>2, <3>3, PowerLossType
    <2> QED BY <2>3, <2>4, <2>5, <2>6, <2>7 DEF DiskInv
  <1>6. CASE NextId \/ StoreRecord \/ Restore \/ RefuseRestore \/ RestoreComponent
             \/ RestorerRaises \/ Resume \/ Rest \/ UNCHANGED vars
    <2>1. UNCHANGED <<disk, pc>>
      BY <1>6 DEF NextId, StoreRecord, Restore, RefuseRestore, RestoreComponent,
         RestorerRaises, Resume, Rest, vars, disk
    <2> QED BY <1>1, <2>1
  <1> QED BY <1>2, <1>4, <1>5, <1>6 DEF Next

\* Whatever fails and whenever the machine stops, the path names a bundle that can
\* be loaded, or nothing (CheckpointCoordinator.save).
THEOREM PathAlwaysComplete == Spec => []PathIsComplete
  <1>1. Init => TypeInv /\ DiskInv
    BY TypeInit, DiskInit DEF TypeInv, Init
  <1>2. TypeInv /\ DiskInv => PathIsComplete
    <2> SUFFICES ASSUME TypeOK, DiskInv, named # <<>> PROVE Complete(OnPath)
      BY DEF TypeInv, PathIsComplete, Loadable
    <2>1. Len(named) \in 1..Len(named) /\ OnPath = named[Len(named)] /\ OnPath \in Savers
      BY DEF TypeOK, OnPath, Last
    <2>2. synced[OnPath] = Len(Archive) /\ synced[OnPath] <= written[OnPath]
      BY <2>1 DEF DiskInv
    <2> QED BY <2>1, <2>2, ArchiveLength DEF TypeOK, Complete
  <1> QED BY <1>1, <1>2, TypeInvNext, DiskNext, PTL DEF Spec

\* No crash undoes a save that returned (CheckpointCoordinator.save).
THEOREM SavedAlwaysSurvives == Spec => []SavedSurvives
  <1>1. Init => TypeInv /\ DiskInv
    BY TypeInit, DiskInit DEF TypeInv, Init
  <1>2. TypeInv /\ DiskInv => SavedSurvives
    BY DEF TypeInv, TypeOK, DiskInv, SavedSurvives
  <1> QED BY <1>1, <1>2, TypeInvNext, DiskNext, PTL DEF Spec

-----------------------------------------------------------------------------
(* The identities *)

LEMMA IdInit == Init => IdInv
  BY DEF Init, IdInv, IdsAreFresh, InProgress, Sound

\* One step per action; a bundle is sound from the moment its counter is read.
LEMMA IdNext == TypeInv /\ DiskInv /\ IdInv /\ [Next]_vars => IdInv'
  <1> SUFFICES ASSUME TypeInv, TypeOK, DiskInv, IdInv, [Next]_vars PROVE IdInv'
    BY DEF TypeInv
  <1>1. CASE NextId
    <2>1. /\ phase = "running" /\ phase' = "running" /\ next' = next + 1
          /\ issued' = issued \cup {next} /\ records' = records
          /\ pc' = pc /\ bundle' = bundle /\ named' = named /\ next \in Nat
      BY <1>1 DEF NextId, disk, TypeOK
    <2>2. IdsAreFresh'
      BY <2>1 DEF IdInv, IdsAreFresh, TypeOK, Ids
    <2>3. \A s \in Savers : pc'[s] = "half" => \A id \in bundle'[s].domain_custody : id < next'
      <3> SUFFICES ASSUME NEW s \in Savers, pc[s] = "half",
                          NEW id \in bundle[s].domain_custody
                   PROVE  id < next + 1
        BY <2>1
      <3>1. id \in Int /\ id < next
        BY DEF TypeOK, Bundles, Ids, IdInv
      <3> QED BY <2>1, <3>1
    <2> QED BY <2>1, <2>2, <2>3 DEF IdInv, Sound
  <1>2. CASE StoreRecord
    <2>1. /\ phase = "running" /\ phase' = "running" /\ next' = next
          /\ issued' \cup records' \subseteq issued \cup records
          /\ pc' = pc /\ bundle' = bundle /\ named' = named
      BY <1>2 DEF StoreRecord, disk
    <2> QED BY <2>1 DEF IdInv, IdsAreFresh, Sound
  <1>3. ASSUME NEW s \in Savers, Save(s) PROVE IdInv'
    <2>0. /\ phase = "running" /\ phase' = phase /\ next' = next /\ issued' = issued
          /\ records' = records
      BY <1>3 DEF Save, Capture, Refuse, CreateTemp, CloseTemp, WriteEntry, SyncFile, Replace,
         SyncDirectory, StepRaises, process
    <2>1. CASE Capture(s)
      <3>1. PICK i \in 1..2 :
              /\ pc[s] = <<"idle", "half">>[i]
              /\ bundle' = [bundle EXCEPT ![s][CaptureOrder[i]] = Live(CaptureOrder[i])]
              /\ Goto(s, <<"half", "ready">>[i])
        BY <2>1 DEF Capture
      <3>2. \A t \in Savers : t # s => pc'[t] = pc[t] /\ bundle'[t] = bundle[t]
        BY <3>1 DEF Goto, TypeOK
      <3>3. \A j \in 1..Len(named) : named'[j] = named[j] /\ named[j] \in Savers /\ named[j] # s
        <4>1. pc[s] \in {"idle", "half"}
          BY <3>1
        <4>2. UNCHANGED disk
          BY <2>1 DEF Capture
        <4>3. ASSUME NEW j \in 1..Len(named) PROVE named[j] \in Savers /\ named[j] # s
          <5>1. named[j] \in Savers
            BY DEF TypeOK
          <5>2. pc[named[j]] \in {"replaced", "returned", "raised", "killed"}
            BY DEF DiskInv, Ended
          <5> QED BY <4>1, <5>1, <5>2
        <4>4. named' = named
          BY <4>2 DEF disk
        <4> QED BY <4>3, <4>4
      <3>4. Len(named') = Len(named)
        BY <2>1 DEF Capture, disk
      <3>5. (\A j \in 1..Len(named) : Sound(named[j]))'
        <4>1. ASSUME NEW j \in 1..Len(named) PROVE Sound(named[j])'
          <5>1. Sound(named[j]) /\ bundle'[named'[j]] = bundle[named[j]]
            BY <3>2, <3>3 DEF IdInv
          <5> QED BY <3>3, <5>1 DEF Sound
        <4> QED BY <3>4, <4>1
      <3>6. CASE i = 1
        <4>1. pc'[s] = "half" /\ bundle'[s].domain_custody = records
          BY <3>1, <3>6 DEF TypeOK, CaptureOrder, Live, Goto, Bundles
        <4>2. \A id \in records : id < next
          BY <2>0 DEF IdInv, IdsAreFresh
        <4>3. (\A t \in Savers : pc[t] \in {"ready", "created", "writing", "synced", "replaced"} => Sound(t))'
          BY <3>2, <4>1 DEF IdInv, Sound
        <4>4. (\A t \in Savers : pc[t] = "half" => \A id \in bundle[t].domain_custody : id < next)'
          BY <2>0, <3>2, <4>1, <4>2 DEF IdInv
        <4> QED BY <2>0, <3>5, <4>3, <4>4 DEF IdInv, IdsAreFresh
      <3>7. CASE i = 2
        <4>1. /\ pc[s] = "half" /\ pc'[s] = "ready" /\ bundle'[s].identity_counter = next
              /\ bundle'[s].domain_custody = bundle[s].domain_custody
          BY <3>1, <3>7 DEF TypeOK, CaptureOrder, Live, Goto, Bundles
        <4>2. Sound(s)'
          BY <4>1 DEF IdInv, Sound
        <4>3. (\A t \in Savers : pc[t] \in {"ready", "created", "writing", "synced", "replaced"} => Sound(t))'
          BY <3>2, <4>2 DEF IdInv, Sound
        <4>4. (\A t \in Savers : pc[t] = "half" => \A id \in bundle[t].domain_custody : id < next)'
          BY <2>0, <3>2, <4>1 DEF IdInv
        <4> QED BY <2>0, <3>5, <4>3, <4>4 DEF IdInv, IdsAreFresh
      <3> QED BY <3>6, <3>7
    <2>2. CASE Replace(s)
      <3>1. pc[s] = "synced" /\ pc' = [pc EXCEPT ![s] = "replaced"] /\ bundle' = bundle
        BY <2>2 DEF Replace, Goto
      <3>2. Sound(s)
        BY <3>1 DEF IdInv
      <3>3. (\A j \in 1..Len(named) : Sound(named[j]))'
        <4>1. \A j \in 1..Len(named') : j \in 1..Len(named) \/ (j = Len(named) + 1 /\ named'[j] = s)
          BY <2>2, RenameType
        <4>2. \A j \in 1..Len(named) : named'[j] = named[j]
          BY <2>2, RenameType
        <4>3. \A j \in 1..Len(named') : named'[j] = s \/ Sound(named'[j])
          BY <4>1, <4>2 DEF IdInv
        <4> QED BY <3>1, <3>2, <4>3 DEF Sound
      <3> QED BY <2>0, <3>1, <3>2, <3>3 DEF TypeOK, IdInv, IdsAreFresh, Sound
    <2>3. CASE Refuse(s) \/ CreateTemp(s) \/ CloseTemp(s) \/ WriteEntry(s) \/ SyncFile(s)
               \/ SyncDirectory(s) \/ StepRaises(s)
      <3>1. bundle' = bundle /\ named' = named
        BY <2>3 DEF Refuse, CreateTemp, CloseTemp, WriteEntry, SyncFile, SyncDirectory, StepRaises, disk
      <3>2. \A t \in Savers : pc'[t] = "half" => pc[t] = "half"
        BY <2>3 DEF TypeOK, Refuse, CreateTemp, CloseTemp, WriteEntry, SyncFile, SyncDirectory,
           StepRaises, Goto
      <3>3. \A t \in Savers : pc'[t] \in {"ready", "created", "writing", "synced", "replaced"}
                  => pc[t] \in {"ready", "created", "writing", "synced", "replaced"}
        BY <2>3 DEF TypeOK, Refuse, CreateTemp, CloseTemp, WriteEntry, SyncFile, SyncDirectory,
           StepRaises, Goto
      <3> QED BY <2>0, <3>1, <3>2, <3>3 DEF IdInv, IdsAreFresh, Sound
    <2> QED BY <1>3, <2>1, <2>2, <2>3 DEF Save
  <1>4. CASE Kill \/ PowerLoss
    <2>1. Stop
      BY <1>4 DEF Kill, PowerLoss
    <2>2. /\ phase' = "fresh" /\ issued' = {} /\ bundle' = bundle
          /\ \A s \in Savers : pc'[s] \notin InProgress
      BY <2>1 DEF Stop, TypeOK, InProgress, Ended
    <2>3. \A j \in 1..Len(named') : j \in 1..Len(named) /\ named'[j] = named[j]
      <3>1. CASE Kill
        BY <3>1 DEF Kill, disk
      <3>2. CASE PowerLoss
        BY <3>2, PowerLossType
      <3> QED BY <1>4, <3>1, <3>2
    <2>4. (\A j \in 1..Len(named) : Sound(named[j]))'
      BY <2>2, <2>3 DEF IdInv, Sound
    <2> QED BY <2>2, <2>4 DEF IdInv, IdsAreFresh, InProgress
  <1>5. ASSUME phase # "running", UNCHANGED <<disk, pc, bundle>>, issued' = issued,
               phase' = "restoring" =>
                  /\ "domain_custody" \notin todo' => records' = bundle[OnPath].domain_custody
                  /\ "identity_counter" \notin todo' => next' = bundle[OnPath].identity_counter,
               phase' # "running"
        PROVE  IdInv'
    <2>1. \A s \in Savers : pc'[s] \notin InProgress
      BY <1>5 DEF IdInv
    <2>2. OnPath' = OnPath
      BY <1>5 DEF OnPath, Last, disk
    <2> QED BY <1>5, <2>1, <2>2 DEF IdInv, IdsAreFresh, Sound, disk, InProgress
  <1>6. CASE Restore
    <2>1. todo' = Components
      BY <1>6 DEF Restore, Coverage
    <2> QED BY <1>5, <1>6, <2>1 DEF Restore, Components
  <1>7. CASE RefuseRestore
    BY <1>5, <1>7 DEF RefuseRestore
  <1>8. CASE RestoreComponent
    <2>1. phase = "restoring" /\ phase' = phase /\ UNCHANGED <<disk, pc, bundle>> /\ issued' = issued
      BY <1>8 DEF RestoreComponent
    <2>2. /\ "domain_custody" \notin todo' => records' = bundle[OnPath].domain_custody
          /\ "identity_counter" \notin todo' => next' = bundle[OnPath].identity_counter
      BY <1>8, <2>1 DEF RestoreComponent, RestoreOrder, IdInv
    <2> QED BY <1>5, <2>1, <2>2
  <1>9. CASE RestorerRaises
    BY <1>5, <1>9 DEF RestorerRaises
  <1>10. CASE Resume
    <2>1. /\ phase = "restoring" /\ phase' = "running" /\ todo = {}
          /\ UNCHANGED <<next, issued, records, disk, pc, bundle>>
      BY <1>10 DEF Resume
    <2>2. Len(named) \in 1..Len(named) /\ OnPath = named[Len(named)]
      BY <2>1 DEF TypeInv, TypeOK, OnPath, Last
    <2>3. Sound(OnPath) /\ issued = {}
      BY <2>1, <2>2 DEF IdInv
    <2>4. IdsAreFresh'
      BY <2>1, <2>3 DEF IdInv, IdsAreFresh, Sound
    <2>5. \A s \in Savers : pc'[s] \notin InProgress
      BY <2>1 DEF IdInv
    <2> QED BY <2>1, <2>4, <2>5 DEF IdInv, Sound, disk, InProgress
  <1>11. CASE UNCHANGED vars
    BY <1>11 DEF IdInv, IdsAreFresh, Sound, OnPath, vars, process, disk
  <1>12. CASE Rest
    BY <1>11, <1>12 DEF Rest
  <1> QED
    BY <1>1, <1>2, <1>3, <1>4, <1>6, <1>7, <1>8, <1>9, <1>10, <1>11, <1>12 DEF Next

\* An agent never holds an identity its counter has still to give out, from
\* whichever bundle and after however many crashes it runs (CounterIdentitySource).
THEOREM IdsAlwaysFresh == Spec => []IdsAreFresh
  <1>1. Init => TypeInv /\ DiskInv /\ IdInv
    BY TypeInit, DiskInit, IdInit DEF TypeInv, Init
  <1>2. IdInv => IdsAreFresh
    BY DEF IdInv
  <1> QED BY <1>1, <1>2, TypeInvNext, DiskNext, IdNext, PTL DEF Spec

-----------------------------------------------------------------------------
(* What a save at work has *)

\* What a save has captured is a part of what the running agent holds.
SaveInv ==
    /\ \A s \in Savers : pc[s] \in {"half", "ready", "created", "writing", "synced"}
                            => bundle[s].domain_custody \subseteq records
    /\ \A s \in Savers : pc[s] \in {"ready", "created", "writing", "synced"}
                            => bundle[s].identity_counter <= next

LEMMA SaveInit == Init => SaveInv
  BY DEF Init, SaveInv

\* The components a capture reads, one step after the other.
LEMMA CaptureSteps ==
  ASSUME TypeOK, NEW s \in Savers, Capture(s)
  PROVE  /\ \A t \in Savers : t # s => pc'[t] = pc[t] /\ bundle'[t] = bundle[t]
         /\ \/ /\ pc[s] = "idle" /\ pc'[s] = "half"
               /\ bundle'[s].domain_custody = records
            \/ /\ pc[s] = "half" /\ pc'[s] = "ready"
               /\ bundle'[s].domain_custody = bundle[s].domain_custody
               /\ bundle'[s].identity_counter = next
  <1>1. PICK i \in 1..2 :
          /\ pc[s] = <<"idle", "half">>[i]
          /\ bundle' = [bundle EXCEPT ![s][CaptureOrder[i]] = Live(CaptureOrder[i])]
          /\ Goto(s, <<"half", "ready">>[i])
    BY DEF Capture
  <1>2. \A t \in Savers : t # s => pc'[t] = pc[t] /\ bundle'[t] = bundle[t]
    BY <1>1 DEF Goto, TypeOK
  <1>3. CASE i = 1
    <2>1. /\ pc[s] = "idle" /\ pc'[s] = "half" /\ bundle'[s].domain_custody = records
      BY <1>1, <1>3 DEF TypeOK, CaptureOrder, Live, Goto, Bundles
    <2> QED BY <1>2, <2>1
  <1>4. CASE i = 2
    <2>1. /\ pc[s] = "half" /\ pc'[s] = "ready" /\ bundle'[s].identity_counter = next
          /\ bundle'[s].domain_custody = bundle[s].domain_custody
      BY <1>1, <1>4 DEF TypeOK, CaptureOrder, Live, Goto, Bundles
    <2> QED BY <1>2, <2>1
  <1> QED BY <1>3, <1>4

LEMMA SaveStep ==
  ASSUME TypeOK, SaveInv, NEW s \in Savers, Save(s)
  PROVE  SaveInv'
  <1> USE DEF Ended
  <1>0. records' = records /\ next' = next /\ next \in Int
    BY DEF Save, Capture, Refuse, CreateTemp, CloseTemp, WriteEntry, SyncFile, Replace,
       SyncDirectory, StepRaises, process, TypeOK
  <1>1. CASE Capture(s)
    <2>3. \A t \in Savers : pc'[t] \in {"half", "ready", "created", "writing", "synced"}
                               => bundle'[t].domain_custody \subseteq records
      BY <1>1, CaptureSteps DEF SaveInv
    <2>4. \A t \in Savers : pc'[t] \in {"ready", "created", "writing", "synced"}
                               => bundle'[t].identity_counter <= next
      BY <1>0, <1>1, CaptureSteps DEF SaveInv
    <2> QED BY <1>0, <2>3, <2>4 DEF SaveInv
  <1>2. CASE Refuse(s) \/ CreateTemp(s) \/ CloseTemp(s) \/ WriteEntry(s) \/ SyncFile(s) \/ Replace(s)
             \/ SyncDirectory(s) \/ StepRaises(s)
    <2>1. /\ bundle' = bundle
          /\ \A t \in Savers : t # s => pc'[t] = pc[t]
          /\ pc'[s] \in {"half", "ready", "created", "writing", "synced"}
               => pc[s] \in {"ready", "created", "writing", "synced"}
          /\ pc'[s] # "half"
      BY <1>2 DEF TypeOK, Refuse, CreateTemp, CloseTemp, WriteEntry, SyncFile, Replace,
         SyncDirectory, StepRaises, Goto
    <2> QED BY <1>0, <2>1 DEF SaveInv
  <1> QED BY <1>1, <1>2 DEF Save

LEMMA SaveNext == TypeInv /\ IdInv /\ SaveInv /\ [Next]_vars => SaveInv'
  <1> SUFFICES ASSUME TypeOK, IdInv, SaveInv, [Next]_vars PROVE SaveInv'
    BY DEF TypeInv
  <1>1. CASE NextId \/ StoreRecord
    <2>1. /\ pc' = pc /\ bundle' = bundle
          /\ records \subseteq records' /\ next' \in {next, next + 1}
      BY <1>1 DEF NextId, StoreRecord, disk
    <2>2. ASSUME NEW t \in Savers, bundle[t].identity_counter <= next
          PROVE  bundle'[t].identity_counter <= next'
      <3>1. bundle[t].identity_counter \in Int /\ next \in Int
        BY DEF TypeOK, Bundles
      <3> QED BY <2>1, <2>2, <3>1
    <2> QED BY <2>1, <2>2 DEF SaveInv
  <1>2. CASE Kill \/ PowerLoss
    <2>1. pc' = [s \in Savers |-> IF pc[s] \in InProgress THEN "killed" ELSE pc[s]]
      BY <1>2 DEF Kill, PowerLoss, Stop
    <2>2. \A t \in Savers : pc'[t] \notin {"half", "ready", "created", "writing", "synced"}
      BY <2>1 DEF TypeOK, InProgress, Ended
    <2> QED BY <2>2 DEF SaveInv
  <1>3. CASE Restore \/ RefuseRestore \/ RestoreComponent \/ RestorerRaises \/ Resume
    <2>1. phase # "running" /\ pc' = pc
      BY <1>3 DEF Restore, RefuseRestore, RestoreComponent, RestorerRaises, Resume, disk
    <2>2. \A t \in Savers : pc'[t] \notin {"half", "ready", "created", "writing", "synced"}
      BY <2>1 DEF IdInv, InProgress
    <2> QED BY <2>1, <2>2 DEF SaveInv
  <1>4. CASE Rest \/ UNCHANGED vars
    BY <1>4 DEF SaveInv, Rest, vars, process, disk
  <1> QED BY <1>1, <1>2, <1>3, <1>4, SaveStep DEF Next

\* A save that is not past its rename is not on the path.
LEMMA NotNamed ==
  ASSUME DiskInv, NEW s, pc[s] \in {"idle", "half", "ready", "created", "writing", "synced"}
  PROVE  \A i \in 1..Len(named) : named[i] # s
  BY DEF DiskInv, Ended

\* A temporary name is not on the path, whatever was left behind by a raise or a crash.
TempInv == \A s \in temps : \A i \in 1..Len(named) : named[i] # s

LEMMA TempNext == TypeInv /\ DiskInv /\ TempInv /\ [Next]_vars => TempInv'
  <1> SUFFICES ASSUME TypeOK, DiskInv, TempInv, [Next]_vars PROVE TempInv'
    BY DEF TypeInv
  <1>1. ASSUME NEW s \in Savers, Save(s) PROVE TempInv'
    <2>1. CASE CreateTemp(s)
      BY <2>1, NotNamed DEF CreateTemp, TempInv
    <2>2. CASE Replace(s)
      BY <2>2, RenameType DEF Replace, TempInv
    <2>3. CASE Capture(s) \/ Refuse(s) \/ CloseTemp(s) \/ WriteEntry(s) \/ SyncFile(s)
               \/ SyncDirectory(s) \/ StepRaises(s)
      BY <2>3 DEF Capture, Refuse, CloseTemp, WriteEntry, SyncFile, SyncDirectory, StepRaises,
         disk, TempInv
    <2> QED BY <1>1, <2>1, <2>2, <2>3 DEF Save
  <1>2. CASE PowerLoss
    BY <1>2, PowerLossType DEF PowerLoss, TempInv
  <1>3. CASE UNCHANGED disk
    BY <1>3 DEF disk, TempInv
  <1>4. CASE NextId \/ StoreRecord \/ Kill \/ Restore \/ RefuseRestore \/ RestoreComponent
             \/ RestorerRaises \/ Resume \/ Rest \/ UNCHANGED vars
    BY <1>3, <1>4 DEF NextId, StoreRecord, Kill, Restore, RefuseRestore, RestoreComponent,
       RestorerRaises, Resume, Rest, vars
  <1> QED BY <1>1, <1>2, <1>4 DEF Next

LEMMA Invariant == Spec => [](TypeInv /\ DiskInv /\ IdInv /\ SaveInv /\ TempInv)
  <1>1. Init => TypeInv /\ DiskInv /\ IdInv /\ SaveInv /\ TempInv
    BY TypeInit, DiskInit, IdInit, SaveInit DEF TypeInv, TempInv, Init
  <1> QED BY <1>1, TypeInvNext, DiskNext, IdNext, SaveNext, TempNext, PTL DEF Spec

\* A save that returned has left no temporary file, and whatever raises, is left behind or
\* is cut off around it, no power loss brings one back (CheckpointCoordinator.save).
THEOREM ReturnedAlwaysClean == Spec => []ReturnedLeavesNoTemp
  <1>1. TypeInv /\ DiskInv /\ TempInv => ReturnedLeavesNoTemp
    BY DEF TypeInv, TypeOK, DiskInv, TempInv, ReturnedLeavesNoTemp
  <1> QED BY <1>1, Invariant, PTL

-----------------------------------------------------------------------------
(* Saving and restoring implement AtomicCheckpoint *)

Up == phase = "running"
Shown == <<Up, Agent, Saved, durable, Returned>>

RecordOf(s) == [held |-> bundle[s].domain_custody, next |-> bundle[s].identity_counter]

\* The renamed archives are a sequence, and all of them complete.
LEMMA SavedFacts ==
  ASSUME TypeInv, DiskInv
  PROVE  /\ Len(Saved) = Len(named) /\ DOMAIN Saved = 1..Len(named) /\ Len(named) \in Nat
         /\ \A i \in 1..Len(named) : /\ named[i] \in Savers
                                     /\ Saved[i] = [by |-> named[i], record |-> RecordOf(named[i])]
  <1>1. Len(named) \in Nat /\ \A i \in 1..Len(named) : named[i] \in Savers
    BY DEF TypeInv, TypeOK
  <1>2. Len(Saved) = Len(named) /\ DOMAIN Saved = 1..Len(named)
    BY <1>1 DEF Saved
  <1>3. ASSUME NEW i \in 1..Len(named) PROVE Record(named[i]) = RecordOf(named[i])
    <2>1. named[i] \in Savers /\ synced[named[i]] = Len(Archive)
      BY <1>1 DEF DiskInv
    <2>2. synced[named[i]] <= written[named[i]] /\ written[named[i]] \in 0..Len(Archive)
      BY <2>1 DEF DiskInv, TypeInv, TypeOK
    <2>3. Complete(named[i])
      BY <2>1, <2>2, ArchiveLength DEF Complete
    <2> QED BY <2>3 DEF Record, RecordOf
  <1> QED BY <1>1, <1>2, <1>3 DEF Saved

\* The saved archives do not change when names and archives of named saves do not.
LEMMA SavedKept ==
  ASSUME TypeInv, named' = named,
         \A i \in 1..Len(named) : /\ written'[named[i]] = written[named[i]]
                                  /\ bundle'[named[i]] = bundle[named[i]]
  PROVE  Saved' = Saved
  BY DEF Saved, Record, Complete, Torn

LEMMA SaveRefines ==
  ASSUME TypeInv, DiskInv, IdInv, SaveInv, TypeInv', DiskInv', NEW s \in Savers, Save(s)
  PROVE  Promise!Save \/ Promise!Return \/ UNCHANGED Shown
  <1>0. /\ phase = "running" /\ UNCHANGED process /\ Up' = Up /\ Agent' = Agent /\ Up
        /\ TypeOK
    BY DEF Save, Capture, Refuse, CreateTemp, CloseTemp, WriteEntry, SyncFile, Replace,
       SyncDirectory, StepRaises, process, Up, Agent, TypeInv
  <1>1. CASE Capture(s)
    <2>1. pc[s] \in {"idle", "half"} /\ pc'[s] \in {"half", "ready"} /\ UNCHANGED disk
          /\ \A t \in Savers : t # s => pc'[t] = pc[t] /\ bundle'[t] = bundle[t]
      BY <1>0, <1>1, CaptureSteps DEF Capture
    <2>2. \A i \in 1..Len(named) : named[i] # s /\ named[i] \in Savers
      BY <2>1, NotNamed, SavedFacts
    <2>3. Saved' = Saved
      BY <2>1, <2>2, SavedKept DEF disk
    <2>4. Returned' = Returned
      BY <2>1 DEF Returned
    <2> QED BY <1>0, <2>1, <2>3, <2>4 DEF Shown, disk
  <1>2. CASE Refuse(s) \/ CreateTemp(s) \/ CloseTemp(s) \/ WriteEntry(s) \/ SyncFile(s)
             \/ StepRaises(s)
    <2>1. /\ bundle' = bundle /\ named' = named /\ durable' = durable
          /\ \A t \in Savers : t # s => written'[t] = written[t]
          /\ written' = written \/ pc[s] = "writing"
      BY <1>0, <1>2 DEF Refuse, CreateTemp, CloseTemp, WriteEntry, SyncFile, StepRaises, disk, TypeOK
    <2>2. \A i \in 1..Len(named) : named[i] \in Savers /\ (pc[s] = "writing" => named[i] # s)
      BY NotNamed, SavedFacts
    <2>3. Saved' = Saved
      BY <2>1, <2>2, SavedKept
    <2>4. Returned' = Returned
      BY <1>0, <1>2 DEF Refuse, CreateTemp, CloseTemp, WriteEntry, SyncFile, StepRaises,
                    Returned, Goto, TypeOK
    <2> QED BY <1>0, <2>1, <2>3, <2>4 DEF Shown
  <1>3. CASE Replace(s)
    <2>1. /\ pc[s] = "synced" /\ UNCHANGED <<written, durable, bundle>>
          /\ pc' = [pc EXCEPT ![s] = "replaced"]
      BY <1>3 DEF Replace, Goto
    <2>2. Returned' = Returned
      BY <1>0, <2>1 DEF Returned, TypeOK
    <2>3. RecordOf(s) \in [held : SUBSET Agent.held, next : 0..Agent.next]
      <3>1. bundle[s] \in Bundles /\ next \in 0..MaxId
        BY <1>0 DEF TypeOK
      <3>2. bundle[s].domain_custody \subseteq records /\ bundle[s].identity_counter \in 0..next
        BY <2>1, <3>1 DEF SaveInv, Bundles
      <3> QED BY <1>0, <3>2 DEF RecordOf, Agent
    <2>4. Promise!Past(RecordOf(s))
      <3>1. \A id \in RecordOf(s).held : id < RecordOf(s).next
        BY <2>1 DEF IdInv, Sound, RecordOf
      <3>2. RecordOf(s).held \subseteq Agent.held /\ RecordOf(s).next <= Agent.next
        BY <1>0, <2>3 DEF TypeOK, Agent
      <3> QED BY <3>1, <3>2 DEF Promise!Past
    <2>5. Saved' = Append(Saved, [by |-> s, record |-> RecordOf(s)])
      <3>1. /\ Len(named') = Len(named) + 1 /\ named'[Len(named) + 1] = s
            /\ \A i \in 1..Len(named) : named'[i] = named[i]
        BY <1>0, <1>3, RenameType
      <3>2. /\ Len(Saved) = Len(named) /\ Len(named) \in Nat
            /\ \A i \in 1..Len(named) : Saved[i] = [by |-> named[i], record |-> RecordOf(named[i])]
        BY SavedFacts
      <3>3. Saved' = [i \in 1..Len(named') |-> [by |-> named'[i], record |-> Record(named[i])']]
        BY DEF Saved
      <3>4. \A i \in 1..Len(named') : Record(named[i])' = RecordOf(named[i])'
        <4>1. \A i \in 1..Len(named) : Complete(named[i])
          <5>1. ASSUME NEW i \in 1..Len(named) PROVE Complete(named[i])
            <6>1. named[i] \in Savers /\ synced[named[i]] = Len(Archive)
              BY SavedFacts DEF DiskInv
            <6> QED BY <1>0, <6>1, ArchiveLength DEF DiskInv, TypeOK, Complete
          <5> QED BY <5>1
        <4>2. Complete(s)
          BY <1>0, <2>1, ArchiveLength DEF DiskInv, TypeOK, Complete
        <4>3. \A i \in 1..Len(named') : Complete(named[i])'
          BY <1>0, <1>3, <2>1, <3>1, <4>1, <4>2, RenameType DEF Complete
        <4> QED BY <4>3 DEF Record, RecordOf
      <3>5. \A i \in 1..Len(named') : RecordOf(named[i])' = RecordOf(named'[i])
        BY <2>1 DEF RecordOf
      <3>6. Saved' = [i \in 1..Len(named) + 1 |->
                        [by |-> named'[i], record |-> RecordOf(named'[i])]]
        BY <3>1, <3>3, <3>4, <3>5
      <3>7. Append(Saved, [by |-> s, record |-> RecordOf(s)])
              = [i \in 1..Len(named) + 1 |->
                   IF i <= Len(named) THEN Saved[i] ELSE [by |-> s, record |-> RecordOf(s)]]
        BY <3>2 DEF Saved
      <3>8. ASSUME NEW i \in 1..Len(named) + 1
            PROVE  [by |-> named'[i], record |-> RecordOf(named'[i])]
                     = IF i <= Len(named) THEN Saved[i] ELSE [by |-> s, record |-> RecordOf(s)]
        BY <3>1, <3>2, <3>8
      <3> QED BY <3>6, <3>7, <3>8
    <2> QED BY <1>0, <2>1, <2>2, <2>3, <2>4, <2>5 DEF Promise!Save, Up
  <1>4. CASE SyncDirectory(s)
    <2>1. /\ pc[s] = "replaced" /\ durable' = Len(named) /\ UNCHANGED <<written, named, bundle>>
          /\ pc' = [pc EXCEPT ![s] = "returned"]
      BY <1>4 DEF SyncDirectory, Goto
    <2>2. Saved' = Saved
      BY <2>1, SavedKept
    <2>3. Returned' = Returned \cup {s}
      BY <1>0, <2>1 DEF Returned, TypeOK
    <2>4. PICK i \in 1..Len(named) : named[i] = s
      BY <2>1 DEF DiskInv
    <2>5. Saved[i].by = s /\ Len(Saved) = Len(named)
      BY <2>4, SavedFacts
    <2> QED BY <1>0, <2>1, <2>2, <2>3, <2>4, <2>5 DEF Promise!Return, Up
  <1> QED BY <1>1, <1>2, <1>3, <1>4 DEF Save

LEMMA CrashRefines ==
  ASSUME TypeInv, DiskInv, TypeInv', DiskInv', Kill \/ PowerLoss
  PROVE  Promise!Crash
  <1>0. Stop /\ TypeOK /\ bundle' = bundle /\ durable' = durable
    BY DEF Kill, PowerLoss, Stop, TypeInv, disk
  <1>1. phase' = "fresh" /\ Agent' = [held |-> {}, next |-> 0] /\ ~Up'
    BY <1>0 DEF Stop, Agent, Up
  <1>2. Returned' = Returned
    BY <1>0 DEF Stop, Returned, TypeOK, InProgress
  <1>3. /\ Len(named') \in durable..Len(named)
        /\ \A i \in 1..Len(named') : i \in 1..Len(named) /\ named'[i] = named[i]
    <2>1. CASE Kill
      BY <1>0, <2>1 DEF Kill, disk, TypeOK
    <2>2. CASE PowerLoss
      BY <1>0, <2>2, PowerLossType
    <2> QED BY <2>1, <2>2
  <1>4. Saved' = SubSeq(Saved, 1, Len(named'))
    <2>1. /\ Len(Saved) = Len(named) /\ Len(named) \in Nat
          /\ \A i \in 1..Len(named) : Saved[i] = [by |-> named[i], record |-> RecordOf(named[i])]
      BY SavedFacts
    <2>2. Saved' = [i \in 1..Len(named') |-> [by |-> named'[i], record |-> Record(named[i])']]
      BY DEF Saved
    <2>3. ASSUME NEW i \in 1..Len(named') PROVE Record(named[i])' = RecordOf(named[i])
      <3>1. i \in 1..Len(named) /\ named'[i] = named[i] /\ named[i] \in Savers
        BY <1>3, SavedFacts
      <3>2. synced'[named[i]] = Len(Archive)
        BY <3>1 DEF DiskInv
      <3>3. synced'[named[i]] <= written'[named[i]] /\ written'[named[i]] \in 0..Len(Archive)
        BY <3>1 DEF DiskInv, TypeInv, TypeOK
      <3>4. Complete(named[i])'
        BY <3>1, <3>2, <3>3, ArchiveLength DEF Complete
      <3> QED BY <1>0, <3>1, <3>4 DEF Record, RecordOf
    <2>4. SubSeq(Saved, 1, Len(named')) = [i \in 1..Len(named') |-> Saved[i]]
      BY <1>0, <1>3, <2>1 DEF TypeOK, Saved
    <2>5. \A i \in 1..Len(named') :
             [by |-> named'[i], record |-> Record(named[i])'] = Saved[i]
      BY <1>3, <2>1, <2>3
    <2> QED BY <2>2, <2>4, <2>5
  <1>5. Len(Saved) = Len(named)
    BY SavedFacts
  <1> QED BY <1>0, <1>1, <1>2, <1>3, <1>4, <1>5 DEF Promise!Crash, Promise!Fresh, Up

\* Every step of the saves, of a restart and of the agent's own work is a step of
\* the atomic store, or is not seen at all (CheckpointCoordinator, CounterIdentitySource).
THEOREM SavesAlwaysAtomic == Spec => SavesAreAtomic
  <1>1. Init => Promise!Init
    <2> SUFFICES ASSUME Init PROVE Promise!Init
      OBVIOUS
    <2>1. Saved = <<>>
      BY DEF Init, Saved
    <2> QED BY <2>1 DEF Init, Promise!Init, Promise!Fresh, Agent, Returned
  <1>2. ASSUME TypeInv, DiskInv, IdInv, SaveInv, TypeInv', DiskInv', [Next]_vars
        PROVE  [Promise!Next]_(Promise!vars)
    <2>0. TypeOK
      BY <1>2 DEF TypeInv
    <2>1. CASE NextId
      <3>1. /\ phase = "running" /\ phase' = phase /\ UNCHANGED <<disk, bundle, pc>>
            /\ next' = next + 1 /\ issued' = issued \cup {next} /\ records' = records
        BY <2>1 DEF NextId
      <3>2. next \notin issued \cup records
        BY <1>2, <2>0, <3>1 DEF IdInv, IdsAreFresh, TypeOK
      <3>3. Saved' = Saved /\ Returned' = Returned /\ durable' = durable
        BY <3>1 DEF Saved, Record, Complete, Torn, Returned, disk
      <3>4. Promise!Draw
        BY <3>1, <3>2, <3>3 DEF Promise!Draw, Agent
      <3> QED BY <3>4 DEF Promise!Next
    <2>2. CASE StoreRecord
      <3>1. /\ phase = "running" /\ phase' = phase /\ UNCHANGED <<disk, bundle, pc>>
            /\ next' = next /\ issued' \cup records' = issued \cup records
        BY <2>2 DEF StoreRecord
      <3>2. Saved' = Saved /\ Returned' = Returned /\ durable' = durable /\ Agent' = Agent
        BY <3>1 DEF Saved, Record, Complete, Torn, Returned, Agent, disk
      <3> QED BY <3>1, <3>2 DEF Promise!vars
    <2>3. ASSUME NEW s \in Savers, Save(s) PROVE Promise!Next \/ UNCHANGED Shown
      BY <1>2, <2>3, SaveRefines DEF Promise!Next
    <2>4. CASE Kill \/ PowerLoss
      BY <1>2, <2>4, CrashRefines DEF Promise!Next
    <2>5. CASE Restore \/ RefuseRestore \/ RestoreComponent \/ RestorerRaises
      <3>1. phase # "running" /\ phase' # "running" /\ UNCHANGED <<disk, bundle, pc>>
        BY <2>5 DEF Restore, RefuseRestore, RestoreComponent, RestorerRaises
      <3>2. Saved' = Saved /\ Returned' = Returned /\ durable' = durable /\ Agent' = Agent
        BY <3>1 DEF Saved, Record, Complete, Torn, Returned, Agent, disk
      <3> QED BY <3>1, <3>2 DEF Promise!vars
    <2>6. CASE Resume
      <3>1. /\ phase = "restoring" /\ phase' = "running" /\ todo = {}
            /\ UNCHANGED <<next, issued, records, disk, pc, bundle>>
        BY <2>6 DEF Resume
      <3>2. /\ records = bundle[OnPath].domain_custody /\ next = bundle[OnPath].identity_counter
            /\ issued = {}
        BY <1>2, <3>1 DEF IdInv
      <3>3. Len(named) \in 1..Len(named) /\ OnPath = named[Len(named)]
        BY <1>2, <2>0, <3>1 DEF TypeInv, TypeOK, OnPath, Last
      <3>4. /\ Len(Saved) = Len(named) /\ Saved[Len(Saved)].record = RecordOf(OnPath)
            /\ Saved # <<>>
        BY <1>2, <3>3, SavedFacts
      <3>5. Saved' = Saved /\ Returned' = Returned /\ durable' = durable
        BY <3>1 DEF Saved, Record, Complete, Torn, Returned, disk
      <3>6. Agent' = RecordOf(OnPath)
        BY <3>1, <3>2 DEF Agent, RecordOf
      <3>7. Promise!Resume
        BY <3>1, <3>4, <3>5, <3>6 DEF Promise!Resume
      <3> QED BY <3>7 DEF Promise!Next
    <2>7. CASE Rest \/ UNCHANGED vars
      BY <2>7 DEF Rest, vars, process, disk, Promise!vars, Agent, Saved, Record, Complete, Torn,
         Returned
    <2> QED BY <1>2, <2>1, <2>2, <2>3, <2>4, <2>5, <2>6, <2>7
            DEF Next, Promise!vars, Shown, Up
  <1> QED BY <1>1, <1>2, Invariant, PTL DEF Spec, SavesAreAtomic, Promise!Spec
=============================================================================
