--------------------------- MODULE CheckpointBundle ---------------------------
(***************************************************************************)
(* Saving and restoring an agent (storage/checkpoint.py), with the         *)
(* identity counter (decision/policy.py) and the stored records that carry *)
(* its identities.  One process is up at a time; its threads may save to   *)
(* the same path at once.  Every file operation of CheckpointCoordinator   *)
(* .save is an action, each may raise, and the process may be killed or    *)
(* the machine may lose power between any two.                             *)
(*                                                                         *)
(* The file system: the bytes of a file survive a power loss from its      *)
(* fsync on; renames survive in the order they were made, all of them from *)
(* an fsync of the directory on, any prefix of the later ones.             *)
(***************************************************************************)
EXTENDS Integers, Sequences, SequencesExt

CONSTANTS Savers,       \* calls of save, each made once
          MaxId,        \* bound: identities a counter gives out
          MaxCrashes    \* bound: crashes

ASSUME BoundsAssumption == MaxId \in Nat /\ MaxCrashes \in Nat

VARIABLES phase,      \* of the process
          next,       \* CounterIdentitySource._next_counter
          issued,     \* identities given out and not stored yet
          records,    \* identities of the stored records
          pc,         \* how far each save has come
          bundle,     \* the components each save was called with
          written,    \* parts of the archive in each temporary file
          synced,     \* how many of them a power loss cannot take
          temps,      \* the saves whose temporary name is in the directory
          named,      \* the saves renamed onto the path, in order
          durable,    \* how many of them a power loss cannot undo
          todo,       \* components the restore in progress has not reached
          crashes

process == <<phase, next, issued, records, todo>>
disk == <<written, synced, temps, named, durable>>
vars == <<process, disk, pc, bundle, crashes>>

Components == {"domain_custody", "identity_counter"}

\* The names of a manifest are sorted, and restore follows them.
RestoreOrder == <<"domain_custody", "identity_counter">>

\* The archive: the manifest, the components, and the directory the ZIP file
\* is closed with, without which nothing can be read.
Archive == <<"manifest">> \o RestoreOrder \o <<"directory">>

Ids == 0..MaxId - 1
Bundles == [domain_custody : SUBSET Ids, identity_counter : 0..MaxId]

InProgress == {"half", "ready", "created", "writing", "synced", "replaced"}
Ended == {"returned", "raised", "killed"}

NoBundle == [domain_custody |-> {}, identity_counter |-> 0]

Init ==
    /\ phase = "running" /\ next = 0 /\ issued = {} /\ records = {} /\ todo = {}
    /\ pc = [s \in Savers |-> "idle"]
    /\ bundle = [s \in Savers |-> NoBundle]
    /\ written = [s \in Savers |-> 0]
    /\ synced = [s \in Savers |-> 0]
    /\ temps = {} /\ named = <<>> /\ durable = 0
    /\ crashes = 0

-----------------------------------------------------------------------------
(* The agent at work *)

NextId ==
    /\ phase = "running" /\ next < MaxId
    /\ issued' = issued \cup {next}
    /\ next' = next + 1
    /\ UNCHANGED <<phase, records, todo, disk, pc, bundle, crashes>>

StoreRecord ==
    /\ phase = "running"
    /\ \E id \in issued :
          /\ issued' = issued \ {id}
          /\ records' = records \cup {id}
    /\ UNCHANGED <<phase, next, todo, disk, pc, bundle, crashes>>

-----------------------------------------------------------------------------
(* save *)

Goto(s, to) == pc' = [pc EXCEPT ![s] = to]

Live(component) == IF component = "domain_custody" THEN records ELSE next

\* Bug: the counter is read first; records stored since then outrun it.
CaptureOrderCounterFirst == <<"identity_counter", "domain_custody">>

\* The caller reads the records first and the counter last.
CaptureOrder == <<"domain_custody", "identity_counter">>

Capture(s) ==
    /\ phase = "running"
    /\ \E i \in 1..2 :
          /\ pc[s] = <<"idle", "half">>[i]
          /\ bundle' = [bundle EXCEPT ![s][CaptureOrder[i]] = Live(CaptureOrder[i])]
          /\ Goto(s, <<"half", "ready">>[i])
    /\ UNCHANGED <<process, disk, crashes>>

\* Arguments are checked, the directory made, the temporary file created and its
\* descriptor closed before the try block: what raises here cleans nothing up, and
\* leaves the temporary file if it exists by then.
Refuse(s) ==
    /\ phase = "running" /\ pc[s] \in {"ready", "created"}
    /\ Goto(s, "raised")
    /\ UNCHANGED <<process, disk, bundle, crashes>>

CreateTemp(s) ==
    /\ phase = "running" /\ pc[s] = "ready"
    /\ temps' = temps \cup {s}
    /\ Goto(s, "created")
    /\ UNCHANGED <<process, written, synced, named, durable, bundle, crashes>>

CloseTemp(s) ==
    /\ phase = "running" /\ pc[s] = "created"
    /\ Goto(s, "writing")
    /\ UNCHANGED <<process, disk, bundle, crashes>>

WriteEntry(s) ==
    /\ phase = "running" /\ pc[s] = "writing"
    /\ written[s] < Len(Archive)
    /\ written' = [written EXCEPT ![s] = @ + 1]
    /\ UNCHANGED <<process, synced, temps, named, durable, pc, bundle, crashes>>

\* Bug: the archive is renamed without having been synced.
SyncFileSkipped(s) ==
    /\ phase = "running" /\ pc[s] = "writing"
    /\ written[s] = Len(Archive)
    /\ Goto(s, "synced")
    /\ UNCHANGED <<process, disk, bundle, crashes>>

SyncFile(s) ==
    /\ phase = "running" /\ pc[s] = "writing"
    /\ written[s] = Len(Archive)
    /\ synced' = [synced EXCEPT ![s] = written[s]]
    /\ Goto(s, "synced")
    /\ UNCHANGED <<process, written, temps, named, durable, bundle, crashes>>

Replace(s) ==
    /\ phase = "running" /\ pc[s] = "synced"
    /\ named' = Append(named, s)
    /\ temps' = temps \ {s}
    /\ Goto(s, "replaced")
    /\ UNCHANGED <<process, written, synced, durable, bundle, crashes>>

\* Bug: the save returns without an fsync of the directory.
SyncDirectorySkipped(s) ==
    /\ phase = "running" /\ pc[s] = "replaced"
    /\ Goto(s, "returned")
    /\ UNCHANGED <<process, disk, bundle, crashes>>

SyncDirectory(s) ==
    /\ phase = "running" /\ pc[s] = "replaced"
    /\ durable' = Len(named)
    /\ Goto(s, "returned")
    /\ UNCHANGED <<process, written, synced, temps, named, bundle, crashes>>

\* Whatever raises inside the try block; the rename may already be done, and the
\* handler's unlink may raise as well.
StepRaises(s) ==
    /\ phase = "running" /\ pc[s] \in {"writing", "synced", "replaced"}
    /\ temps' \in {temps, temps \ {s}}
    /\ Goto(s, "raised")
    /\ UNCHANGED <<process, written, synced, named, durable, bundle, crashes>>

Save(s) ==
    \/ Capture(s) \/ Refuse(s) \/ CreateTemp(s) \/ CloseTemp(s) \/ WriteEntry(s)
    \/ SyncFile(s) \/ Replace(s) \/ SyncDirectory(s) \/ StepRaises(s)

-----------------------------------------------------------------------------
(* Crash and restart *)

\* A process comes up with fresh components.
Stop ==
    /\ crashes < MaxCrashes
    /\ crashes' = crashes + 1
    /\ phase' = "fresh" /\ next' = 0 /\ issued' = {} /\ records' = {} /\ todo' = {}
    /\ pc' = [s \in Savers |-> IF pc[s] \in InProgress THEN "killed" ELSE pc[s]]
    /\ UNCHANGED bundle

Kill == Stop /\ UNCHANGED disk

PowerLoss ==
    /\ Stop
    /\ written' \in {f \in [Savers -> 0..Len(Archive)] :
                        \A s \in Savers : f[s] \in synced[s]..written[s]}
    /\ \E n \in durable..Len(named) : named' = SubSeq(named, 1, n)
    /\ temps' \in SUBSET {s \in Savers : /\ pc[s] \notin {"idle", "half", "ready"}
                                       /\ \A i \in DOMAIN named' : named'[i] # s}
    /\ UNCHANGED <<synced, durable>>

OnPath == Last(named)

\* load refuses an archive that lacks its directory, its manifest or a component.
Complete(s) == written[s] = Len(Archive)

Loadable == named # <<>> /\ Complete(OnPath)

\* Bug: the restorers that were passed are taken for all that is needed.
CoveragePartial(supplied) == supplied \subseteq Components

\* The callbacks must be exactly those of the components in the bundle.
Coverage(supplied) == supplied = Components

Restore ==
    /\ phase = "fresh"
    /\ Loadable
    /\ \E supplied \in SUBSET Components :
          /\ Coverage(supplied)
          /\ todo' = supplied
    /\ phase' = "restoring"
    /\ UNCHANGED <<next, issued, records, disk, pc, bundle, crashes>>

\* No file, a file that cannot be read, or restorers that do not fit.
RefuseRestore ==
    /\ phase = "fresh"
    /\ \/ ~Loadable
       \/ \E supplied \in SUBSET Components : ~Coverage(supplied)
    /\ phase' = "abandoned"
    /\ UNCHANGED <<next, issued, records, todo, disk, pc, bundle, crashes>>

RestoreComponent ==
    /\ phase = "restoring"
    /\ \E i \in 1..2 :
          /\ RestoreOrder[i] \in todo
          /\ \A j \in 1..i - 1 : RestoreOrder[j] \notin todo
          /\ todo' = todo \ {RestoreOrder[i]}
          /\ records' = IF RestoreOrder[i] = "domain_custody" THEN bundle[OnPath].domain_custody ELSE records
          /\ next' = IF RestoreOrder[i] = "identity_counter" THEN bundle[OnPath].identity_counter ELSE next
    /\ UNCHANGED <<phase, issued, disk, pc, bundle, crashes>>

\* A callback raises: the components before it have been replaced, and the
\* caller has to give the process up.
RestorerRaises ==
    /\ phase = "restoring" /\ todo # {}
    /\ phase' = "abandoned"
    /\ UNCHANGED <<next, issued, records, todo, disk, pc, bundle, crashes>>

Resume ==
    /\ phase = "restoring" /\ todo = {}
    /\ phase' = "running"
    /\ UNCHANGED <<next, issued, records, todo, disk, pc, bundle, crashes>>

\* Nothing is left to do: the bounds are reached, or the process was given up.
Rest ==
    /\ \/ phase = "abandoned"
       \/ phase = "running" /\ next = MaxId /\ issued = {}
          /\ \A s \in Savers : pc[s] \in Ended
    /\ UNCHANGED vars

Next ==
    \/ NextId \/ StoreRecord
    \/ \E s \in Savers : Save(s)
    \/ Kill \/ PowerLoss
    \/ Restore \/ RefuseRestore \/ RestoreComponent \/ RestorerRaises \/ Resume
    \/ Rest

Spec == Init /\ [][Next]_vars

-----------------------------------------------------------------------------
(* Properties *)

\* Every variable has its type.
TypeOK ==
    /\ phase \in {"running", "fresh", "restoring", "abandoned"}
    /\ next \in 0..MaxId /\ issued \subseteq Ids /\ records \subseteq Ids
    /\ todo \subseteq Components
    /\ pc \in [Savers -> {"idle"} \cup InProgress \cup Ended]
    /\ bundle \in [Savers -> Bundles]
    /\ written \in [Savers -> 0..Len(Archive)]
    /\ synced \in [Savers -> 0..Len(Archive)]
    /\ temps \subseteq Savers
    /\ named \in Seq(Savers) /\ durable \in 0..Len(named)
    /\ crashes \in 0..MaxCrashes

\* The path never names a bundle that load would refuse: not while saves run,
\* not after one failed, and not after a crash (checkpoint.py:292, "Atomically
\* replace path with a complete, deterministic checkpoint").
PathIsComplete == named # <<>> => Loadable

\* A save that returned is on the path until a later rename replaces it: no
\* crash brings back what was there before (the directory fsync, checkpoint.py:356).
SavedSurvives ==
    \A s \in Savers : pc[s] = "returned" => \E i \in 1..Len(named) : named[i] = s

\* A running agent never holds an identity its counter has still to give out,
\* whichever bundle it was restored from and whatever was being stored while
\* that bundle was captured (policy.py:94, restore_bytes).
IdsAreFresh == phase = "running" => \A id \in issued \cup records : id < next

\* What the saves and the agent look like from outside: an agent while a process
\* runs, and the archives that have been renamed onto the path, torn ones as such.
Agent ==
    IF phase = "running" THEN [held |-> issued \cup records, next |-> next]
    ELSE [held |-> {}, next |-> 0]

Torn == [held |-> {}, next |-> -1]

Record(s) ==
    IF Complete(s)
    THEN [held |-> bundle[s].domain_custody, next |-> bundle[s].identity_counter]
    ELSE Torn

Saved == [i \in 1..Len(named) |-> [by |-> named[i], record |-> Record(named[i])]]
Returned == {s \in Savers : pc[s] = "returned"}

Promise == INSTANCE AtomicCheckpoint WITH
    up <- phase = "running", agent <- Agent, archive <- Saved, kept <- durable, returned <- Returned

\* Saving and restoring are atomic: whatever is captured piece by piece, written,
\* synced and renamed, fails or is cut off, the path changes in one step to a bundle
\* whose pieces fit together, and a process resumes with the whole of it or not at all
\* (checkpoint.py:292, "Atomically replace path with a complete, deterministic
\* checkpoint"; 181-183, missing restorers are found before the first one runs).
SavesAreAtomic == Promise!Spec

\* A save that returned has left no temporary file, and no power loss brings one back: the
\* directory fsync makes the end of the temporary name durable too (checkpoint.py:355-356).
\* Saves that raised or were cut off may leave theirs.
ReturnedLeavesNoTemp == \A s \in Savers : pc[s] = "returned" => s \notin temps
=============================================================================
