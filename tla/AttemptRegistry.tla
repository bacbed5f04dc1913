--------------------------- MODULE AttemptRegistry ---------------------------
(***************************************************************************)
(* The one-shot registry of an experiment (bench/active_acquisition/       *)
(* attempt.py) and the runs that use it (_run_q1_attempt in q1.py): many   *)
(* processes may start a run, one may claim the marker, and that one       *)
(* finalizes it as completed or failed.  Every file operation is an        *)
(* action; each may raise, a process may be killed and the machine may     *)
(* lose power between any two.                                             *)
(*                                                                         *)
(* flock on the registry directory is released when its process ends.  The *)
(* file system is that of CheckpointBundle: an fsync keeps the bytes of a  *)
(* file, an fsync of the directory the names made so far, and a power loss *)
(* cuts the later names from the end.                                      *)
(***************************************************************************)
EXTENDS Integers, Sequences, SequencesExt

CONSTANTS Runs,           \* the runs that are started, each with its own capability
          None,           \* no holder of the lock
          MaxPowerLosses  \* bound

ASSUME RegistryAssumption == None \notin Runs /\ MaxPowerLosses \in Nat

VARIABLES pc,           \* how far each run has come
          aim,          \* the status a run finalizes its attempt with
          seen,         \* the marker file a finalization has read, by its place in named
          holder,       \* who holds the exclusive lock of the registry
          named,        \* the files that were given the marker's name, in order
          durable,      \* how many of them a power loss cannot take back
          written,      \* files whose content is complete
          synced,       \* files whose content a power loss cannot take
          temps,        \* runs whose temporary name is in the registry
          powerLosses

disk == <<named, durable, written, synced, temps>>
vars == <<pc, aim, seen, holder, disk, powerLosses>>

Statuses == {"started", "completed", "failed"}

\* A marker names its run by the commitment to the run's capability.
Files == [run : Runs, status : Statuses]
Marker(r, status) == [run |-> r, status |-> status]

Claiming == {"opening", "created", "filled", "saved"}
Replacing == {"staging", "temp", "tempFilled", "tempSaved", "renamed"}
Refused == {"refused", "aborted", "killed"}
Working == {"claimed", "failing", "finalizing"} \cup Replacing
Over == {"returned", "raised", "left", "died"}

Init ==
    /\ pc = [r \in Runs |-> "idle"]
    /\ aim = [r \in Runs |-> "completed"]
    /\ seen = [r \in Runs |-> 0]
    /\ holder = None
    /\ named = <<>> /\ durable = 0
    /\ written = {} /\ synced = {} /\ temps = {}
    /\ powerLosses = 0

Goto(r, to) == pc' = [pc EXCEPT ![r] = to]

-----------------------------------------------------------------------------
(* claim_attempt *)

LockClaim(r) ==
    /\ pc[r] = "idle" /\ holder = None
    /\ holder' = r
    /\ Goto(r, "opening")
    /\ UNCHANGED <<aim, seen, disk, powerLosses>>

\* Bug: the marker is opened without O_EXCL.
OpenMarkerOverwrites(r) ==
    /\ pc[r] = "opening"
    /\ named' = Append(named, Marker(r, "started"))
    /\ Goto(r, "created")
    /\ UNCHANGED <<aim, holder, seen, durable, written, synced, temps, powerLosses>>

\* O_EXCL: any marker, even an empty one, refuses the claim.
OpenMarker(r) ==
    /\ pc[r] = "opening"
    /\ IF named # <<>>
       THEN Goto(r, "refused") /\ holder' = None /\ UNCHANGED named
       ELSE Goto(r, "created") /\ named' = <<Marker(r, "started")>>
            /\ UNCHANGED holder
    /\ UNCHANGED <<aim, seen, durable, written, synced, temps, powerLosses>>

WriteMarker(r) ==
    /\ pc[r] = "created"
    /\ written' = written \cup {Marker(r, "started")}
    /\ Goto(r, "filled")
    /\ UNCHANGED <<aim, seen, holder, named, durable, synced, temps, powerLosses>>

SyncMarker(r) ==
    /\ pc[r] = "filled"
    /\ synced' = synced \cup {Marker(r, "started")}
    /\ Goto(r, "saved")
    /\ UNCHANGED <<aim, seen, holder, named, durable, written, temps, powerLosses>>

\* Bug: the claim returns before the name of the marker is durable.
ClaimReturnsEarly(r) ==
    /\ pc[r] = "saved"
    /\ holder' = None
    /\ Goto(r, "claimed")
    /\ UNCHANGED <<aim, seen, disk, powerLosses>>

ClaimReturns(r) ==
    /\ pc[r] = "saved"
    /\ durable' = Len(named)
    /\ holder' = None
    /\ Goto(r, "claimed")
    /\ UNCHANGED <<aim, seen, named, written, synced, temps, powerLosses>>

\* The marker stays behind; its name is synced all the same, if that works.
ClaimRaises(r) ==
    /\ pc[r] \in Claiming
    /\ durable' \in IF pc[r] = "opening" THEN {durable} ELSE {durable, Len(named)}
    /\ holder' = None
    /\ Goto(r, "aborted")
    /\ UNCHANGED <<aim, seen, named, written, synced, temps, powerLosses>>

Claim(r) ==
    \/ LockClaim(r) \/ OpenMarker(r) \/ WriteMarker(r) \/ SyncMarker(r)
    \/ ClaimReturns(r) \/ ClaimRaises(r)

-----------------------------------------------------------------------------
(* The claimed run *)

\* The experiment ends well, raises, or cannot tell that its children are
\* quiet, in which case the marker is left as it is.
Work(r) ==
    /\ pc[r] = "claimed"
    /\ \E to \in {"finalizing", "failing", "left"} : Goto(r, to)
    /\ UNCHANGED <<aim, seen, holder, disk, powerLosses>>

OnPath == Last(named)

\* A marker can be loaded when its content is complete and it is the caller's.
Loads(r) == named # <<>> /\ OnPath \in written /\ OnPath.run = r

\* The failure handler finalizes what it finds started, and nothing else; the
\* directories it checks first may have changed.
HandleFailure(r) ==
    /\ pc[r] = "failing" /\ holder = None
    /\ \/ /\ Loads(r) /\ OnPath.status = "started"
          /\ Goto(r, "finalizing") /\ aim' = [aim EXCEPT ![r] = "failed"]
       \/ Goto(r, "raised") /\ UNCHANGED aim
    /\ UNCHANGED <<holder, seen, disk, powerLosses>>

-----------------------------------------------------------------------------
(* finalize_attempt *)

\* Bug: a failed finalization that raises is tried again.
AfterRaiseRetries(r) == "failing"

\* What a run does when its finalization raises: the completed one is handled
\* as a failure, the failed one is reported.
AfterRaise(r) == IF aim[r] = "completed" THEN "failing" ELSE "raised"

\* Only a started marker can be finalized; loading it may raise as well.
Finalizable(r) == Loads(r) /\ OnPath.status = "started"

LockFinalize(r) ==
    /\ pc[r] = "finalizing" /\ holder = None
    /\ \/ /\ Finalizable(r)
          /\ holder' = r /\ seen' = [seen EXCEPT ![r] = Len(named)]
          /\ Goto(r, "staging")
       \/ UNCHANGED <<holder, seen>> /\ Goto(r, AfterRaise(r))
    /\ UNCHANGED <<aim, disk, powerLosses>>

\* The temporary name is created with O_EXCL too: while an earlier finalization of
\* this process has left one behind, the step cannot but raise.
CreateTemp(r) ==
    /\ pc[r] = "staging" /\ r \notin temps
    /\ temps' = temps \cup {r}
    /\ Goto(r, "temp")
    /\ UNCHANGED <<aim, seen, holder, named, durable, written, synced, powerLosses>>

WriteTemp(r) ==
    /\ pc[r] = "temp"
    /\ written' = written \cup {Marker(r, aim[r])}
    /\ Goto(r, "tempFilled")
    /\ UNCHANGED <<aim, seen, holder, named, durable, synced, temps, powerLosses>>

\* Bug: the final marker is renamed without having been synced.
SyncTempSkipped(r) ==
    /\ pc[r] = "tempFilled"
    /\ Goto(r, "tempSaved")
    /\ UNCHANGED <<aim, seen, holder, disk, powerLosses>>

SyncTemp(r) ==
    /\ pc[r] = "tempFilled"
    /\ synced' = synced \cup {Marker(r, aim[r])}
    /\ Goto(r, "tempSaved")
    /\ UNCHANGED <<aim, seen, holder, named, durable, written, temps, powerLosses>>

\* Bug: the final marker is copied onto the path.
ReplaceMarkerCopies(r) ==
    /\ pc[r] = "tempSaved"
    /\ Len(named) = seen[r]
    /\ named' = Append(named, Marker(r, aim[r]))
    /\ Goto(r, "renamed")
    /\ UNCHANGED <<aim, seen, holder, durable, written, synced, temps, powerLosses>>

\* The marker has to be the file that was read.
ReplaceMarker(r) ==
    /\ pc[r] = "tempSaved"
    /\ Len(named) = seen[r]
    /\ named' = Append(named, Marker(r, aim[r]))
    /\ temps' = temps \ {r}
    /\ Goto(r, "renamed")
    /\ UNCHANGED <<aim, seen, holder, durable, written, synced, powerLosses>>

\* Bug: success is reported before the name of the final marker is durable.
FinalizeReturnsEarly(r) ==
    /\ pc[r] = "renamed"
    /\ holder' = None
    /\ Goto(r, IF aim[r] = "completed" THEN "returned" ELSE "raised")
    /\ UNCHANGED <<aim, seen, disk, powerLosses>>

FinalizeReturns(r) ==
    /\ pc[r] = "renamed"
    /\ durable' = Len(named)
    /\ holder' = None
    /\ Goto(r, IF aim[r] = "completed" THEN "returned" ELSE "raised")
    /\ UNCHANGED <<aim, seen, named, written, synced, temps, powerLosses>>

Staged == {"temp", "tempFilled", "tempSaved"}

\* An artifact cannot be hashed, an operation on the files raises, or, with the
\* final marker in place, the sync of the directory or the reading back.  The
\* temporary file is removed, unless there is none, the descriptor cannot be closed
\* (a close that raised is tried again before the unlink), the unlink raises, or an
\* interrupt comes before the try block.
FinalizeRaises(r) ==
    /\ pc[r] \in Replacing
    /\ durable' \in IF pc[r] = "renamed" THEN {durable, Len(named)} ELSE {durable}
    /\ \/ UNCHANGED <<temps, written, synced>>
       \/ /\ pc[r] \in Staged
          /\ temps' = temps \ {r}
          /\ written' = written \ {Marker(r, aim[r])}
          /\ synced' = synced \ {Marker(r, aim[r])}
    /\ holder' = None
    /\ Goto(r, AfterRaise(r))
    /\ UNCHANGED <<aim, seen, named, powerLosses>>

Finalize(r) ==
    \/ LockFinalize(r) \/ CreateTemp(r) \/ WriteTemp(r) \/ SyncTemp(r)
    \/ ReplaceMarker(r) \/ FinalizeReturns(r) \/ FinalizeRaises(r)

-----------------------------------------------------------------------------
(* Crashes *)

Stopped(r) ==
    IF pc[r] \in Claiming THEN "killed" ELSE IF pc[r] \in Working THEN "died" ELSE pc[r]

Kill(r) ==
    /\ pc[r] \in Claiming \cup Working
    /\ Goto(r, Stopped(r))
    /\ holder' = IF holder = r THEN None ELSE holder
    /\ UNCHANGED <<aim, seen, disk, powerLosses>>

\* The runs whose final marker is not on the path once a power loss leaves n names.
Unfinalized(n) == {r \in Runs : \E i \in n + 1..Len(named) : /\ named[i].run = r
                                                            /\ named[i].status # "started"}

\* Every process ends; runs may be started again afterwards.  A rename that is taken
\* back may give its temporary name back.
PowerLoss ==
    /\ powerLosses < MaxPowerLosses
    /\ powerLosses' = powerLosses + 1
    /\ pc' = [r \in Runs |-> Stopped(r)]
    /\ holder' = None
    /\ \E n \in durable..Len(named) : /\ named' = SubSeq(named, 1, n)
                                     /\ temps' \in SUBSET (temps \cup Unfinalized(n))
    /\ \E lost \in SUBSET (written \ synced) : written' = written \ lost
    /\ UNCHANGED <<aim, seen, durable, synced>>

Rest ==
    /\ \A r \in Runs : pc[r] \in Refused \cup Over
    /\ UNCHANGED vars

Next ==
    \/ \E r \in Runs : Claim(r) \/ Work(r) \/ HandleFailure(r) \/ Finalize(r) \/ Kill(r)
    \/ PowerLoss
    \/ Rest

\* A process that can go on does, unless it is killed.
Fairness == \A r \in Runs : WF_vars(Claim(r) \/ Work(r) \/ HandleFailure(r) \/ Finalize(r))

Spec == Init /\ [][Next]_vars /\ Fairness

-----------------------------------------------------------------------------
(* Properties *)

Claimed(r) == pc[r] \in Working \cup Over

\* Every variable has its type.
TypeOK ==
    /\ pc \in [Runs -> {"idle"} \cup Claiming \cup Refused \cup Working \cup Over]
    /\ aim \in [Runs -> {"completed", "failed"}]
    /\ seen \in [Runs -> Nat]
    /\ holder \in Runs \cup {None}
    /\ named \in Seq(Files) /\ durable \in 0..Len(named)
    /\ written \subseteq Files /\ synced \subseteq written
    /\ temps \subseteq Runs
    /\ powerLosses \in 0..MaxPowerLosses

\* One run of the experiment ever gets past its claim, through crashes and
\* interrupted claims (attempt.py:197, "the one experiment-global Q1 tombstone").
OneAttempt == \A r, t \in Runs : Claimed(r) /\ Claimed(t) => r = t

\* A claim that returned can be read by its run for ever: no crash takes its
\* marker or the content of the marker, whatever finalization was under way.
MarkerStands == \A r \in Runs : Claimed(r) => Loads(r)

\* A run that returned is completed on disk, and stays so (attempt.py:242,
\* "atomically finalize the fixed marker exactly once").
ReturnedIsCompleted ==
    \A r \in Runs : pc[r] = "returned" => OnPath = Marker(r, "completed")

\* Short of a power loss, a marker that is final is never changed again.
FinalOnce ==
    [][(named # <<>> /\ OnPath.status # "started" /\ named' # named)
          => powerLosses' # powerLosses]_vars

\* A temporary file lies only beside a marker that stands as it was claimed: the rename
\* takes the name away, and a finalization that could not clean up (attempt.py:405-411)
\* is never followed by one that goes through, since the name has only the process id
\* to tell files apart (374).  A power loss takes the rename back with the name.
LeftoverMeansStarted == \A r \in temps : named # <<>> /\ OnPath = Marker(r, "started")

\* What the registry looks like from outside: whose attempt it holds, and how
\* that attempt ended according to the marker.
Owner == IF \E r \in Runs : Claimed(r) THEN CHOOSE r \in Runs : Claimed(r) ELSE None
Outcome == IF named = <<>> THEN "started" ELSE OnPath.status
Settled == durable = 2
Told == \E r \in Runs : pc[r] = "returned"

Promise == INSTANCE OneShotMarker WITH
    owner <- Owner, status <- Outcome, settled <- Settled, told <- Told

\* The registry is a one-shot marker: its operations, their failures and the
\* crashes between them look like a claim, a decision, or the loss of an outcome
\* nobody was told of (attempt.py:242, "finalize the fixed marker exactly once").
IsOneShot == Promise!Spec

\* Every run ends, whoever claims, fails or is killed: no path out of a claim or
\* a finalization keeps the lock (attempt.py:438-446), and the failure handler
\* does not go round in circles (q1.py:2641).
EveryRunEnds == \A r \in Runs : <>(pc[r] \in Over \cup Refused)
=============================================================================
