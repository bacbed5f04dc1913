-------------------------- MODULE BindingRehearsal --------------------------
(***************************************************************************)
(* The accepted-binding rehearsal of the outer launcher                    *)
(* (bench/world_model_lifecycle/launch_bootstrap.py): a claim is written   *)
(* once and linked to its marker, one child is dispatched and recorded,    *)
(* and a terminal, accepted or failed, is staged, linked under its name    *)
(* and linked once more as the outer completion that allows the formal     *)
(* launch.  A later launcher that finds the claim finishes what an         *)
(* interrupted one left, and never dispatches a child.                     *)
(*                                                                         *)
(* "fs" is what the running system sees of the files and "disk" what a     *)
(* loss of power leaves for certain: every link, creation and removal is   *)
(* followed by an fsync of its directory, a step of its own.  A file is    *)
(* created torn, is soft when all its bytes are written and whole when     *)
(* they are synced.  The launcher may be killed between any two steps,     *)
(* power may be lost, any call may fail.                                   *)
(* Sources and binding stay as they are, and no foreign file is put into   *)
(* the namespace, so the checks on these always pass; formal authority     *)
(* (the paths of _formal_rehearsal_paths) does appear without notice.      *)
(***************************************************************************)
EXTENDS Integers

CONSTANT MaxFaults   \* bound: failed calls, kills and losses of power

ASSUME RehearsalAssumption == MaxFaults \in Nat

VARIABLES fs,          \* each file as the system sees it
          disk,        \* each file as it surely is on the disk
          pc,          \* the launcher's next step, idle when no launcher holds the lock
          todo,        \* what it is to publish: accepted, failed, or a found terminal
          writing,     \* the file being written
          dirty,       \* the directory to be synced before anything else
          child,       \* the one child
          dispatched,  \* children dispatched so far
          formal,      \* formal authority: none, the prepared root, claimed
          tainted,     \* formal authority appeared before the last check on it
          launched,    \* a launcher has dispatched the formal producer
          faults,      \* faults so far
          powerLost    \* a loss of power was among them

files == <<fs, disk>>
launcherVars == <<pc, todo, writing, dirty>>
childVars == <<child, dispatched>>
formalVars == <<formal, tainted, launched>>
faultVars == <<faults, powerLost>>
vars == <<files, launcherVars, childVars, formalVars, faultVars>>

Sidecars == {"stdout", "stderr", "outer_receipt"}
Names == {"attempt", "claim", "marker", "started", "staging", "terminal", "completion"}
         \cup Sidecars

\* The contents of a terminal: its status, and for a failed one whether it says
\* that a child was started.
Terminals == {"accepted", "failed", "unstarted"}

\* A record is spoiled when a loss of power changed its bytes after a terminal was
\* made that tells them.
Unsynced == {"torn", "soft"}
Contents == {"none", "whole", "spoiled"} \cup Unsynced \cup Terminals

\* Contents with all the bytes, as the system sees them.
Full == {"soft", "whole"}

Directory(n) ==
    CASE n = "attempt" -> "attempts"
      [] n = "marker" -> "claims"
      [] n = "completion" -> "completions"
      [] OTHER -> "attempt"

Present(n) == fs[n] # "none"

Init ==
    /\ fs = [n \in Names |-> "none"] /\ disk = fs
    /\ pc = "idle" /\ todo = "none" /\ writing = "none" /\ dirty = "none"
    /\ child = "none" /\ dispatched = 0
    /\ formal = "absent" /\ tainted = FALSE /\ launched = FALSE
    /\ faults = 0 /\ powerLost = FALSE

-----------------------------------------------------------------------------
(* Files *)

At(l) == pc = l /\ writing = "none" /\ dirty = "none"

\* Give n the content c, or remove it, and have its directory synced.
Enter(n, c) ==
    /\ fs' = [fs EXCEPT ![n] = c]
    /\ dirty' = IF fs[n] = c THEN "none" ELSE Directory(n)
    /\ UNCHANGED <<disk, writing>>

\* _write_exclusive, from the creation of the file ...
Create(n) ==
    /\ fs[n] = "none"
    /\ fs' = [fs EXCEPT ![n] = "torn"] /\ writing' = n
    /\ UNCHANGED <<disk, dirty>>

\* Bug: what the launcher itself remembers decides, and in recovery that is nothing.
OutcomeOfLauncher == IF todo = "accepted" THEN "accepted" ELSE "unstarted"

\* The terminal to publish.  A start record left in the attempt, whatever is in
\* it, makes a failed terminal say that a child was started.
Outcome ==
    IF todo = "accepted" THEN "accepted"
    ELSE IF Present("started") THEN "failed" ELSE "unstarted"

\* ... through its last byte ...
WriteBytes ==
    /\ writing # "none" /\ fs[writing] = "torn"
    /\ fs' = [fs EXCEPT ![writing] = "soft"]
    /\ UNCHANGED <<disk, launcherVars>> /\ UNCHANGED <<childVars, formalVars, faultVars>>

\* ... to the fsync of them.
FinishWrite ==
    /\ writing # "none" /\ fs[writing] = "soft"
    /\ fs' = [fs EXCEPT ![writing] = IF writing = "staging" THEN Outcome ELSE "whole"]
    /\ dirty' = Directory(writing) /\ writing' = "none"
    /\ UNCHANGED <<disk, pc, todo, childVars, formalVars, faultVars>>

Sync ==
    /\ dirty # "none"
    /\ disk' = [n \in Names |-> IF Directory(n) = dirty THEN fs[n] ELSE disk[n]]
    /\ dirty' = "none"
    /\ UNCHANGED <<fs, pc, todo, writing, childVars, formalVars, faultVars>>

KeepFiles == UNCHANGED <<files, writing, dirty>>

\* Go to l, with t to publish.
Goto(l, t) == pc' = l /\ todo' = t

Elsewhere == UNCHANGED <<childVars, formalVars, faultVars>>

-----------------------------------------------------------------------------
(* Claim or recover: _prepare_rehearsal_namespace *)

\* The lock is free, and what the completion root shows is synced first.
Launch ==
    /\ pc = "idle" /\ Goto("scan", "none")
    /\ disk' = [disk EXCEPT !["completion"] = fs["completion"]]
    /\ UNCHANGED <<fs, writing, dirty>> /\ Elsewhere

Prior == \E n \in {"attempt", "marker", "completion"} : Present(n)

MakeAttempt ==
    /\ At("scan") /\ ~Prior
    /\ Enter("attempt", "whole") /\ Goto("claim", "none") /\ Elsewhere

WriteClaim == At("claim") /\ Create("claim") /\ Goto("mark", "none") /\ Elsewhere

\* Bug: the claim root is not synced.
LinkMarkerUnsynced ==
    /\ At("mark") /\ fs' = [fs EXCEPT !["marker"] = fs["claim"]]
    /\ UNCHANGED <<disk, writing, dirty>> /\ Goto("authorize", "none") /\ Elsewhere

LinkMarker ==
    /\ At("mark") /\ Enter("marker", fs["claim"]) /\ Goto("authorize", "none") /\ Elsewhere

\* Bug: a claim that only its marker shows is taken for no claim.
RecoverableByName ==
    ~Present("completion") /\ Present("attempt") /\ fs["claim"] \in Full

\* The claim as its own name shows it, or its marker when only that is left.
Claim == IF Present("claim") THEN fs["claim"] ELSE fs["marker"]
Recoverable == ~Present("completion") /\ Present("attempt") /\ Claim \in Full

\* Finished, no attempt, no claim, or a claim that is not the expected one.
Refuse ==
    /\ At("scan") /\ Prior /\ ~Recoverable
    /\ Goto("idle", "none") /\ KeepFiles /\ Elsewhere

\* The name of the claim that is missing, if one is, is linked from the other.
Relink ==
    /\ At("scan") /\ Prior /\ Recoverable
    /\ Enter(IF Present("claim") THEN "marker" ELSE "claim", Claim)

\* Bug: a child that was started is started again.
ResumeRetries ==
    /\ Relink
    /\ CASE Present("terminal") -> Goto("reopen", "found")
         [] Present("started") /\ ~Present("terminal") -> Goto("dispatch", "none")
         [] OTHER -> Goto("restage", "failed")
    /\ Elsewhere

\* Bug: a terminal is made anew.
ResumeAnew ==
    /\ At("scan") /\ Prior /\ Recoverable
    /\ fs' = [fs EXCEPT !["claim"] = Claim, !["marker"] = Claim, !["terminal"] = "none"]
    /\ dirty' = "attempt" /\ UNCHANGED <<disk, writing>>
    /\ Goto("restage", "failed") /\ Elsewhere

Resume ==
    /\ Relink
    /\ IF Present("terminal") THEN Goto("reopen", "found") ELSE Goto("restage", "failed")
    /\ Elsewhere

-----------------------------------------------------------------------------
(* The one child: _run_accepted_binding_rehearsal *)

\* Nothing is dispatched once formal authority exists; the verification of the
\* binding's own custody may fail as well (Fault).
Authorize ==
    /\ At("authorize")
    /\ IF formal = "absent" THEN Goto("start", "none") ELSE Goto("sidecars", "failed")
    /\ KeepFiles /\ Elsewhere

Start == At("start") /\ Create("started") /\ Goto("dispatch", "none") /\ Elsewhere

Dispatch ==
    /\ At("dispatch") /\ Goto("wait", "none")
    /\ child' = "running" /\ dispatched' = dispatched + 1
    /\ KeepFiles /\ UNCHANGED <<formalVars, faultVars>>

\* The child exits, with the return code, streams and receipt it should or not.
ChildExits ==
    /\ child = "running" /\ child' \in {"clean", "dirty"}
    /\ UNCHANGED <<files, launcherVars, dispatched, formalVars, faultVars>>

Collect ==
    /\ At("wait") /\ child # "running"
    /\ Goto("collect", "none") /\ KeepFiles /\ Elsewhere

\* _ensure_rehearsal_sidecar: one that is there is left as it is.
WriteSidecar ==
    /\ At("collect") \/ At("sidecars")
    /\ \E s \in Sidecars : Create(s)
    /\ UNCHANGED <<pc, todo>> /\ Elsewhere

Recorded == \A s \in Sidecars : Present(s)

\* The checks on the result and the last one on formal authority.
Validate ==
    /\ At("collect") /\ Recorded
    /\ Goto("sidecars", IF child = "clean" /\ formal = "absent" THEN "accepted" ELSE "failed")
    /\ KeepFiles /\ Elsewhere

-----------------------------------------------------------------------------
(* Publication: _publish_rehearsal_terminal *)

Stage ==
    /\ At("sidecars") /\ Recorded
    /\ ~Present("terminal") /\ ~Present("staging")
    /\ Create("staging") /\ Goto("link", todo) /\ Elsewhere

\* A terminal, or a staged one, is never written again: the launcher gives up.
StageRefused ==
    /\ At("sidecars") /\ Recorded
    /\ Present("terminal") \/ Present("staging")
    /\ Goto("idle", "none") /\ KeepFiles /\ Elsewhere

LinkTerminal ==
    /\ At("link") /\ Enter("terminal", fs["staging"]) /\ Goto("unstage", todo) /\ Elsewhere

Unstage == At("unstage") /\ Enter("staging", "none") /\ Goto("unstart", todo) /\ Elsewhere

Unstart == At("unstart") /\ Enter("started", "none") /\ Goto("complete", todo) /\ Elsewhere

\* The attempt holds exactly the five files of a finished one.
Exact ==
    /\ Recorded /\ Present("claim") /\ Present("terminal")
    /\ ~Present("staging") /\ ~Present("started")

Complete ==
    /\ At("complete") /\ Exact
    /\ Enter("completion", fs["terminal"]) /\ Goto("close", todo) /\ Elsewhere

Close == At("close") /\ Goto("idle", "none") /\ KeepFiles /\ Elsewhere

-----------------------------------------------------------------------------
(* Recovery: _recover_accepted_binding_rehearsal *)

\* No terminal: an incomplete staging file goes and a failed terminal follows.
Restage == At("restage") /\ Enter("staging", "none") /\ Goto("sidecars", "failed") /\ Elsewhere

\* A terminal still linked to its staging name loses that name.
Unalias ==
    /\ At("reopen") /\ fs["staging"] = fs["terminal"]
    /\ Enter("staging", "none") /\ UNCHANGED <<pc, todo>> /\ Elsewhere

\* The claim under both its names, and the records whose bytes the terminal tells.
Bound ==
    /\ fs["claim"] \in Full /\ fs["marker"] = fs["claim"]
    /\ \A s \in Sidecars : fs[s] # "spoiled"

\* Bug: formal authority is not looked at again.
SoundPackage ==
    /\ Recorded /\ ~Present("staging") /\ Bound
    /\ fs["started"] \in {"none"} \cup Full
    /\ Present("started") => fs["terminal"] # "unstarted"

\* _verify_binding_rehearsal_package with finalized=False, and formal authority.
Sound ==
    /\ Recorded /\ ~Present("staging") /\ Bound
    /\ fs["started"] \in {"none"} \cup Full
    /\ Present("started") => fs["terminal"] # "unstarted"
    /\ fs["terminal"] = "accepted" => formal = "absent"

Reopen ==
    /\ At("reopen") /\ fs["staging"] # fs["terminal"]
    /\ IF Sound THEN Goto("unstart", todo) ELSE Goto("idle", "none")
    /\ KeepFiles /\ Elsewhere

-----------------------------------------------------------------------------
(* Faults *)

\* What fails inside the try statement of the run is published as a failure; what
\* fails while the claim is made, in the handler or in recovery ends the launcher.
Handled ==
    /\ pc \notin {"scan", "claim", "mark"} /\ dirty # "claims"
    /\ todo \in {"none", "accepted"}

\* A call raises an OSError, or a check that is not modelled a LaunchError.  A child
\* whose launcher fails to wait for it is killed by subprocess.run.
Fault ==
    /\ pc # "idle" /\ faults < MaxFaults
    /\ IF Handled THEN Goto("sidecars", "failed") ELSE Goto("idle", "none")
    /\ child' = IF child = "running" /\ pc = "wait" THEN "gone" ELSE child
    /\ writing' = "none" /\ dirty' = "none" /\ faults' = faults + 1
    /\ UNCHANGED <<files, dispatched, formalVars, powerLost>>

\* The launcher is killed; a child it started goes on.
Kill ==
    /\ pc # "idle" /\ faults < MaxFaults
    /\ Goto("idle", "none") /\ writing' = "none" /\ dirty' = "none" /\ faults' = faults + 1
    /\ UNCHANGED <<files, childVars, formalVars, powerLost>>

File(n) == IF n = "marker" THEN "claim" ELSE n

\* What a loss of power makes of file n with content c when unsynced bytes of the
\* files in lost go.  What is left is on the disk; a record is not read for what it
\* holds, only compared with the terminal, if that tells of it already.
Left(n, c, lost, told) ==
    IF c \notin Unsynced THEN c
    ELSE IF n \in Sidecars THEN (IF n \in lost /\ told THEN "spoiled" ELSE "whole")
    ELSE IF File(n) \in lost \/ c = "torn" THEN "torn" ELSE "whole"

\* Of what was not synced, names and bytes, any part is lost.
PowerLoss ==
    /\ faults < MaxFaults
    /\ \E kept \in SUBSET {n \in Names : fs[n] # disk[n]} :
         LET after == [n \in Names |-> IF n \in kept THEN fs[n] ELSE disk[n]]
             told == after["terminal"] # "none" \/ after["completion"] # "none"
         IN  \E lost \in SUBSET {File(n) : n \in {m \in Names : after[m] \in Unsynced}} :
               fs' = [n \in Names |-> Left(n, after[n], lost, told)]
    /\ disk' = fs'
    /\ child' = IF child = "running" THEN "gone" ELSE child
    /\ Goto("idle", "none") /\ writing' = "none" /\ dirty' = "none"
    /\ faults' = faults + 1 /\ powerLost' = TRUE
    /\ UNCHANGED <<dispatched, formalVars>>

-----------------------------------------------------------------------------
(* Formal authority *)

\* The launcher has made its last check on formal authority and goes on to publish.
Decided ==
    /\ pc \in {"sidecars", "link", "unstage", "unstart", "complete"}
    /\ todo \in {"accepted", "found"}

\* The operator prepares the formal root, or someone writes under a formal path.
FormalAppears ==
    /\ \/ formal = "absent" /\ formal' \in {"prepared", "claimed"}
       \/ formal = "prepared" /\ formal' = "claimed"
    /\ tainted' = (tainted \/ ~(Decided \/ Present("completion")))
    /\ UNCHANGED <<files, launcherVars, childVars, launched, faultVars>>

\* A launcher for the formal producer: it needs the accepted, finished rehearsal
\* and the prepared root with nothing in it, and its child claims the launch.
FormalLaunch ==
    /\ pc = "idle"
    /\ Exact /\ Bound /\ fs["completion"] = "accepted" /\ formal = "prepared"
    /\ disk' = [disk EXCEPT !["completion"] = fs["completion"]]
    /\ formal' = "claimed" /\ launched' = TRUE
    /\ UNCHANGED <<fs, launcherVars, childVars, tainted, faultVars>>

-----------------------------------------------------------------------------
LauncherSteps ==
    \/ WriteBytes \/ FinishWrite \/ Sync
    \/ Launch \/ MakeAttempt \/ WriteClaim \/ LinkMarker \/ Refuse \/ Resume
    \/ Authorize \/ Start \/ Dispatch \/ Collect \/ WriteSidecar \/ Validate
    \/ Stage \/ StageRefused \/ LinkTerminal \/ Unstage \/ Unstart \/ Complete \/ Close
    \/ Restage \/ Unalias \/ Reopen

Next ==
    \/ LauncherSteps \/ ChildExits
    \/ Fault \/ Kill \/ PowerLoss
    \/ FormalAppears \/ FormalLaunch

\* The operator starts the launcher again after an interruption
\* (docs/wm001-v1200-operator-runbook.md:1181-1192), and the child ends.
Spec == Init /\ [][Next]_vars /\ WF_vars(LauncherSteps) /\ WF_vars(ChildExits)

-----------------------------------------------------------------------------
(* Properties *)

TypeOK ==
    /\ fs \in [Names -> Contents] /\ disk \in [Names -> Contents]
    /\ pc \in {"idle", "scan", "claim", "mark", "authorize", "start", "dispatch", "wait",
               "collect", "sidecars", "link", "unstage", "unstart", "complete", "close",
               "restage", "reopen"}
    /\ todo \in {"none", "accepted", "failed", "found"}
    /\ writing \in {"none", "claim", "started", "staging"} \cup Sidecars
    /\ dirty \in {"none", "attempts", "attempt", "claims", "completions"}
    /\ child \in {"none", "running", "clean", "dirty", "gone"} /\ dispatched \in Nat
    /\ formal \in {"absent", "prepared", "claimed"}
    /\ tainted \in BOOLEAN /\ launched \in BOOLEAN
    /\ faults \in 0..MaxFaults /\ powerLost \in BOOLEAN

\* Whatever crashes and however often the launcher is started again, no more than
\* one child is dispatched (runbook:1221 "Recovery can never authorize another
\* child").
OneChild == dispatched <= 1

\* A published terminal tells what happened: an accepted one that the child ended
\* as it should, one without a start record that there never was a child.  (Losses of
\* power between unsynced steps can take a failed terminal and keep the removal of
\* its start record; the next one then knows of no child.)
EvidenceIsTruthful ==
    /\ fs["terminal"] = "accepted" => child = "clean"
    /\ fs["terminal"] = "unstarted" => dispatched = 0 \/ powerLost

\* What a verifier finds beside an outer completion is the whole package and nothing
\* else.  A loss of power takes from it only what recovery found done and did not
\* sync: a removal may be undone and the terminal may have only its outer name; and a
\* failed package may lack its claim marker, and may hold a torn claim and records
\* whose bytes are no longer those the terminal tells, when a launcher was stopped
\* before it synced them.  Claim and records are there even then, no two names of the
\* terminal disagree, and an accepted package is bound as it was.
PackageIsExact ==
    Present("completion") =>
        /\ Recorded /\ Present("claim")
        /\ \A n \in {"terminal", "staging"} : fs[n] \in {"none", fs["completion"]}
        /\ Present("started") => fs["completion"] # "unstarted"
        /\ fs["completion"] = "accepted" => Bound
        /\ ~powerLost => Exact /\ Bound

\* A terminal that is surely on the disk is never replaced or downgraded, and
\* neither is the completion (runbook:1219 "It never rewrites or downgrades").
NeverDowngraded ==
    [][\A n \in {"terminal", "completion"} : disk[n] # "none" => disk'[n] = disk[n]]_vars

\* An accepted completion means that formal authority did not appear before the
\* launcher's last look at it; and the formal producer starts only from an accepted
\* completion that no loss of power can take back.
AuthorityIsEarned ==
    /\ fs["completion"] = "accepted" => ~tainted
    /\ launched => disk["completion"] = "accepted"

\* A start record torn by a crash that is still there beside a terminal, a record that
\* is not the one the terminal tells of, or formal authority beside an accepted
\* terminal: recovery refuses these for good.
Retired ==
    \/ fs["started"] = "torn" /\ Present("terminal")
    \/ Present("terminal") /\ \E s \in Sidecars : fs[s] = "spoiled"
    \/ fs["terminal"] = "accepted" /\ formal # "absent"

\* A claim of which one name is surely on the disk, and no loss of power tears, comes
\* to an outer completion in the end, or to a state that recovery refuses.
ClaimIsSettled ==
    <>[]((\E n \in {"claim", "marker"} : disk[n] \in Full)
         => Present("completion") \/ Retired)

-----------------------------------------------------------------------------
(* The rehearsal as OneShotMarker promises it *)

\* What the namespace says came of the attempt: the completion, or the terminal it
\* is linked to.
Verdict == IF Present("completion") THEN fs["completion"] ELSE fs["terminal"]

Promise == INSTANCE OneShotMarker WITH
    Runs <- {"rehearsal"}, None <- "none", owner <- "rehearsal",
    status <- IF Verdict = "none" THEN "started"
              ELSE IF Verdict = "accepted" THEN "completed" ELSE "failed",
    settled <- disk["terminal"] # "none" \/ disk["completion"] # "none",
    told <- launched

\* Whatever crashes and however often the launcher is started again, the rehearsal is
\* decided once: a verdict that either name shows is the verdict until a loss of power
\* takes both names, which it cannot once one of them is on the disk, and the formal
\* producer starts from an accepted verdict that stands for good.
DecidesOnce == Promise!OwnedSpec

=============================================================================
