----------------------- MODULE BindingRehearsalProofs -----------------------
(***************************************************************************)
(* The safety properties of BindingRehearsal hold for every number of      *)
(* faults.  The inductive invariant IInv is the conjunction of eight       *)
(* parts.  Each is kept by every step given the parts named before it      *)
(* (lemmas NextType to NextPackage, one case per action), so the order of  *)
(* the lemmas is the order of the argument: first the claim makes a second *)
(* child impossible, then a terminal is published once, then what it says  *)
(* is tied to the child and to formal authority, and last every file that  *)
(* a terminal stands on is shown to be on the disk before it.  From IInv   *)
(* follow the finality of terminals, the refinement of OneShotMarker and   *)
(* that no launch goes round in circles.                                   *)
(***************************************************************************)
EXTENDS BindingRehearsal, TLAPS

\* The steps of a launcher that made the claim itself, up to the dispatch.
Fresh == {"claim", "mark", "authorize", "start", "dispatch"}

\* What there is of a run only once its attempt directory is on the disk: the files
\* in it and the marker of its claim.
Inner == Names \ {"attempt", "completion"}

\* The claim: once something was dispatched, or is in the attempt directory or marked, that
\* directory is on the disk and no launcher makes a claim again; and before the
\* dispatch nothing was dispatched, recorded or staged.
ClaimInv ==
    /\ fs["attempt"] \in {"none", "whole"}
    /\ disk["attempt"] # "none" => fs["attempt"] = "whole" /\ disk["attempt"] = "whole"
    /\ pc = "claim" => writing = "none" /\ (disk["attempt"] = "whole" \/ dirty = "attempts")
    /\ pc = "claim" => fs["attempt"] = "whole"
    /\ pc \notin {"idle", "scan", "claim"} \/ dispatched > 0 => disk["attempt"] = "whole"
    /\ \A n \in Inner : Present(n) \/ disk[n] # "none" => disk["attempt"] = "whole"
    /\ pc \in {"idle", "scan", "authorize", "close"} => writing = "none"
    /\ writing # "none" => fs[writing] \in {"torn", "soft"} /\ dirty = "none"
    /\ writing = "staging" => pc = "link"
    /\ pc = "link" => writing \in {"none", "staging"}
    /\ pc \in Fresh => dispatched = 0
    /\ pc \in Fresh => \A n \in {"staging", "terminal"} : ~Present(n) /\ disk[n] = "none"
    /\ pc \in Fresh \ {"dispatch"} => ~Present("started") /\ disk["started"] = "none"
    /\ dispatched <= 1

\* Publication: what is on the disk of a terminal or a completion is what is seen,
\* and a launcher about to link either finds its name free.
PublishInv ==
    /\ \A n \in {"terminal", "completion"} :
          /\ disk[n] # "none" => fs[n] = disk[n]
          /\ fs[n] \notin Unsynced
    /\ pc = "link" => writing = "staging" \/ fs["staging"] \notin Unsynced
    /\ pc = "link" => ~Present("terminal") /\ Present("staging")
    /\ pc \in {"unstage", "unstart", "complete", "close", "reopen"} => Present("terminal")
    /\ pc = "sidecars" /\ Present("completion") => Present("terminal")
    /\ pc \notin {"idle", "scan", "sidecars", "close"} => ~Present("completion")

\* Formal authority: who goes on to publish an accepted terminal, new or found, has
\* looked at it, and a failed terminal is never an accepted one.
AuthorityInv ==
    /\ formal = "absent" => ~tainted
    /\ pc \in {"sidecars", "link", "unstage", "unstart", "complete"} => todo # "none"
    /\ pc \in {"sidecars", "link", "unstage"} => todo # "found"
    /\ pc = "reopen" => todo = "found"
    /\ Decided /\ todo = "accepted" => ~tainted
    /\ Decided /\ todo = "found" /\ fs["terminal"] = "accepted" => ~tainted
    /\ todo = "failed" /\ pc = "link" => writing = "staging" \/ fs["staging"] # "accepted"
    /\ todo = "failed" /\ pc \in {"unstage", "unstart", "complete"} => fs["terminal"] # "accepted"

\* The child: an accepted terminal, staged or linked, is backed by its clean exit.
EvidenceInv ==
    /\ todo = "accepted" => child = "clean"
    /\ child # "none" => dispatched > 0
    /\ \A n \in {"staging", "terminal"} :
          fs[n] = "accepted" \/ disk[n] = "accepted" => child = "clean"

\* The start record, as long as power was not lost: from the dispatch until a
\* terminal is linked it is there, so no terminal says that no child was started.
TruthInv ==
    ~powerLost =>
        /\ pc = "dispatch" => Present("started")
        /\ dispatched > 0 /\ ~Present("terminal") => Present("started")
        /\ dispatched > 0 => fs["staging"] # "unstarted" /\ fs["terminal"] # "unstarted"

\* The launcher holds a claim and its marker.
Claimed == pc \notin {"idle", "scan", "claim", "mark"}

\* A loss of power leaves n as it is.
Settled(n) == disk[n] = fs[n]

\* Claim and records surely on the disk, as an accepted terminal needs them.
Backed == disk["marker"] = "whole" /\ \A s \in Sidecars : disk[s] = "whole"

\* What a terminal or a completion stands on: claim and records are on the disk when
\* either name is seen, with all their bytes and the marker when the terminal is
\* accepted, and nothing on the disk contradicts them.
DurableInv ==
    /\ \A n \in Sidecars \cup {"claim", "marker"} : disk[n] # "none" => fs[n] = disk[n]
    /\ writing \in Sidecars \cup {"claim"} => disk[writing] = "none"
    /\ Present("marker") /\ Present("claim") => fs["marker"] = fs["claim"]
    /\ Present("marker") => writing # "claim"
    /\ pc \in {"claim", "mark"} => ~Present("marker")
    /\ pc = "mark" => writing = "claim" \/ fs["claim"] = "whole"
    /\ Claimed => writing # "claim" /\ fs["claim"] \in Full /\ fs["marker"] = fs["claim"]
    /\ pc = "authorize" => fs["marker"] = "whole"
    /\ pc = "authorize" => dirty = "claims" \/ disk["marker"] = "whole"
    /\ pc \in {"start", "dispatch", "wait", "collect"} => disk["marker"] = "whole"
    /\ pc \in Fresh \cup {"wait"} => \A s \in Sidecars : ~Present(s) /\ disk[s] = "none"
    /\ pc = "collect" => \A s \in Sidecars :
          \/ s = writing
          \/ ~Present(s)
          \/ fs[s] = "whole" /\ (disk[s] = "whole" \/ dirty = "attempt")
    /\ todo = "accepted" => Backed
    /\ \A n \in {"staging", "terminal", "completion"} :
          fs[n] = "accepted" \/ disk[n] = "accepted" => Backed
    /\ pc = "link" => Recorded
    /\ pc = "link" /\ writing = "none" =>
          /\ \/ dirty = "attempt"
             \/ \A n \in Sidecars \cup {"claim", "started", "staging"} : Settled(n)
          /\ fs["staging"] = "unstarted" => ~Present("started")
    /\ \A m \in {"terminal", "completion"} : Present(m) =>
          /\ disk["claim"] # "none" /\ \A n \in Sidecars : disk[n] # "none"
          /\ fs["staging"] \in {"none", fs[m]} /\ disk["staging"] \in {"none", fs[m]}
          /\ fs[m] = "unstarted" => fs["started"] = "none" /\ disk["started"] = "none"
    /\ Present("completion") =>
          /\ fs["terminal"] \in {"none", fs["completion"]}
          /\ disk["terminal"] \in {"none", fs["completion"]}
    /\ ~powerLost => \A s \in Sidecars : fs[s] # "spoiled"

USE RehearsalAssumption

-----------------------------------------------------------------------------
(* What a loss of power leaves *)

PowerLeaves ==
    /\ disk' = fs' /\ fs' \in [Names -> Contents]
    /\ \A n \in Names :
          /\ fs'[n] = "none" => fs[n] = "none" \/ disk[n] = "none"
          /\ fs'[n] # "none" => fs[n] # "none" \/ disk[n] # "none"
          /\ \/ fs'[n] \in {fs[n], disk[n]} \ Unsynced
             \/ /\ fs[n] \in Unsynced \/ disk[n] \in Unsynced
                /\ fs'[n] \in {"torn", "whole", "spoiled"}
    /\ fs["marker"] = fs["claim"] /\ disk["marker"] \in {"none", fs["marker"]}
       /\ disk["claim"] \in {"none", fs["claim"]} /\ fs'["marker"] # "none"
       /\ fs'["claim"] # "none" => fs'["marker"] = fs'["claim"]
    /\ child' = (IF child = "running" THEN "gone" ELSE child)
    /\ pc' = "idle" /\ todo' = "none" /\ writing' = "none" /\ dirty' = "none"
    /\ faults < MaxFaults /\ faults' = faults + 1 /\ powerLost' = TRUE
    /\ UNCHANGED <<dispatched, formal, tainted, launched>>

LEMMA PowerFacts == ASSUME TypeOK, PowerLoss PROVE PowerLeaves
  <1>1. PICK kept \in SUBSET {n \in Names : fs[n] # disk[n]} :
          LET after == [n \in Names |-> IF n \in kept THEN fs[n] ELSE disk[n]]
              told == after["terminal"] # "none" \/ after["completion"] # "none"
          IN  \E lost \in SUBSET {File(n) : n \in {m \in Names : after[m] \in Unsynced}} :
                fs' = [n \in Names |-> Left(n, after[n], lost, told)]
    BY DEF PowerLoss
  <1> DEFINE after == [n \in Names |-> IF n \in kept THEN fs[n] ELSE disk[n]]
             told == after["terminal"] # "none" \/ after["completion"] # "none"
  <1>2. PICK lost \in SUBSET {File(n) : n \in {m \in Names : after[m] \in Unsynced}} :
          fs' = [n \in Names |-> Left(n, after[n], lost, told)]
    BY <1>1
  <1>3. \A n \in Names : after[n] \in {fs[n], disk[n]} /\ after[n] \in Contents
    BY DEF TypeOK
  <1>4. \A n \in Names : fs'[n] = Left(n, after[n], lost, told)
    BY <1>2
  <1> HIDE DEF after, told
  <1>5. ASSUME NEW n \in Names
        PROVE  /\ fs'[n] = "none" <=> after[n] = "none"
               /\ after[n] \notin Unsynced => fs'[n] = after[n]
               /\ after[n] \in Unsynced => fs'[n] \in {"torn", "whole", "spoiled"}
    BY <1>4 DEF Left, Unsynced
  <1>6. ASSUME NEW n \in Names PROVE fs'[n] \in Contents
    <2>1. after[n] \in Contents
      BY <1>3
    <2>2. after[n] \in Unsynced => fs'[n] \in {"torn", "whole", "spoiled"}
      BY <1>5
    <2>3. after[n] \notin Unsynced => fs'[n] = after[n]
      BY <1>5
    <2> QED BY <2>1, <2>2, <2>3 DEF Contents, Unsynced
  <1>7. after["marker"] = after["claim"] => fs'["marker"] = fs'["claim"]
    BY <1>4 DEF Left, File, Names, Sidecars
  <1>8. fs' \in [Names -> Contents]
    BY <1>2, <1>6
  <1>9. ASSUME fs["marker"] = fs["claim"], disk["marker"] \in {"none", fs["marker"]},
               disk["claim"] \in {"none", fs["claim"]}, fs'["marker"] # "none",
               fs'["claim"] # "none"
        PROVE  fs'["marker"] = fs'["claim"]
    BY <1>3, <1>5, <1>7, <1>9 DEF Names
  <1>10. ASSUME NEW n \in Names
         PROVE  /\ fs'[n] = "none" => fs[n] = "none" \/ disk[n] = "none"
                /\ fs'[n] # "none" => fs[n] # "none" \/ disk[n] # "none"
                /\ \/ fs'[n] \in {fs[n], disk[n]} \ Unsynced
                   \/ /\ fs[n] \in Unsynced \/ disk[n] \in Unsynced
                      /\ fs'[n] \in {"torn", "whole", "spoiled"}
    BY <1>3, <1>5
  <1>11. /\ child' = (IF child = "running" THEN "gone" ELSE child)
         /\ pc' = "idle" /\ todo' = "none" /\ writing' = "none" /\ dirty' = "none"
         /\ faults < MaxFaults /\ faults' = faults + 1 /\ powerLost' = TRUE
         /\ UNCHANGED <<dispatched, formal, tainted, launched>> /\ disk' = fs'
    BY DEF PowerLoss, Goto, formalVars
  <1> QED BY <1>8, <1>9, <1>10, <1>11 DEF PowerLeaves

-----------------------------------------------------------------------------
(* Types *)

LEMMA InitType == Init => TypeOK
  <1> SUFFICES ASSUME Init PROVE TypeOK
    OBVIOUS
  <1>1. fs \in [Names -> Contents] /\ disk \in [Names -> Contents]
    BY DEF Init, Contents
  <1>2. faults \in 0..MaxFaults /\ dispatched \in Nat
    BY DEF Init
  <1>3. /\ pc = "idle" /\ todo = "none" /\ writing = "none" /\ dirty = "none"
        /\ child = "none" /\ formal = "absent"
        /\ tainted \in BOOLEAN /\ launched \in BOOLEAN /\ powerLost \in BOOLEAN
    BY DEF Init
  <1> QED BY <1>1, <1>2, <1>3 DEF TypeOK

LEMMA NextType ==
    ASSUME TypeOK, [Next]_vars PROVE TypeOK'
  <1>0. CASE WriteBytes
    BY <1>0
    DEF WriteBytes, TypeOK, Names, Sidecars, Contents, Unsynced, Terminals, childVars,
        formalVars, faultVars, launcherVars
  <1>1. CASE FinishWrite
    BY <1>1
    DEF FinishWrite, Outcome, Present, TypeOK, Names, Sidecars, Contents, Unsynced,
        Terminals, childVars, formalVars, faultVars, Directory
  <1>2. CASE Sync
    BY <1>2
    DEF Sync, Directory, TypeOK, Names, Sidecars, Contents, Unsynced, Terminals, childVars,
        formalVars, faultVars
  <1>3. CASE Launch
    BY <1>3
    DEF Launch, TypeOK, Names, Sidecars, Contents, Unsynced, Terminals, Goto, Elsewhere,
        childVars, formalVars, faultVars
  <1>4. CASE MakeAttempt
    BY <1>4
    DEF MakeAttempt, Prior, Present, TypeOK, Names, Sidecars, Contents, Unsynced, Terminals,
        At, Goto, Enter, Elsewhere, childVars, formalVars, faultVars, Directory
  <1>5. CASE WriteClaim
    BY <1>5
    DEF WriteClaim, TypeOK, Names, Sidecars, Contents, Unsynced, Terminals, At, Goto,
        Create, Elsewhere, childVars, formalVars, faultVars
  <1>6. CASE LinkMarker
    BY <1>6
    DEF LinkMarker, TypeOK, Names, Sidecars, Contents, Unsynced, Terminals, At, Goto, Enter,
        Elsewhere, childVars, formalVars, faultVars, Directory
  <1>7. CASE Refuse
    BY <1>7
    DEF Refuse, Claim, Recoverable, Full, Prior, Present, TypeOK, Names, Sidecars, Contents,
        Unsynced, Terminals, At, Goto, KeepFiles, Elsewhere, files, childVars, formalVars,
        faultVars
  <1>8. CASE Resume
    BY <1>8
    DEF Resume, Relink, Prior, Claim, Recoverable, Full, Present, TypeOK, Names, Sidecars,
        Contents, Unsynced, Terminals, At, Goto, Enter, Elsewhere, childVars, formalVars,
        faultVars, Directory
  <1>9. CASE Authorize
    BY <1>9
    DEF Authorize, TypeOK, Names, Sidecars, Contents, Unsynced, Terminals, At, Goto,
        KeepFiles, Elsewhere, files, childVars, formalVars, faultVars
  <1>10. CASE Start
    BY <1>10
    DEF Start, TypeOK, Names, Sidecars, Contents, Unsynced, Terminals, At, Goto, Create,
        Elsewhere, childVars, formalVars, faultVars
  <1>11. CASE Dispatch
    BY <1>11
    DEF Dispatch, TypeOK, Names, Sidecars, Contents, Unsynced, Terminals, At, Goto,
        KeepFiles, files, formalVars, faultVars
  <1>12. CASE Collect
    BY <1>12
    DEF Collect, TypeOK, Names, Sidecars, Contents, Unsynced, Terminals, At, Goto,
        KeepFiles, Elsewhere, files, childVars, formalVars, faultVars
  <1>13. CASE WriteSidecar
    BY <1>13
    DEF WriteSidecar, TypeOK, Names, Sidecars, Contents, Unsynced, Terminals, At, Create,
        Elsewhere, childVars, formalVars, faultVars
  <1>14. CASE Validate
    BY <1>14
    DEF Validate, Recorded, Present, TypeOK, Names, Sidecars, Contents, Unsynced, Terminals,
        At, Goto, KeepFiles, Elsewhere, files, childVars, formalVars, faultVars
  <1>15. CASE Stage
    BY <1>15
    DEF Stage, Present, TypeOK, Names, Sidecars, Contents, Unsynced, Terminals, At, Goto,
        Create, Elsewhere, childVars, formalVars, faultVars
  <1>16. CASE StageRefused
    BY <1>16
    DEF StageRefused, Present, TypeOK, Names, Sidecars, Contents, Unsynced, Terminals, At,
        Goto, KeepFiles, Elsewhere, files, childVars, formalVars, faultVars
  <1>17. CASE LinkTerminal
    BY <1>17
    DEF LinkTerminal, TypeOK, Names, Sidecars, Contents, Unsynced, Terminals, At, Goto,
        Enter, Elsewhere, childVars, formalVars, faultVars, Directory
  <1>18. CASE Unstage
    BY <1>18
    DEF Unstage, TypeOK, Names, Sidecars, Contents, Unsynced, Terminals, At, Goto, Enter,
        Elsewhere, childVars, formalVars, faultVars, Directory
  <1>19. CASE Unstart
    BY <1>19
    DEF Unstart, TypeOK, Names, Sidecars, Contents, Unsynced, Terminals, At, Goto, Enter,
        Elsewhere, childVars, formalVars, faultVars, Directory
  <1>20. CASE Complete
    BY <1>20
    DEF Complete, Exact, Present, Recorded, TypeOK, Names, Sidecars, Contents, Unsynced,
        Terminals, At, Goto, Enter, Elsewhere, childVars, formalVars, faultVars, Directory
  <1>21. CASE Close
    BY <1>21
    DEF Close, TypeOK, Names, Sidecars, Contents, Unsynced, Terminals, At, Goto, KeepFiles,
        Elsewhere, files, childVars, formalVars, faultVars
  <1>22. CASE Restage
    BY <1>22
    DEF Restage, TypeOK, Names, Sidecars, Contents, Unsynced, Terminals, At, Goto, Enter,
        Elsewhere, childVars, formalVars, faultVars, Directory
  <1>23. CASE Unalias
    BY <1>23
    DEF Unalias, TypeOK, Names, Sidecars, Contents, Unsynced, Terminals, At, Enter,
        Elsewhere, childVars, formalVars, faultVars, Directory
  <1>24. CASE Reopen
    BY <1>24
    DEF Reopen, Sound, TypeOK, Names, Sidecars, Contents, Unsynced, Terminals, At, Goto,
        KeepFiles, Elsewhere, files, childVars, formalVars, faultVars
  <1>25. CASE ChildExits
    BY <1>25
    DEF ChildExits, TypeOK, Names, Sidecars, Contents, Unsynced, Terminals, files,
        launcherVars, formalVars, faultVars
  <1>26. CASE Fault
    BY <1>26
    DEF Fault, Handled, TypeOK, Names, Sidecars, Contents, Unsynced, Terminals, Goto, files,
        formalVars
  <1>27. CASE Kill
    BY <1>27
    DEF Kill, TypeOK, Names, Sidecars, Contents, Unsynced, Terminals, Goto, files,
        childVars, formalVars
  <1>28. CASE PowerLoss
    <2>1. /\ fs' \in [Names -> Contents] /\ disk' = fs'
          /\ child' = (IF child = "running" THEN "gone" ELSE child)
          /\ pc' = "idle" /\ todo' = "none" /\ writing' = "none" /\ dirty' = "none"
          /\ faults < MaxFaults /\ faults' = faults + 1 /\ powerLost' = TRUE
          /\ UNCHANGED <<dispatched, formal, tainted, launched>>
      BY <1>28, PowerFacts DEF PowerLeaves
    <2>2. faults' \in 0..MaxFaults
      BY <2>1 DEF TypeOK
    <2> QED BY <2>1, <2>2 DEF TypeOK
  <1>29. CASE FormalAppears
    BY <1>29
    DEF FormalAppears, Decided, Present, TypeOK, Names, Sidecars, Contents, Unsynced,
        Terminals, files, launcherVars, childVars, faultVars
  <1>30. CASE FormalLaunch
    BY <1>30
    DEF FormalLaunch, Exact, TypeOK, Names, Sidecars, Contents, Unsynced, Terminals,
        launcherVars, childVars, faultVars
  <1>31. CASE UNCHANGED vars
    BY <1>31
    DEF vars, TypeOK, Names, Sidecars, Contents, Unsynced, Terminals, files, launcherVars,
        childVars, formalVars, faultVars
  <1> QED
    BY <1>0, <1>1, <1>2, <1>3, <1>4, <1>5, <1>6, <1>7, <1>8, <1>9, <1>10, <1>11, <1>12, <1>13,
       <1>14, <1>15, <1>16, <1>17, <1>18, <1>19, <1>20, <1>21, <1>22, <1>23, <1>24, <1>25,
       <1>26, <1>27, <1>28, <1>29, <1>30, <1>31 DEF Next, LauncherSteps

-----------------------------------------------------------------------------
(* The claim *)

LEMMA NextClaim ==
    ASSUME TypeOK, ClaimInv, [Next]_vars PROVE ClaimInv'
  <1>0. CASE WriteBytes
    BY <1>0
    DEF WriteBytes, ClaimInv, Inner, Present, Fresh, TypeOK, Names, Sidecars, Contents,
        Unsynced, Terminals, childVars, formalVars, faultVars, launcherVars
  <1>1. CASE FinishWrite
    <2>1. fs'["attempt"] = fs["attempt"]
      BY <1>1 DEF FinishWrite, TypeOK, Names, Sidecars
    <2> QED
      BY <1>1, <2>1 DEF FinishWrite, ClaimInv, Inner, Present, Fresh, childVars,
         Directory, TypeOK, Names, Sidecars
  <1>2. CASE Sync
    BY <1>2
    DEF Sync, Directory, ClaimInv, Inner, Present, Fresh, TypeOK, Names, Sidecars, Contents,
        Unsynced, Terminals, childVars, formalVars, faultVars
  <1>3. CASE Launch
    BY <1>3
    DEF Launch, ClaimInv, Inner, Present, Fresh, TypeOK, Names, Sidecars, Contents,
        Unsynced, Terminals, Goto, Elsewhere, childVars, formalVars, faultVars
  <1>4. CASE MakeAttempt
    BY <1>4
    DEF MakeAttempt, Prior, Present, ClaimInv, Inner, Fresh, Directory, TypeOK, Names,
        Sidecars, Contents, Unsynced, Terminals, At, Goto, Enter, Elsewhere, childVars,
        formalVars, faultVars
  <1>5. CASE WriteClaim
    BY <1>5
    DEF WriteClaim, ClaimInv, Inner, Present, Fresh, TypeOK, Names, Sidecars, Contents,
        Unsynced, Terminals, At, Goto, Create, Elsewhere, childVars, formalVars, faultVars
  <1>6. CASE LinkMarker
    BY <1>6
    DEF LinkMarker, ClaimInv, Inner, Present, Fresh, Directory, TypeOK, Names, Sidecars,
        Contents, Unsynced, Terminals, At, Goto, Enter, Elsewhere, childVars, formalVars,
        faultVars
  <1>7. CASE Refuse
    BY <1>7
    DEF Refuse, Claim, Recoverable, Full, Prior, Present, ClaimInv, Inner, Fresh, TypeOK,
        Names, Sidecars, Contents, Unsynced, Terminals, At, Goto, KeepFiles, Elsewhere,
        files, childVars, formalVars, faultVars
  <1>8. CASE Resume
    BY <1>8
    DEF Resume, Relink, Prior, Claim, Recoverable, Full, Present, ClaimInv, Inner, Fresh,
        Directory, TypeOK, Names, Sidecars, Contents, Unsynced, Terminals, At, Goto, Enter,
        Elsewhere, childVars, formalVars, faultVars
  <1>9. CASE Authorize
    BY <1>9
    DEF Authorize, ClaimInv, Inner, Present, Fresh, TypeOK, Names, Sidecars, Contents,
        Unsynced, Terminals, At, Goto, KeepFiles, Elsewhere, files, childVars, formalVars,
        faultVars
  <1>10. CASE Start
    BY <1>10
    DEF Start, ClaimInv, Inner, Present, Fresh, TypeOK, Names, Sidecars, Contents, Unsynced,
        Terminals, At, Goto, Create, Elsewhere, childVars, formalVars, faultVars
  <1>11. CASE Dispatch
    BY <1>11
    DEF Dispatch, ClaimInv, Inner, Present, Fresh, TypeOK, Names, Sidecars, Contents,
        Unsynced, Terminals, At, Goto, KeepFiles, files, formalVars, faultVars
  <1>12. CASE Collect
    BY <1>12
    DEF Collect, ClaimInv, Inner, Present, Fresh, TypeOK, Names, Sidecars, Contents,
        Unsynced, Terminals, At, Goto, KeepFiles, Elsewhere, files, childVars, formalVars,
        faultVars
  <1>13. CASE WriteSidecar
    BY <1>13
    DEF WriteSidecar, ClaimInv, Inner, Present, Fresh, TypeOK, Names, Sidecars, Contents,
        Unsynced, Terminals, At, Create, Elsewhere, childVars, formalVars, faultVars
  <1>14. CASE Validate
    BY <1>14
    DEF Validate, Recorded, Present, ClaimInv, Inner, Fresh, TypeOK, Names, Sidecars,
        Contents, Unsynced, Terminals, At, Goto, KeepFiles, Elsewhere, files, childVars,
        formalVars, faultVars
  <1>15. CASE Stage
    BY <1>15
    DEF Stage, Present, ClaimInv, Inner, Recorded, Fresh, TypeOK, Names, Sidecars, Contents,
        Unsynced, Terminals, At, Goto, Create, Elsewhere, childVars, formalVars, faultVars
  <1>16. CASE StageRefused
    BY <1>16
    DEF StageRefused, Present, ClaimInv, Inner, Recorded, Fresh, TypeOK, Names, Sidecars,
        Contents, Unsynced, Terminals, At, Goto, KeepFiles, Elsewhere, files, childVars,
        formalVars, faultVars
  <1>17. CASE LinkTerminal
    BY <1>17
    DEF LinkTerminal, ClaimInv, Inner, Present, Fresh, Directory, TypeOK, Names, Sidecars,
        Contents, Unsynced, Terminals, At, Goto, Enter, Elsewhere, childVars, formalVars,
        faultVars
  <1>18. CASE Unstage
    BY <1>18
    DEF Unstage, ClaimInv, Inner, Present, Fresh, Directory, TypeOK, Names, Sidecars,
        Contents, Unsynced, Terminals, At, Goto, Enter, Elsewhere, childVars, formalVars,
        faultVars
  <1>19. CASE Unstart
    BY <1>19
    DEF Unstart, ClaimInv, Inner, Present, Fresh, Directory, TypeOK, Names, Sidecars,
        Contents, Unsynced, Terminals, At, Goto, Enter, Elsewhere, childVars, formalVars,
        faultVars
  <1>20. CASE Complete
    BY <1>20
    DEF Complete, Exact, Present, Recorded, ClaimInv, Inner, Fresh, Directory, TypeOK,
        Names, Sidecars, Contents, Unsynced, Terminals, At, Goto, Enter, Elsewhere,
        childVars, formalVars, faultVars
  <1>21. CASE Close
    BY <1>21
    DEF Close, ClaimInv, Inner, Present, Fresh, TypeOK, Names, Sidecars, Contents, Unsynced,
        Terminals, At, Goto, KeepFiles, Elsewhere, files, childVars, formalVars, faultVars
  <1>22. CASE Restage
    BY <1>22
    DEF Restage, ClaimInv, Inner, Present, Fresh, Directory, TypeOK, Names, Sidecars,
        Contents, Unsynced, Terminals, At, Goto, Enter, Elsewhere, childVars, formalVars,
        faultVars
  <1>23. CASE Unalias
    BY <1>23
    DEF Unalias, ClaimInv, Inner, Present, Fresh, Directory, TypeOK, Names, Sidecars,
        Contents, Unsynced, Terminals, At, Enter, Elsewhere, childVars, formalVars,
        faultVars
  <1>24. CASE Reopen
    BY <1>24
    DEF Reopen, Sound, ClaimInv, Inner, Recorded, Present, Fresh, TypeOK, Names, Sidecars,
        Contents, Unsynced, Terminals, At, Goto, KeepFiles, Elsewhere, files, childVars,
        formalVars, faultVars
  <1>25. CASE ChildExits
    BY <1>25
    DEF ChildExits, ClaimInv, Inner, Present, Fresh, TypeOK, Names, Sidecars, Contents,
        Unsynced, Terminals, files, launcherVars, formalVars, faultVars
  <1>26. CASE Fault
    BY <1>26
    DEF Fault, Handled, ClaimInv, Inner, Present, Fresh, TypeOK, Names, Sidecars, Contents,
        Unsynced, Terminals, Goto, files, formalVars
  <1>27. CASE Kill
    BY <1>27
    DEF Kill, ClaimInv, Inner, Present, Fresh, TypeOK, Names, Sidecars, Contents, Unsynced,
        Terminals, Goto, files, childVars, formalVars
  <1>28. CASE PowerLoss
    <2>1. /\ disk' = fs' /\ dispatched' = dispatched
          /\ pc' = "idle" /\ writing' = "none" /\ dirty' = "none"
      BY <1>28, PowerFacts DEF PowerLeaves
    <2>2. /\ fs'["attempt"] \in {"none", "whole"}
          /\ disk["attempt"] = "whole" => fs'["attempt"] = "whole"
      BY <1>28, PowerFacts DEF PowerLeaves, ClaimInv, Names, Unsynced
    <2>3. \A n \in Inner : fs'[n] # "none" => disk["attempt"] = "whole"
      BY <1>28, PowerFacts DEF PowerLeaves, ClaimInv, Inner, Present
    <2> QED BY <2>1, <2>2, <2>3 DEF ClaimInv, Present, Fresh
  <1>29. CASE FormalAppears
    BY <1>29
    DEF FormalAppears, Decided, Present, ClaimInv, Inner, Fresh, TypeOK, Names, Sidecars,
        Contents, Unsynced, Terminals, files, launcherVars, childVars, faultVars
  <1>30. CASE FormalLaunch
    BY <1>30
    DEF FormalLaunch, Exact, ClaimInv, Inner, Recorded, Present, Fresh, TypeOK, Names,
        Sidecars, Contents, Unsynced, Terminals, launcherVars, childVars, faultVars
  <1>31. CASE UNCHANGED vars
    BY <1>31
    DEF vars, ClaimInv, Inner, Present, Fresh, TypeOK, Names, Sidecars, Contents, Unsynced,
        Terminals, files, launcherVars, childVars, formalVars, faultVars
  <1> QED
    BY <1>0, <1>1, <1>2, <1>3, <1>4, <1>5, <1>6, <1>7, <1>8, <1>9, <1>10, <1>11, <1>12, <1>13,
       <1>14, <1>15, <1>16, <1>17, <1>18, <1>19, <1>20, <1>21, <1>22, <1>23, <1>24, <1>25,
       <1>26, <1>27, <1>28, <1>29, <1>30, <1>31 DEF Next, LauncherSteps

-----------------------------------------------------------------------------
(* Publication *)

LEMMA NextPublish ==
    ASSUME TypeOK, PublishInv, [Next]_vars PROVE PublishInv'
  <1>0. CASE WriteBytes
    BY <1>0
    DEF WriteBytes, PublishInv, Present, TypeOK, Names, Sidecars, Contents, Unsynced,
        Terminals, childVars, formalVars, faultVars, launcherVars
  <1>1. CASE FinishWrite
    BY <1>1
    DEF FinishWrite, Outcome, Present, PublishInv, Directory, TypeOK, Names, Sidecars,
        Contents, Unsynced, Terminals, childVars, formalVars, faultVars
  <1>2. CASE Sync
    BY <1>2
    DEF Sync, Directory, PublishInv, Present, TypeOK, Names, Sidecars, Contents, Unsynced,
        Terminals, childVars, formalVars, faultVars
  <1>3. CASE Launch
    BY <1>3
    DEF Launch, PublishInv, Present, TypeOK, Names, Sidecars, Contents, Unsynced, Terminals,
        Goto, Elsewhere, childVars, formalVars, faultVars
  <1>4. CASE MakeAttempt
    BY <1>4
    DEF MakeAttempt, Prior, Present, PublishInv, Directory, TypeOK, Names, Sidecars,
        Contents, Unsynced, Terminals, At, Goto, Enter, Elsewhere, childVars, formalVars,
        faultVars
  <1>5. CASE WriteClaim
    BY <1>5
    DEF WriteClaim, PublishInv, Present, TypeOK, Names, Sidecars, Contents, Unsynced,
        Terminals, At, Goto, Create, Elsewhere, childVars, formalVars, faultVars
  <1>6. CASE LinkMarker
    BY <1>6
    DEF LinkMarker, PublishInv, Present, Directory, TypeOK, Names, Sidecars, Contents,
        Unsynced, Terminals, At, Goto, Enter, Elsewhere, childVars, formalVars, faultVars
  <1>7. CASE Refuse
    BY <1>7
    DEF Refuse, Claim, Recoverable, Full, Prior, Present, PublishInv, TypeOK, Names,
        Sidecars, Contents, Unsynced, Terminals, At, Goto, KeepFiles, Elsewhere, files,
        childVars, formalVars, faultVars
  <1>8. CASE Resume
    BY <1>8
    DEF Resume, Relink, Prior, Claim, Recoverable, Full, Present, PublishInv, Directory,
        TypeOK, Names, Sidecars, Contents, Unsynced, Terminals, At, Goto, Enter, Elsewhere,
        childVars, formalVars, faultVars
  <1>9. CASE Authorize
    BY <1>9
    DEF Authorize, PublishInv, Present, TypeOK, Names, Sidecars, Contents, Unsynced,
        Terminals, At, Goto, KeepFiles, Elsewhere, files, childVars, formalVars, faultVars
  <1>10. CASE Start
    BY <1>10
    DEF Start, PublishInv, Present, TypeOK, Names, Sidecars, Contents, Unsynced, Terminals,
        At, Goto, Create, Elsewhere, childVars, formalVars, faultVars
  <1>11. CASE Dispatch
    BY <1>11
    DEF Dispatch, PublishInv, Present, TypeOK, Names, Sidecars, Contents, Unsynced,
        Terminals, At, Goto, KeepFiles, files, formalVars, faultVars
  <1>12. CASE Collect
    BY <1>12
    DEF Collect, PublishInv, Present, TypeOK, Names, Sidecars, Contents, Unsynced,
        Terminals, At, Goto, KeepFiles, Elsewhere, files, childVars, formalVars, faultVars
  <1>13. CASE WriteSidecar
    BY <1>13
    DEF WriteSidecar, PublishInv, Present, TypeOK, Names, Sidecars, Contents, Unsynced,
        Terminals, At, Create, Elsewhere, childVars, formalVars, faultVars
  <1>14. CASE Validate
    BY <1>14
    DEF Validate, Recorded, Present, PublishInv, TypeOK, Names, Sidecars, Contents,
        Unsynced, Terminals, At, Goto, KeepFiles, Elsewhere, files, childVars, formalVars,
        faultVars
  <1>15. CASE Stage
    BY <1>15
    DEF Stage, Present, PublishInv, TypeOK, Names, Sidecars, Contents, Unsynced, Terminals,
        At, Goto, Create, Elsewhere, childVars, formalVars, faultVars
  <1>16. CASE StageRefused
    BY <1>16
    DEF StageRefused, Present, PublishInv, TypeOK, Names, Sidecars, Contents, Unsynced,
        Terminals, At, Goto, KeepFiles, Elsewhere, files, childVars, formalVars, faultVars
  <1>17. CASE LinkTerminal
    BY <1>17
    DEF LinkTerminal, PublishInv, Present, Directory, TypeOK, Names, Sidecars, Contents,
        Unsynced, Terminals, At, Goto, Enter, Elsewhere, childVars, formalVars, faultVars
  <1>18. CASE Unstage
    BY <1>18
    DEF Unstage, PublishInv, Present, Directory, TypeOK, Names, Sidecars, Contents,
        Unsynced, Terminals, At, Goto, Enter, Elsewhere, childVars, formalVars, faultVars
  <1>19. CASE Unstart
    BY <1>19
    DEF Unstart, PublishInv, Present, Directory, TypeOK, Names, Sidecars, Contents,
        Unsynced, Terminals, At, Goto, Enter, Elsewhere, childVars, formalVars, faultVars
  <1>20. CASE Complete
    BY <1>20
    DEF Complete, Exact, Present, Recorded, PublishInv, Directory, TypeOK, Names, Sidecars,
        Contents, Unsynced, Terminals, At, Goto, Enter, Elsewhere, childVars, formalVars,
        faultVars
  <1>21. CASE Close
    BY <1>21
    DEF Close, PublishInv, Present, TypeOK, Names, Sidecars, Contents, Unsynced, Terminals,
        At, Goto, KeepFiles, Elsewhere, files, childVars, formalVars, faultVars
  <1>22. CASE Restage
    BY <1>22
    DEF Restage, PublishInv, Present, Directory, TypeOK, Names, Sidecars, Contents,
        Unsynced, Terminals, At, Goto, Enter, Elsewhere, childVars, formalVars, faultVars
  <1>23. CASE Unalias
    BY <1>23
    DEF Unalias, PublishInv, Present, Directory, TypeOK, Names, Sidecars, Contents,
        Unsynced, Terminals, At, Enter, Elsewhere, childVars, formalVars, faultVars
  <1>24. CASE Reopen
    BY <1>24
    DEF Reopen, Sound, PublishInv, Present, TypeOK, Names, Sidecars, Contents, Unsynced,
        Terminals, At, Goto, KeepFiles, Elsewhere, files, childVars, formalVars, faultVars
  <1>25. CASE ChildExits
    BY <1>25
    DEF ChildExits, PublishInv, Present, TypeOK, Names, Sidecars, Contents, Unsynced,
        Terminals, files, launcherVars, formalVars, faultVars
  <1>26. CASE Fault
    BY <1>26
    DEF Fault, Handled, PublishInv, Present, TypeOK, Names, Sidecars, Contents, Unsynced,
        Terminals, Goto, files, formalVars
  <1>27. CASE Kill
    BY <1>27
    DEF Kill, PublishInv, Present, TypeOK, Names, Sidecars, Contents, Unsynced, Terminals,
        Goto, files, childVars, formalVars
  <1>28. CASE PowerLoss
    BY <1>28, PowerFacts
    DEF PowerLeaves, PublishInv, Present, TypeOK, Names, Sidecars, Contents, Unsynced,
        Terminals
  <1>29. CASE FormalAppears
    BY <1>29
    DEF FormalAppears, Decided, Present, PublishInv, TypeOK, Names, Sidecars, Contents,
        Unsynced, Terminals, files, launcherVars, childVars, faultVars
  <1>30. CASE FormalLaunch
    BY <1>30
    DEF FormalLaunch, Exact, PublishInv, Present, TypeOK, Names, Sidecars, Contents,
        Unsynced, Terminals, launcherVars, childVars, faultVars
  <1>31. CASE UNCHANGED vars
    BY <1>31
    DEF vars, PublishInv, Present, TypeOK, Names, Sidecars, Contents, Unsynced, Terminals,
        files, launcherVars, childVars, formalVars, faultVars
  <1> QED
    BY <1>0, <1>1, <1>2, <1>3, <1>4, <1>5, <1>6, <1>7, <1>8, <1>9, <1>10, <1>11, <1>12, <1>13,
       <1>14, <1>15, <1>16, <1>17, <1>18, <1>19, <1>20, <1>21, <1>22, <1>23, <1>24, <1>25,
       <1>26, <1>27, <1>28, <1>29, <1>30, <1>31 DEF Next, LauncherSteps

-----------------------------------------------------------------------------
(* Formal authority *)

LEMMA NextAuthority ==
    ASSUME TypeOK, PublishInv, AuthorityInv, AuthorityIsEarned, [Next]_vars
    PROVE  (AuthorityInv /\ AuthorityIsEarned)'
  <1>0. CASE WriteBytes
    BY <1>0
    DEF WriteBytes, PublishInv, AuthorityInv, AuthorityIsEarned, Decided, Present, TypeOK,
        Names, Sidecars, Contents, Unsynced, Terminals, childVars, formalVars, faultVars,
        launcherVars
  <1>1. CASE FinishWrite
    BY <1>1
    DEF FinishWrite, Outcome, Present, PublishInv, AuthorityInv, AuthorityIsEarned, Decided,
        Directory, TypeOK, Names, Sidecars, Contents, Unsynced, Terminals, childVars,
        formalVars, faultVars
  <1>2. CASE Sync
    BY <1>2
    DEF Sync, Directory, PublishInv, AuthorityInv, AuthorityIsEarned, Decided, Present,
        TypeOK, Names, Sidecars, Contents, Unsynced, Terminals, childVars, formalVars,
        faultVars
  <1>3. CASE Launch
    BY <1>3
    DEF Launch, PublishInv, AuthorityInv, AuthorityIsEarned, Decided, Present, TypeOK,
        Names, Sidecars, Contents, Unsynced, Terminals, Goto, Elsewhere, childVars,
        formalVars, faultVars
  <1>4. CASE MakeAttempt
    BY <1>4
    DEF MakeAttempt, Prior, Present, PublishInv, AuthorityInv, AuthorityIsEarned, Decided,
        Directory, TypeOK, Names, Sidecars, Contents, Unsynced, Terminals, At, Goto, Enter,
        Elsewhere, childVars, formalVars, faultVars
  <1>5. CASE WriteClaim
    BY <1>5
    DEF WriteClaim, PublishInv, AuthorityInv, AuthorityIsEarned, Decided, Present, TypeOK,
        Names, Sidecars, Contents, Unsynced, Terminals, At, Goto, Create, Elsewhere,
        childVars, formalVars, faultVars
  <1>6. CASE LinkMarker
    BY <1>6
    DEF LinkMarker, PublishInv, AuthorityInv, AuthorityIsEarned, Decided, Present,
        Directory, TypeOK, Names, Sidecars, Contents, Unsynced, Terminals, At, Goto, Enter,
        Elsewhere, childVars, formalVars, faultVars
  <1>7. CASE Refuse
    BY <1>7
    DEF Refuse, Claim, Recoverable, Full, Prior, Present, PublishInv, AuthorityInv,
        AuthorityIsEarned, Decided, TypeOK, Names, Sidecars, Contents, Unsynced, Terminals,
        At, Goto, KeepFiles, Elsewhere, files, childVars, formalVars, faultVars
  <1>8. CASE Resume
    BY <1>8
    DEF Resume, Relink, Prior, Claim, Recoverable, Full, Present, PublishInv, AuthorityInv,
        AuthorityIsEarned, Decided, Directory, TypeOK, Names, Sidecars, Contents, Unsynced,
        Terminals, At, Goto, Enter, Elsewhere, childVars, formalVars, faultVars
  <1>9. CASE Authorize
    BY <1>9
    DEF Authorize, PublishInv, AuthorityInv, AuthorityIsEarned, Decided, Present, TypeOK,
        Names, Sidecars, Contents, Unsynced, Terminals, At, Goto, KeepFiles, Elsewhere,
        files, childVars, formalVars, faultVars
  <1>10. CASE Start
    BY <1>10
    DEF Start, PublishInv, AuthorityInv, AuthorityIsEarned, Decided, Present, TypeOK, Names,
        Sidecars, Contents, Unsynced, Terminals, At, Goto, Create, Elsewhere, childVars,
        formalVars, faultVars
  <1>11. CASE Dispatch
    BY <1>11
    DEF Dispatch, PublishInv, AuthorityInv, AuthorityIsEarned, Decided, Present, TypeOK,
        Names, Sidecars, Contents, Unsynced, Terminals, At, Goto, KeepFiles, files,
        formalVars, faultVars
  <1>12. CASE Collect
    BY <1>12
    DEF Collect, PublishInv, AuthorityInv, AuthorityIsEarned, Decided, Present, TypeOK,
        Names, Sidecars, Contents, Unsynced, Terminals, At, Goto, KeepFiles, Elsewhere,
        files, childVars, formalVars, faultVars
  <1>13. CASE WriteSidecar
    BY <1>13
    DEF WriteSidecar, PublishInv, AuthorityInv, AuthorityIsEarned, Decided, Present, TypeOK,
        Names, Sidecars, Contents, Unsynced, Terminals, At, Create, Elsewhere, childVars,
        formalVars, faultVars
  <1>14. CASE Validate
    BY <1>14
    DEF Validate, Recorded, Present, PublishInv, AuthorityInv, AuthorityIsEarned, Decided,
        TypeOK, Names, Sidecars, Contents, Unsynced, Terminals, At, Goto, KeepFiles,
        Elsewhere, files, childVars, formalVars, faultVars
  <1>15. CASE Stage
    BY <1>15
    DEF Stage, Present, PublishInv, AuthorityInv, AuthorityIsEarned, Decided, TypeOK, Names,
        Sidecars, Contents, Unsynced, Terminals, At, Goto, Create, Elsewhere, childVars,
        formalVars, faultVars
  <1>16. CASE StageRefused
    BY <1>16
    DEF StageRefused, Present, PublishInv, AuthorityInv, AuthorityIsEarned, Decided, TypeOK,
        Names, Sidecars, Contents, Unsynced, Terminals, At, Goto, KeepFiles, Elsewhere,
        files, childVars, formalVars, faultVars
  <1>17. CASE LinkTerminal
    BY <1>17
    DEF LinkTerminal, PublishInv, AuthorityInv, AuthorityIsEarned, Decided, Present,
        Directory, TypeOK, Names, Sidecars, Contents, Unsynced, Terminals, At, Goto, Enter,
        Elsewhere, childVars, formalVars, faultVars
  <1>18. CASE Unstage
    BY <1>18
    DEF Unstage, PublishInv, AuthorityInv, AuthorityIsEarned, Decided, Present, Directory,
        TypeOK, Names, Sidecars, Contents, Unsynced, Terminals, At, Goto, Enter, Elsewhere,
        childVars, formalVars, faultVars
  <1>19. CASE Unstart
    BY <1>19
    DEF Unstart, PublishInv, AuthorityInv, AuthorityIsEarned, Decided, Present, Directory,
        TypeOK, Names, Sidecars, Contents, Unsynced, Terminals, At, Goto, Enter, Elsewhere,
        childVars, formalVars, faultVars
  <1>20. CASE Complete
    BY <1>20
    DEF Complete, Exact, Present, Recorded, PublishInv, AuthorityInv, AuthorityIsEarned,
        Decided, Directory, TypeOK, Names, Sidecars, Contents, Unsynced, Terminals, At,
        Goto, Enter, Elsewhere, childVars, formalVars, faultVars
  <1>21. CASE Close
    BY <1>21
    DEF Close, PublishInv, AuthorityInv, AuthorityIsEarned, Decided, Present, TypeOK, Names,
        Sidecars, Contents, Unsynced, Terminals, At, Goto, KeepFiles, Elsewhere, files,
        childVars, formalVars, faultVars
  <1>22. CASE Restage
    BY <1>22
    DEF Restage, PublishInv, AuthorityInv, AuthorityIsEarned, Decided, Present, Directory,
        TypeOK, Names, Sidecars, Contents, Unsynced, Terminals, At, Goto, Enter, Elsewhere,
        childVars, formalVars, faultVars
  <1>23. CASE Unalias
    BY <1>23
    DEF Unalias, PublishInv, AuthorityInv, AuthorityIsEarned, Decided, Present, Directory,
        TypeOK, Names, Sidecars, Contents, Unsynced, Terminals, At, Enter, Elsewhere,
        childVars, formalVars, faultVars
  <1>24. CASE Reopen
    BY <1>24
    DEF Reopen, Sound, PublishInv, AuthorityInv, AuthorityIsEarned, Decided, Present,
        TypeOK, Names, Sidecars, Contents, Unsynced, Terminals, At, Goto, KeepFiles,
        Elsewhere, files, childVars, formalVars, faultVars
  <1>25. CASE ChildExits
    BY <1>25
    DEF ChildExits, PublishInv, AuthorityInv, AuthorityIsEarned, Decided, Present, TypeOK,
        Names, Sidecars, Contents, Unsynced, Terminals, files, launcherVars, formalVars,
        faultVars
  <1>26. CASE Fault
    BY <1>26
    DEF Fault, Handled, PublishInv, AuthorityInv, AuthorityIsEarned, Decided, Present,
        TypeOK, Names, Sidecars, Contents, Unsynced, Terminals, Goto, files, formalVars
  <1>27. CASE Kill
    BY <1>27
    DEF Kill, PublishInv, AuthorityInv, AuthorityIsEarned, Decided, Present, TypeOK, Names,
        Sidecars, Contents, Unsynced, Terminals, Goto, files, childVars, formalVars
  <1>28. CASE PowerLoss
    <2>1. /\ disk' = fs' /\ pc' = "idle" /\ todo' = "none"
          /\ UNCHANGED <<formal, tainted, launched>>
      BY <1>28, PowerFacts DEF PowerLeaves
    <2>2. fs'["completion"] \in {fs["completion"], disk["completion"]}
      BY <1>28, PowerFacts DEF PowerLeaves, PublishInv, Names, Unsynced
    <2>3. disk["completion"] # "none" => fs'["completion"] = disk["completion"]
      BY <2>2 DEF PublishInv
    <2> QED BY <2>1, <2>2, <2>3 DEF PublishInv, AuthorityInv, AuthorityIsEarned, Decided
  <1>29. CASE FormalAppears
    BY <1>29
    DEF FormalAppears, Decided, Present, PublishInv, AuthorityInv, AuthorityIsEarned,
        TypeOK, Names, Sidecars, Contents, Unsynced, Terminals, files, launcherVars,
        childVars, faultVars
  <1>30. CASE FormalLaunch
    BY <1>30
    DEF FormalLaunch, Exact, PublishInv, AuthorityInv, AuthorityIsEarned, Decided, Present,
        TypeOK, Names, Sidecars, Contents, Unsynced, Terminals, launcherVars, childVars,
        faultVars
  <1>31. CASE UNCHANGED vars
    BY <1>31
    DEF vars, PublishInv, AuthorityInv, AuthorityIsEarned, Decided, Present, TypeOK, Names,
        Sidecars, Contents, Unsynced, Terminals, files, launcherVars, childVars, formalVars,
        faultVars
  <1> QED
    BY <1>0, <1>1, <1>2, <1>3, <1>4, <1>5, <1>6, <1>7, <1>8, <1>9, <1>10, <1>11, <1>12, <1>13,
       <1>14, <1>15, <1>16, <1>17, <1>18, <1>19, <1>20, <1>21, <1>22, <1>23, <1>24, <1>25,
       <1>26, <1>27, <1>28, <1>29, <1>30, <1>31 DEF Next, LauncherSteps

-----------------------------------------------------------------------------
(* What a terminal says *)

LEMMA NextEvidence ==
    ASSUME TypeOK, ClaimInv, EvidenceInv, [Next]_vars PROVE EvidenceInv'
  <1>0. CASE WriteBytes
    BY <1>0
    DEF WriteBytes, ClaimInv, Inner, Present, Fresh, EvidenceInv, TypeOK, Names, Sidecars,
        Contents, Unsynced, Terminals, childVars, formalVars, faultVars, launcherVars
  <1>1. CASE FinishWrite
    BY <1>1
    DEF FinishWrite, Outcome, Present, ClaimInv, Inner, Fresh, EvidenceInv, Directory,
        TypeOK, Names, Sidecars, Contents, Unsynced, Terminals, childVars, formalVars,
        faultVars
  <1>2. CASE Sync
    BY <1>2
    DEF Sync, Directory, ClaimInv, Inner, Present, Fresh, EvidenceInv, TypeOK, Names,
        Sidecars, Contents, Unsynced, Terminals, childVars, formalVars, faultVars
  <1>3. CASE Launch
    BY <1>3
    DEF Launch, ClaimInv, Inner, Present, Fresh, EvidenceInv, TypeOK, Names, Sidecars,
        Contents, Unsynced, Terminals, Goto, Elsewhere, childVars, formalVars, faultVars
  <1>4. CASE MakeAttempt
    BY <1>4
    DEF MakeAttempt, Prior, Present, ClaimInv, Inner, Fresh, EvidenceInv, Directory, TypeOK,
        Names, Sidecars, Contents, Unsynced, Terminals, At, Goto, Enter, Elsewhere,
        childVars, formalVars, faultVars
  <1>5. CASE WriteClaim
    BY <1>5
    DEF WriteClaim, ClaimInv, Inner, Present, Fresh, EvidenceInv, TypeOK, Names, Sidecars,
        Contents, Unsynced, Terminals, At, Goto, Create, Elsewhere, childVars, formalVars,
        faultVars
  <1>6. CASE LinkMarker
    BY <1>6
    DEF LinkMarker, ClaimInv, Inner, Present, Fresh, EvidenceInv, Directory, TypeOK, Names,
        Sidecars, Contents, Unsynced, Terminals, At, Goto, Enter, Elsewhere, childVars,
        formalVars, faultVars
  <1>7. CASE Refuse
    BY <1>7
    DEF Refuse, Claim, Recoverable, Full, Prior, Present, ClaimInv, Inner, Fresh,
        EvidenceInv, TypeOK, Names, Sidecars, Contents, Unsynced, Terminals, At, Goto,
        KeepFiles, Elsewhere, files, childVars, formalVars, faultVars
  <1>8. CASE Resume
    BY <1>8
    DEF Resume, Relink, Prior, Claim, Recoverable, Full, Present, ClaimInv, Inner, Fresh,
        EvidenceInv, Directory, TypeOK, Names, Sidecars, Contents, Unsynced, Terminals, At,
        Goto, Enter, Elsewhere, childVars, formalVars, faultVars
  <1>9. CASE Authorize
    BY <1>9
    DEF Authorize, ClaimInv, Inner, Present, Fresh, EvidenceInv, TypeOK, Names, Sidecars,
        Contents, Unsynced, Terminals, At, Goto, KeepFiles, Elsewhere, files, childVars,
        formalVars, faultVars
  <1>10. CASE Start
    BY <1>10
    DEF Start, ClaimInv, Inner, Present, Fresh, EvidenceInv, TypeOK, Names, Sidecars,
        Contents, Unsynced, Terminals, At, Goto, Create, Elsewhere, childVars, formalVars,
        faultVars
  <1>11. CASE Dispatch
    BY <1>11
    DEF Dispatch, ClaimInv, Inner, Present, Fresh, EvidenceInv, TypeOK, Names, Sidecars,
        Contents, Unsynced, Terminals, At, Goto, KeepFiles, files, formalVars, faultVars
  <1>12. CASE Collect
    BY <1>12
    DEF Collect, ClaimInv, Inner, Present, Fresh, EvidenceInv, TypeOK, Names, Sidecars,
        Contents, Unsynced, Terminals, At, Goto, KeepFiles, Elsewhere, files, childVars,
        formalVars, faultVars
  <1>13. CASE WriteSidecar
    BY <1>13
    DEF WriteSidecar, ClaimInv, Inner, Present, Fresh, EvidenceInv, TypeOK, Names, Sidecars,
        Contents, Unsynced, Terminals, At, Create, Elsewhere, childVars, formalVars,
        faultVars
  <1>14. CASE Validate
    BY <1>14
    DEF Validate, Recorded, Present, ClaimInv, Inner, Fresh, EvidenceInv, TypeOK, Names,
        Sidecars, Contents, Unsynced, Terminals, At, Goto, KeepFiles, Elsewhere, files,
        childVars, formalVars, faultVars
  <1>15. CASE Stage
    BY <1>15
    DEF Stage, Present, ClaimInv, Inner, Fresh, EvidenceInv, TypeOK, Names, Sidecars,
        Contents, Unsynced, Terminals, At, Goto, Create, Elsewhere, childVars, formalVars,
        faultVars
  <1>16. CASE StageRefused
    BY <1>16
    DEF StageRefused, Present, ClaimInv, Inner, Fresh, EvidenceInv, TypeOK, Names, Sidecars,
        Contents, Unsynced, Terminals, At, Goto, KeepFiles, Elsewhere, files, childVars,
        formalVars, faultVars
  <1>17. CASE LinkTerminal
    BY <1>17
    DEF LinkTerminal, ClaimInv, Inner, Present, Fresh, EvidenceInv, Directory, TypeOK,
        Names, Sidecars, Contents, Unsynced, Terminals, At, Goto, Enter, Elsewhere,
        childVars, formalVars, faultVars
  <1>18. CASE Unstage
    BY <1>18
    DEF Unstage, ClaimInv, Inner, Present, Fresh, EvidenceInv, Directory, TypeOK, Names,
        Sidecars, Contents, Unsynced, Terminals, At, Goto, Enter, Elsewhere, childVars,
        formalVars, faultVars
  <1>19. CASE Unstart
    BY <1>19
    DEF Unstart, ClaimInv, Inner, Present, Fresh, EvidenceInv, Directory, TypeOK, Names,
        Sidecars, Contents, Unsynced, Terminals, At, Goto, Enter, Elsewhere, childVars,
        formalVars, faultVars
  <1>20. CASE Complete
    BY <1>20
    DEF Complete, Exact, Present, Recorded, ClaimInv, Inner, Fresh, EvidenceInv, Directory,
        TypeOK, Names, Sidecars, Contents, Unsynced, Terminals, At, Goto, Enter, Elsewhere,
        childVars, formalVars, faultVars
  <1>21. CASE Close
    BY <1>21
    DEF Close, ClaimInv, Inner, Present, Fresh, EvidenceInv, TypeOK, Names, Sidecars,
        Contents, Unsynced, Terminals, At, Goto, KeepFiles, Elsewhere, files, childVars,
        formalVars, faultVars
  <1>22. CASE Restage
    BY <1>22
    DEF Restage, ClaimInv, Inner, Present, Fresh, EvidenceInv, Directory, TypeOK, Names,
        Sidecars, Contents, Unsynced, Terminals, At, Goto, Enter, Elsewhere, childVars,
        formalVars, faultVars
  <1>23. CASE Unalias
    BY <1>23
    DEF Unalias, ClaimInv, Inner, Present, Fresh, EvidenceInv, Directory, TypeOK, Names,
        Sidecars, Contents, Unsynced, Terminals, At, Enter, Elsewhere, childVars,
        formalVars, faultVars
  <1>24. CASE Reopen
    BY <1>24
    DEF Reopen, Sound, ClaimInv, Inner, Present, Fresh, EvidenceInv, TypeOK, Names,
        Sidecars, Contents, Unsynced, Terminals, At, Goto, KeepFiles, Elsewhere, files,
        childVars, formalVars, faultVars
  <1>25. CASE ChildExits
    BY <1>25
    DEF ChildExits, ClaimInv, Inner, Present, Fresh, EvidenceInv, TypeOK, Names, Sidecars,
        Contents, Unsynced, Terminals, files, launcherVars, formalVars, faultVars
  <1>26. CASE Fault
    BY <1>26
    DEF Fault, Handled, ClaimInv, Inner, Present, Fresh, EvidenceInv, TypeOK, Names,
        Sidecars, Contents, Unsynced, Terminals, Goto, files, formalVars
  <1>27. CASE Kill
    BY <1>27
    DEF Kill, ClaimInv, Inner, Present, Fresh, EvidenceInv, TypeOK, Names, Sidecars,
        Contents, Unsynced, Terminals, Goto, files, childVars, formalVars
  <1>28. CASE PowerLoss
    <2>1. /\ disk' = fs' /\ todo' = "none" /\ dispatched' = dispatched
          /\ child' = (IF child = "running" THEN "gone" ELSE child)
      BY <1>28, PowerFacts DEF PowerLeaves
    <2>2. \A n \in {"staging", "terminal"} :
             fs'[n] = "accepted" => fs[n] = "accepted" \/ disk[n] = "accepted"
      BY <1>28, PowerFacts DEF PowerLeaves, Names
    <2> QED BY <2>1, <2>2 DEF EvidenceInv
  <1>29. CASE FormalAppears
    BY <1>29
    DEF FormalAppears, Decided, Present, ClaimInv, Inner, Fresh, EvidenceInv, TypeOK, Names,
        Sidecars, Contents, Unsynced, Terminals, files, launcherVars, childVars, faultVars
  <1>30. CASE FormalLaunch
    BY <1>30
    DEF FormalLaunch, Exact, ClaimInv, Inner, Present, Fresh, EvidenceInv, TypeOK, Names,
        Sidecars, Contents, Unsynced, Terminals, launcherVars, childVars, faultVars
  <1>31. CASE UNCHANGED vars
    BY <1>31
    DEF vars, ClaimInv, Inner, Present, Fresh, EvidenceInv, TypeOK, Names, Sidecars,
        Contents, Unsynced, Terminals, files, launcherVars, childVars, formalVars, faultVars
  <1> QED
    BY <1>0, <1>1, <1>2, <1>3, <1>4, <1>5, <1>6, <1>7, <1>8, <1>9, <1>10, <1>11, <1>12, <1>13,
       <1>14, <1>15, <1>16, <1>17, <1>18, <1>19, <1>20, <1>21, <1>22, <1>23, <1>24, <1>25,
       <1>26, <1>27, <1>28, <1>29, <1>30, <1>31 DEF Next, LauncherSteps

LEMMA NextTruth ==
    ASSUME TypeOK, ClaimInv, PublishInv, TruthInv, [Next]_vars PROVE TruthInv'
  <1>0. CASE WriteBytes
    BY <1>0
    DEF WriteBytes, ClaimInv, Inner, PublishInv, Fresh, TruthInv, Present, TypeOK, Names,
        Sidecars, Contents, Unsynced, Terminals, childVars, formalVars, faultVars,
        launcherVars
  <1>1. CASE FinishWrite
    BY <1>1
    DEF FinishWrite, Outcome, Present, ClaimInv, Inner, PublishInv, Fresh, TruthInv,
        Directory, TypeOK, Names, Sidecars, Contents, Unsynced, Terminals, childVars,
        formalVars, faultVars
  <1>2. CASE Sync
    BY <1>2
    DEF Sync, Directory, ClaimInv, Inner, PublishInv, Fresh, TruthInv, Present, TypeOK,
        Names, Sidecars, Contents, Unsynced, Terminals, childVars, formalVars, faultVars
  <1>3. CASE Launch
    BY <1>3
    DEF Launch, ClaimInv, Inner, PublishInv, Fresh, TruthInv, Present, TypeOK, Names,
        Sidecars, Contents, Unsynced, Terminals, Goto, Elsewhere, childVars, formalVars,
        faultVars
  <1>4. CASE MakeAttempt
    BY <1>4
    DEF MakeAttempt, Prior, Present, ClaimInv, Inner, PublishInv, Fresh, TruthInv,
        Directory, TypeOK, Names, Sidecars, Contents, Unsynced, Terminals, At, Goto, Enter,
        Elsewhere, childVars, formalVars, faultVars
  <1>5. CASE WriteClaim
    BY <1>5
    DEF WriteClaim, ClaimInv, Inner, PublishInv, Fresh, TruthInv, Present, TypeOK, Names,
        Sidecars, Contents, Unsynced, Terminals, At, Goto, Create, Elsewhere, childVars,
        formalVars, faultVars
  <1>6. CASE LinkMarker
    BY <1>6
    DEF LinkMarker, ClaimInv, Inner, PublishInv, Fresh, TruthInv, Present, Directory,
        TypeOK, Names, Sidecars, Contents, Unsynced, Terminals, At, Goto, Enter, Elsewhere,
        childVars, formalVars, faultVars
  <1>7. CASE Refuse
    BY <1>7
    DEF Refuse, Claim, Recoverable, Full, Prior, Present, ClaimInv, Inner, PublishInv,
        Fresh, TruthInv, TypeOK, Names, Sidecars, Contents, Unsynced, Terminals, At, Goto,
        KeepFiles, Elsewhere, files, childVars, formalVars, faultVars
  <1>8. CASE Resume
    BY <1>8
    DEF Resume, Relink, Prior, Claim, Recoverable, Full, Present, ClaimInv, Inner,
        PublishInv, Fresh, TruthInv, Directory, TypeOK, Names, Sidecars, Contents, Unsynced,
        Terminals, At, Goto, Enter, Elsewhere, childVars, formalVars, faultVars
  <1>9. CASE Authorize
    BY <1>9
    DEF Authorize, ClaimInv, Inner, PublishInv, Fresh, TruthInv, Present, TypeOK, Names,
        Sidecars, Contents, Unsynced, Terminals, At, Goto, KeepFiles, Elsewhere, files,
        childVars, formalVars, faultVars
  <1>10. CASE Start
    BY <1>10
    DEF Start, ClaimInv, Inner, PublishInv, Fresh, TruthInv, Present, TypeOK, Names,
        Sidecars, Contents, Unsynced, Terminals, At, Goto, Create, Elsewhere, childVars,
        formalVars, faultVars
  <1>11. CASE Dispatch
    BY <1>11
    DEF Dispatch, ClaimInv, Inner, PublishInv, Fresh, TruthInv, Present, TypeOK, Names,
        Sidecars, Contents, Unsynced, Terminals, At, Goto, KeepFiles, files, formalVars,
        faultVars
  <1>12. CASE Collect
    BY <1>12
    DEF Collect, ClaimInv, Inner, PublishInv, Fresh, TruthInv, Present, TypeOK, Names,
        Sidecars, Contents, Unsynced, Terminals, At, Goto, KeepFiles, Elsewhere, files,
        childVars, formalVars, faultVars
  <1>13. CASE WriteSidecar
    BY <1>13
    DEF WriteSidecar, ClaimInv, Inner, PublishInv, Fresh, TruthInv, Present, TypeOK, Names,
        Sidecars, Contents, Unsynced, Terminals, At, Create, Elsewhere, childVars,
        formalVars, faultVars
  <1>14. CASE Validate
    BY <1>14
    DEF Validate, Recorded, Present, ClaimInv, Inner, PublishInv, Fresh, TruthInv, TypeOK,
        Names, Sidecars, Contents, Unsynced, Terminals, At, Goto, KeepFiles, Elsewhere,
        files, childVars, formalVars, faultVars
  <1>15. CASE Stage
    BY <1>15
    DEF Stage, Present, ClaimInv, Inner, PublishInv, Fresh, TruthInv, TypeOK, Names,
        Sidecars, Contents, Unsynced, Terminals, At, Goto, Create, Elsewhere, childVars,
        formalVars, faultVars
  <1>16. CASE StageRefused
    BY <1>16
    DEF StageRefused, Present, ClaimInv, Inner, PublishInv, Fresh, TruthInv, TypeOK, Names,
        Sidecars, Contents, Unsynced, Terminals, At, Goto, KeepFiles, Elsewhere, files,
        childVars, formalVars, faultVars
  <1>17. CASE LinkTerminal
    BY <1>17
    DEF LinkTerminal, ClaimInv, Inner, PublishInv, Fresh, TruthInv, Present, Directory,
        TypeOK, Names, Sidecars, Contents, Unsynced, Terminals, At, Goto, Enter, Elsewhere,
        childVars, formalVars, faultVars
  <1>18. CASE Unstage
    BY <1>18
    DEF Unstage, ClaimInv, Inner, PublishInv, Fresh, TruthInv, Present, Directory, TypeOK,
        Names, Sidecars, Contents, Unsynced, Terminals, At, Goto, Enter, Elsewhere,
        childVars, formalVars, faultVars
  <1>19. CASE Unstart
    BY <1>19
    DEF Unstart, ClaimInv, Inner, PublishInv, Fresh, TruthInv, Present, Directory, TypeOK,
        Names, Sidecars, Contents, Unsynced, Terminals, At, Goto, Enter, Elsewhere,
        childVars, formalVars, faultVars
  <1>20. CASE Complete
    BY <1>20
    DEF Complete, Exact, Present, Recorded, ClaimInv, Inner, PublishInv, Fresh, TruthInv,
        Directory, TypeOK, Names, Sidecars, Contents, Unsynced, Terminals, At, Goto, Enter,
        Elsewhere, childVars, formalVars, faultVars
  <1>21. CASE Close
    BY <1>21
    DEF Close, ClaimInv, Inner, PublishInv, Fresh, TruthInv, Present, TypeOK, Names,
        Sidecars, Contents, Unsynced, Terminals, At, Goto, KeepFiles, Elsewhere, files,
        childVars, formalVars, faultVars
  <1>22. CASE Restage
    BY <1>22
    DEF Restage, ClaimInv, Inner, PublishInv, Fresh, TruthInv, Present, Directory, TypeOK,
        Names, Sidecars, Contents, Unsynced, Terminals, At, Goto, Enter, Elsewhere,
        childVars, formalVars, faultVars
  <1>23. CASE Unalias
    BY <1>23
    DEF Unalias, ClaimInv, Inner, PublishInv, Fresh, TruthInv, Present, Directory, TypeOK,
        Names, Sidecars, Contents, Unsynced, Terminals, At, Enter, Elsewhere, childVars,
        formalVars, faultVars
  <1>24. CASE Reopen
    BY <1>24
    DEF Reopen, Sound, ClaimInv, Inner, PublishInv, Fresh, TruthInv, Present, TypeOK, Names,
        Sidecars, Contents, Unsynced, Terminals, At, Goto, KeepFiles, Elsewhere, files,
        childVars, formalVars, faultVars
  <1>25. CASE ChildExits
    BY <1>25
    DEF ChildExits, ClaimInv, Inner, PublishInv, Fresh, TruthInv, Present, TypeOK, Names,
        Sidecars, Contents, Unsynced, Terminals, files, launcherVars, formalVars, faultVars
  <1>26. CASE Fault
    BY <1>26
    DEF Fault, Handled, ClaimInv, Inner, PublishInv, Fresh, TruthInv, Present, TypeOK,
        Names, Sidecars, Contents, Unsynced, Terminals, Goto, files, formalVars
  <1>27. CASE Kill
    BY <1>27
    DEF Kill, ClaimInv, Inner, PublishInv, Fresh, TruthInv, Present, TypeOK, Names,
        Sidecars, Contents, Unsynced, Terminals, Goto, files, childVars, formalVars
  <1>28. CASE PowerLoss
    <2>1. powerLost' = TRUE
      BY <1>28, PowerFacts DEF PowerLeaves
    <2> QED BY <2>1 DEF TruthInv
  <1>29. CASE FormalAppears
    BY <1>29
    DEF FormalAppears, Decided, Present, ClaimInv, Inner, PublishInv, Fresh, TruthInv,
        TypeOK, Names, Sidecars, Contents, Unsynced, Terminals, files, launcherVars,
        childVars, faultVars
  <1>30. CASE FormalLaunch
    BY <1>30
    DEF FormalLaunch, Exact, ClaimInv, Inner, PublishInv, Fresh, TruthInv, Present, TypeOK,
        Names, Sidecars, Contents, Unsynced, Terminals, launcherVars, childVars, faultVars
  <1>31. CASE UNCHANGED vars
    BY <1>31
    DEF vars, ClaimInv, Inner, PublishInv, Fresh, TruthInv, Present, TypeOK, Names,
        Sidecars, Contents, Unsynced, Terminals, files, launcherVars, childVars, formalVars,
        faultVars
  <1> QED
    BY <1>0, <1>1, <1>2, <1>3, <1>4, <1>5, <1>6, <1>7, <1>8, <1>9, <1>10, <1>11, <1>12, <1>13,
       <1>14, <1>15, <1>16, <1>17, <1>18, <1>19, <1>20, <1>21, <1>22, <1>23, <1>24, <1>25,
       <1>26, <1>27, <1>28, <1>29, <1>30, <1>31 DEF Next, LauncherSteps

-----------------------------------------------------------------------------
(* What a terminal stands on *)

LEMMA NextDurable ==
    ASSUME TypeOK, ClaimInv, PublishInv, DurableInv, [Next]_vars PROVE DurableInv'
  <1>0. CASE WriteBytes
    BY <1>0
    DEF WriteBytes, ClaimInv, Inner, Fresh, PublishInv, DurableInv, Backed, Full,
        Claimed, Settled, Recorded, Present, TypeOK, Names, Sidecars, Contents,
        Unsynced, Terminals, childVars, formalVars, faultVars, launcherVars
  <1>1. CASE FinishWrite
    <2>1. CASE writing = "claim"
      BY <1>1, <2>1
      DEF FinishWrite, Directory, ClaimInv, Inner, Fresh, PublishInv, DurableInv, Backed, Full,
          Claimed, Settled, Recorded, Present, TypeOK, Names, Sidecars, Contents, Unsynced,
          Terminals, childVars, formalVars, faultVars
    <2>2. CASE writing = "started"
      BY <1>1, <2>2
      DEF FinishWrite, Directory, ClaimInv, Inner, Fresh, PublishInv, DurableInv, Backed, Full,
          Claimed, Settled, Recorded, Present, TypeOK, Names, Sidecars, Contents, Unsynced,
          Terminals, childVars, formalVars, faultVars
    <2>3. CASE writing \in Sidecars
      BY <1>1, <2>3
      DEF FinishWrite, Directory, ClaimInv, Inner, Fresh, PublishInv, DurableInv, Backed, Full,
          Claimed, Settled, Recorded, Present, TypeOK, Names, Sidecars, Contents, Unsynced,
          Terminals, childVars, formalVars, faultVars
    <2>4. CASE writing = "staging"
      BY <1>1, <2>4
      DEF FinishWrite, Directory, ClaimInv, Inner, Fresh, PublishInv, DurableInv, Backed, Full,
          Claimed, Settled, Recorded, Present, TypeOK, Names, Sidecars, Contents, Unsynced,
          Terminals, childVars, formalVars, faultVars, Outcome
    <2> QED BY <1>1, <2>1, <2>2, <2>3, <2>4 DEF FinishWrite, TypeOK
  <1>2. CASE Sync
    BY <1>2
    DEF Sync, Directory, ClaimInv, Inner, Fresh, PublishInv, DurableInv, Backed, Full,
        Claimed, Settled, Recorded, Present, TypeOK, Names, Sidecars, Contents,
        Unsynced, Terminals, childVars, formalVars, faultVars
  <1>3. CASE Launch
    BY <1>3
    DEF Launch, ClaimInv, Inner, Fresh, PublishInv, DurableInv, Backed, Full, Claimed,
        Settled, Recorded, Present, TypeOK, Names, Sidecars, Contents, Unsynced,
        Terminals, Goto, Elsewhere, childVars, formalVars, faultVars
  <1>4. CASE MakeAttempt
    BY <1>4
    DEF MakeAttempt, Prior, Present, ClaimInv, Inner, Fresh, PublishInv, DurableInv,
        Backed, Full, Claimed, Settled, Recorded, Directory, TypeOK, Names, Sidecars,
        Contents, Unsynced, Terminals, At, Goto, Enter, Elsewhere, childVars,
        formalVars, faultVars
  <1>5. CASE WriteClaim
    BY <1>5
    DEF WriteClaim, ClaimInv, Inner, Fresh, PublishInv, DurableInv, Backed, Full,
        Claimed, Settled, Recorded, Present, TypeOK, Names, Sidecars, Contents,
        Unsynced, Terminals, At, Goto, Create, Elsewhere, childVars, formalVars,
        faultVars
  <1>6. CASE LinkMarker
    BY <1>6
    DEF LinkMarker, ClaimInv, Inner, Fresh, PublishInv, DurableInv, Backed, Full,
        Claimed, Settled, Recorded, Present, Directory, TypeOK, Names, Sidecars,
        Contents, Unsynced, Terminals, At, Goto, Enter, Elsewhere, childVars,
        formalVars, faultVars
  <1>7. CASE Refuse
    BY <1>7
    DEF Refuse, Claim, Recoverable, Prior, Present, ClaimInv, Inner, Fresh, PublishInv,
        DurableInv, Backed, Full, Claimed, Settled, Recorded, TypeOK, Names, Sidecars,
        Contents, Unsynced, Terminals, At, Goto, KeepFiles, Elsewhere, files, childVars,
        formalVars, faultVars
  <1>8. CASE Resume
    BY <1>8
    DEF Resume, Relink, Prior, Claim, Recoverable, Present, ClaimInv, Inner, Fresh,
        PublishInv, DurableInv, Backed, Full, Claimed, Settled, Recorded, Directory,
        TypeOK, Names, Sidecars, Contents, Unsynced, Terminals, At, Goto, Enter,
        Elsewhere, childVars, formalVars, faultVars
  <1>9. CASE Authorize
    BY <1>9
    DEF Authorize, ClaimInv, Inner, Fresh, PublishInv, DurableInv, Backed, Full,
        Claimed, Settled, Recorded, Present, TypeOK, Names, Sidecars, Contents,
        Unsynced, Terminals, At, Goto, KeepFiles, Elsewhere, files, childVars,
        formalVars, faultVars
  <1>10. CASE Start
    BY <1>10
    DEF Start, ClaimInv, Inner, Fresh, PublishInv, DurableInv, Backed, Full, Claimed,
        Settled, Recorded, Present, TypeOK, Names, Sidecars, Contents, Unsynced,
        Terminals, At, Goto, Create, Elsewhere, childVars, formalVars, faultVars
  <1>11. CASE Dispatch
    BY <1>11
    DEF Dispatch, ClaimInv, Inner, Fresh, PublishInv, DurableInv, Backed, Full, Claimed,
        Settled, Recorded, Present, TypeOK, Names, Sidecars, Contents, Unsynced,
        Terminals, At, Goto, KeepFiles, files, formalVars, faultVars
  <1>12. CASE Collect
    BY <1>12
    DEF Collect, ClaimInv, Inner, Fresh, PublishInv, DurableInv, Backed, Full, Claimed,
        Settled, Recorded, Present, TypeOK, Names, Sidecars, Contents, Unsynced,
        Terminals, At, Goto, KeepFiles, Elsewhere, files, childVars, formalVars,
        faultVars
  <1>13. CASE WriteSidecar
    BY <1>13
    DEF WriteSidecar, ClaimInv, Inner, Fresh, PublishInv, DurableInv, Backed, Full,
        Claimed, Settled, Recorded, Present, TypeOK, Names, Sidecars, Contents,
        Unsynced, Terminals, At, Create, Elsewhere, childVars, formalVars, faultVars
  <1>14. CASE Validate
    BY <1>14
    DEF Validate, Recorded, Present, ClaimInv, Inner, Fresh, PublishInv, DurableInv,
        Backed, Full, Claimed, Settled, TypeOK, Names, Sidecars, Contents, Unsynced,
        Terminals, At, Goto, KeepFiles, Elsewhere, files, childVars, formalVars,
        faultVars
  <1>15. CASE Stage
    BY <1>15
    DEF Stage, Present, ClaimInv, Inner, Fresh, PublishInv, DurableInv, Backed, Full,
        Claimed, Settled, Recorded, TypeOK, Names, Sidecars, Contents, Unsynced,
        Terminals, At, Goto, Create, Elsewhere, childVars, formalVars, faultVars
  <1>16. CASE StageRefused
    BY <1>16
    DEF StageRefused, Present, ClaimInv, Inner, Fresh, PublishInv, DurableInv, Backed,
        Full, Claimed, Settled, Recorded, TypeOK, Names, Sidecars, Contents, Unsynced,
        Terminals, At, Goto, KeepFiles, Elsewhere, files, childVars, formalVars,
        faultVars
  <1>17. CASE LinkTerminal
    BY <1>17
    DEF LinkTerminal, ClaimInv, Inner, Fresh, PublishInv, DurableInv, Backed, Full,
        Claimed, Settled, Recorded, Present, Directory, TypeOK, Names, Sidecars,
        Contents, Unsynced, Terminals, At, Goto, Enter, Elsewhere, childVars,
        formalVars, faultVars
  <1>18. CASE Unstage
    BY <1>18
    DEF Unstage, ClaimInv, Inner, Fresh, PublishInv, DurableInv, Backed, Full, Claimed,
        Settled, Recorded, Present, Directory, TypeOK, Names, Sidecars, Contents,
        Unsynced, Terminals, At, Goto, Enter, Elsewhere, childVars, formalVars,
        faultVars
  <1>19. CASE Unstart
    BY <1>19
    DEF Unstart, ClaimInv, Inner, Fresh, PublishInv, DurableInv, Backed, Full, Claimed,
        Settled, Recorded, Present, Directory, TypeOK, Names, Sidecars, Contents,
        Unsynced, Terminals, At, Goto, Enter, Elsewhere, childVars, formalVars,
        faultVars
  <1>20. CASE Complete
    BY <1>20
    DEF Complete, Exact, Present, Recorded, ClaimInv, Inner, Fresh, PublishInv,
        DurableInv, Backed, Full, Claimed, Settled, Directory, TypeOK, Names, Sidecars,
        Contents, Unsynced, Terminals, At, Goto, Enter, Elsewhere, childVars,
        formalVars, faultVars
  <1>21. CASE Close
    BY <1>21
    DEF Close, ClaimInv, Inner, Fresh, PublishInv, DurableInv, Backed, Full, Claimed,
        Settled, Recorded, Present, TypeOK, Names, Sidecars, Contents, Unsynced,
        Terminals, At, Goto, KeepFiles, Elsewhere, files, childVars, formalVars,
        faultVars
  <1>22. CASE Restage
    BY <1>22
    DEF Restage, ClaimInv, Inner, Fresh, PublishInv, DurableInv, Backed, Full, Claimed,
        Settled, Recorded, Present, Directory, TypeOK, Names, Sidecars, Contents,
        Unsynced, Terminals, At, Goto, Enter, Elsewhere, childVars, formalVars,
        faultVars
  <1>23. CASE Unalias
    BY <1>23
    DEF Unalias, ClaimInv, Inner, Fresh, PublishInv, DurableInv, Backed, Full, Claimed,
        Settled, Recorded, Present, Directory, TypeOK, Names, Sidecars, Contents,
        Unsynced, Terminals, At, Enter, Elsewhere, childVars, formalVars, faultVars
  <1>24. CASE Reopen
    BY <1>24
    DEF Reopen, Sound, ClaimInv, Inner, Fresh, PublishInv, DurableInv, Backed, Full,
        Claimed, Settled, Recorded, Present, TypeOK, Names, Sidecars, Contents,
        Unsynced, Terminals, At, Goto, KeepFiles, Elsewhere, files, childVars,
        formalVars, faultVars
  <1>25. CASE ChildExits
    BY <1>25
    DEF ChildExits, ClaimInv, Inner, Fresh, PublishInv, DurableInv, Backed, Full,
        Claimed, Settled, Recorded, Present, TypeOK, Names, Sidecars, Contents,
        Unsynced, Terminals, files, launcherVars, formalVars, faultVars
  <1>26. CASE Fault
    BY <1>26
    DEF Fault, Handled, ClaimInv, Inner, Fresh, PublishInv, DurableInv, Backed, Full,
        Claimed, Settled, Recorded, Present, TypeOK, Names, Sidecars, Contents,
        Unsynced, Terminals, Goto, files, formalVars
  <1>27. CASE Kill
    BY <1>27
    DEF Kill, ClaimInv, Inner, Fresh, PublishInv, DurableInv, Backed, Full, Claimed,
        Settled, Recorded, Present, TypeOK, Names, Sidecars, Contents, Unsynced,
        Terminals, Goto, files, childVars, formalVars
  <1>28. CASE PowerLoss
    <2>0. PowerLeaves
      BY <1>28, PowerFacts
    <2>1. /\ disk' = fs' /\ pc' = "idle" /\ todo' = "none" /\ writing' = "none"
          /\ powerLost' = TRUE
      BY <2>0 DEF PowerLeaves
    <2>2. \A n \in {"terminal", "completion"} :
             fs'[n] \in {"none", fs[n]} /\ disk[n] \in {"none", fs[n]}
      <3>1. ASSUME NEW n \in {"terminal", "completion"}
            PROVE  fs'[n] \in {"none", fs[n]} /\ disk[n] \in {"none", fs[n]}
        <4>1. disk[n] \in {"none", fs[n]} /\ fs[n] \notin Unsynced /\ disk[n] \notin Unsynced
          BY DEF PublishInv, Unsynced
        <4>2. fs'[n] \in {fs[n], disk[n]}
          BY <2>0, <4>1 DEF PowerLeaves, Names
        <4> QED BY <4>1, <4>2
      <3> QED BY <3>1
    <2>3. \A n \in Sidecars \cup {"claim", "marker"} :
             /\ fs'[n] # "none" => fs[n] # "none"
             /\ disk[n] # "none" => fs'[n] # "none"
             /\ disk[n] = "whole" => fs'[n] = "whole"
      <3>1. ASSUME NEW n \in Sidecars \cup {"claim", "marker"}
            PROVE  /\ fs'[n] # "none" => fs[n] # "none"
                   /\ disk[n] # "none" => fs'[n] # "none"
                   /\ disk[n] = "whole" => fs'[n] = "whole"
        <4>1. n \in Names /\ (disk[n] # "none" => fs[n] = disk[n])
          BY DEF DurableInv, Names
        <4> QED BY <2>0, <4>1 DEF PowerLeaves, Unsynced
      <3> QED BY <3>1
    <2>4. fs'["marker"] # "none" /\ fs'["claim"] # "none" => fs'["marker"] = fs'["claim"]
      BY <2>0, <2>3 DEF PowerLeaves, DurableInv, Present
    <2>5. Backed => Backed'
      BY <2>1, <2>3 DEF Backed
    <2>6. \A n \in {"staging", "terminal", "completion"} :
             fs'[n] = "accepted" => fs[n] = "accepted" \/ disk[n] = "accepted"
      BY <2>0 DEF PowerLeaves, Names
    <2>7. \A n \in {"staging", "terminal", "completion"} : fs'[n] = "accepted" => Backed'
      BY <2>5, <2>6 DEF DurableInv
    <2>8. ASSUME NEW m \in {"terminal", "completion"}, fs'[m] # "none"
          PROVE  /\ fs'["claim"] # "none" /\ \A n \in Sidecars : fs'[n] # "none"
                 /\ fs'["staging"] \in {"none", fs'[m]}
                 /\ fs'[m] = "unstarted" => fs'["started"] = "none"
      <3>1. Present(m) /\ fs'[m] = fs[m] /\ fs[m] \notin Unsynced
        BY <2>2, <2>8 DEF Present, PublishInv
      <3>2. /\ disk["claim"] # "none" /\ \A n \in Sidecars : disk[n] # "none"
            /\ fs["staging"] \in {"none", fs[m]} /\ disk["staging"] \in {"none", fs[m]}
            /\ fs[m] = "unstarted" => fs["started"] = "none" /\ disk["started"] = "none"
        BY <3>1 DEF DurableInv
      <3>3. fs'["staging"] \in {"none", fs[m]}
        <4>1. fs["staging"] \notin Unsynced /\ disk["staging"] \notin Unsynced
          BY <3>1, <3>2 DEF Unsynced
        <4>2. fs'["staging"] \in {fs["staging"], disk["staging"]}
          BY <2>0, <4>1 DEF PowerLeaves, Names
        <4> QED BY <3>2, <4>2
      <3>4. fs[m] = "unstarted" => fs'["started"] = "none"
        BY <2>0, <3>2 DEF PowerLeaves, Names
      <3> QED BY <2>3, <3>1, <3>2, <3>3, <3>4
    <2>9. fs'["completion"] # "none" => fs'["terminal"] \in {"none", fs'["completion"]}
      BY <2>2 DEF DurableInv, Present
    <2>10. writing' \notin Sidecars \cup {"claim"}
      BY <2>1 DEF Sidecars
    <2> QED BY <2>1, <2>4, <2>7, <2>8, <2>9, <2>10 DEF DurableInv, Present, Claimed, Fresh
  <1>29. CASE FormalAppears
    BY <1>29
    DEF FormalAppears, Decided, Present, ClaimInv, Inner, Fresh, PublishInv, DurableInv,
        Backed, Full, Claimed, Settled, Recorded, TypeOK, Names, Sidecars, Contents,
        Unsynced, Terminals, files, launcherVars, childVars, faultVars
  <1>30. CASE FormalLaunch
    BY <1>30
    DEF FormalLaunch, Exact, ClaimInv, Inner, Fresh, PublishInv, DurableInv, Backed,
        Full, Claimed, Settled, Recorded, Present, TypeOK, Names, Sidecars, Contents,
        Unsynced, Terminals, launcherVars, childVars, faultVars
  <1>31. CASE UNCHANGED vars
    BY <1>31
    DEF vars, ClaimInv, Inner, Fresh, PublishInv, DurableInv, Backed, Full, Claimed,
        Settled, Recorded, Present, TypeOK, Names, Sidecars, Contents, Unsynced,
        Terminals, files, launcherVars, childVars, formalVars, faultVars
  <1> QED
    BY <1>0, <1>1, <1>2, <1>3, <1>4, <1>5, <1>6, <1>7, <1>8, <1>9, <1>10, <1>11, <1>12, <1>13,
       <1>14, <1>15, <1>16, <1>17, <1>18, <1>19, <1>20, <1>21, <1>22, <1>23, <1>24, <1>25,
       <1>26, <1>27, <1>28, <1>29, <1>30, <1>31 DEF Next, LauncherSteps

LEMMA NextPackage ==
    ASSUME TypeOK, ClaimInv, PublishInv, DurableInv, PackageIsExact, DurableInv', [Next]_vars
    PROVE  PackageIsExact'
  <1>0. CASE WriteBytes
    BY <1>0
    DEF WriteBytes, ClaimInv, Inner, Fresh, PublishInv, DurableInv, Backed, Bound, Full,
        PackageIsExact, Exact, Claimed, Settled, Recorded, Present, TypeOK, Names,
        Sidecars, Contents, Unsynced, Terminals, childVars, formalVars, faultVars,
        launcherVars
  <1>1. CASE FinishWrite
    BY <1>1
    DEF FinishWrite, Outcome, Present, ClaimInv, Inner, Fresh, PublishInv, DurableInv,
        Backed, Bound, Full, PackageIsExact, Exact, Claimed, Settled, Recorded,
        Directory, TypeOK, Names, Sidecars, Contents, Unsynced, Terminals, childVars,
        formalVars, faultVars
  <1>2. CASE Sync
    BY <1>2
    DEF Sync, Directory, ClaimInv, Inner, Fresh, PublishInv, DurableInv, Backed, Bound,
        Full, PackageIsExact, Exact, Claimed, Settled, Recorded, Present, TypeOK, Names,
        Sidecars, Contents, Unsynced, Terminals, childVars, formalVars, faultVars
  <1>3. CASE Launch
    BY <1>3
    DEF Launch, ClaimInv, Inner, Fresh, PublishInv, DurableInv, Backed, Bound, Full,
        PackageIsExact, Exact, Claimed, Settled, Recorded, Present, TypeOK, Names,
        Sidecars, Contents, Unsynced, Terminals, Goto, Elsewhere, childVars, formalVars,
        faultVars
  <1>4. CASE MakeAttempt
    BY <1>4
    DEF MakeAttempt, Prior, Present, ClaimInv, Inner, Fresh, PublishInv, DurableInv,
        Backed, Bound, Full, PackageIsExact, Exact, Claimed, Settled, Recorded,
        Directory, TypeOK, Names, Sidecars, Contents, Unsynced, Terminals, At, Goto,
        Enter, Elsewhere, childVars, formalVars, faultVars
  <1>5. CASE WriteClaim
    BY <1>5
    DEF WriteClaim, ClaimInv, Inner, Fresh, PublishInv, DurableInv, Backed, Bound, Full,
        PackageIsExact, Exact, Claimed, Settled, Recorded, Present, TypeOK, Names,
        Sidecars, Contents, Unsynced, Terminals, At, Goto, Create, Elsewhere, childVars,
        formalVars, faultVars
  <1>6. CASE LinkMarker
    BY <1>6
    DEF LinkMarker, ClaimInv, Inner, Fresh, PublishInv, DurableInv, Backed, Bound, Full,
        PackageIsExact, Exact, Claimed, Settled, Recorded, Present, Directory, TypeOK,
        Names, Sidecars, Contents, Unsynced, Terminals, At, Goto, Enter, Elsewhere,
        childVars, formalVars, faultVars
  <1>7. CASE Refuse
    BY <1>7
    DEF Refuse, Claim, Recoverable, Prior, Present, ClaimInv, Inner, Fresh, PublishInv,
        DurableInv, Backed, Bound, Full, PackageIsExact, Exact, Claimed, Settled,
        Recorded, TypeOK, Names, Sidecars, Contents, Unsynced, Terminals, At, Goto,
        KeepFiles, Elsewhere, files, childVars, formalVars, faultVars
  <1>8. CASE Resume
    BY <1>8
    DEF Resume, Relink, Prior, Claim, Recoverable, Present, ClaimInv, Inner, Fresh,
        PublishInv, DurableInv, Backed, Bound, Full, PackageIsExact, Exact, Claimed,
        Settled, Recorded, Directory, TypeOK, Names, Sidecars, Contents, Unsynced,
        Terminals, At, Goto, Enter, Elsewhere, childVars, formalVars, faultVars
  <1>9. CASE Authorize
    BY <1>9
    DEF Authorize, ClaimInv, Inner, Fresh, PublishInv, DurableInv, Backed, Bound, Full,
        PackageIsExact, Exact, Claimed, Settled, Recorded, Present, TypeOK, Names,
        Sidecars, Contents, Unsynced, Terminals, At, Goto, KeepFiles, Elsewhere, files,
        childVars, formalVars, faultVars
  <1>10. CASE Start
    BY <1>10
    DEF Start, ClaimInv, Inner, Fresh, PublishInv, DurableInv, Backed, Bound, Full,
        PackageIsExact, Exact, Claimed, Settled, Recorded, Present, TypeOK, Names,
        Sidecars, Contents, Unsynced, Terminals, At, Goto, Create, Elsewhere, childVars,
        formalVars, faultVars
  <1>11. CASE Dispatch
    BY <1>11
    DEF Dispatch, ClaimInv, Inner, Fresh, PublishInv, DurableInv, Backed, Bound, Full,
        PackageIsExact, Exact, Claimed, Settled, Recorded, Present, TypeOK, Names,
        Sidecars, Contents, Unsynced, Terminals, At, Goto, KeepFiles, files, formalVars,
        faultVars
  <1>12. CASE Collect
    BY <1>12
    DEF Collect, ClaimInv, Inner, Fresh, PublishInv, DurableInv, Backed, Bound, Full,
        PackageIsExact, Exact, Claimed, Settled, Recorded, Present, TypeOK, Names,
        Sidecars, Contents, Unsynced, Terminals, At, Goto, KeepFiles, Elsewhere, files,
        childVars, formalVars, faultVars
  <1>13. CASE WriteSidecar
    BY <1>13
    DEF WriteSidecar, ClaimInv, Inner, Fresh, PublishInv, DurableInv, Backed, Bound,
        Full, PackageIsExact, Exact, Claimed, Settled, Recorded, Present, TypeOK, Names,
        Sidecars, Contents, Unsynced, Terminals, At, Create, Elsewhere, childVars,
        formalVars, faultVars
  <1>14. CASE Validate
    BY <1>14
    DEF Validate, Recorded, Present, ClaimInv, Inner, Fresh, PublishInv, DurableInv,
        Backed, Bound, Full, PackageIsExact, Exact, Claimed, Settled, TypeOK, Names,
        Sidecars, Contents, Unsynced, Terminals, At, Goto, KeepFiles, Elsewhere, files,
        childVars, formalVars, faultVars
  <1>15. CASE Stage
    BY <1>15
    DEF Stage, Present, ClaimInv, Inner, Fresh, PublishInv, DurableInv, Backed, Bound,
        Full, PackageIsExact, Exact, Claimed, Settled, Recorded, TypeOK, Names,
        Sidecars, Contents, Unsynced, Terminals, At, Goto, Create, Elsewhere, childVars,
        formalVars, faultVars
  <1>16. CASE StageRefused
    BY <1>16
    DEF StageRefused, Present, ClaimInv, Inner, Fresh, PublishInv, DurableInv, Backed,
        Bound, Full, PackageIsExact, Exact, Claimed, Settled, Recorded, TypeOK, Names,
        Sidecars, Contents, Unsynced, Terminals, At, Goto, KeepFiles, Elsewhere, files,
        childVars, formalVars, faultVars
  <1>17. CASE LinkTerminal
    BY <1>17
    DEF LinkTerminal, ClaimInv, Inner, Fresh, PublishInv, DurableInv, Backed, Bound,
        Full, PackageIsExact, Exact, Claimed, Settled, Recorded, Present, Directory,
        TypeOK, Names, Sidecars, Contents, Unsynced, Terminals, At, Goto, Enter,
        Elsewhere, childVars, formalVars, faultVars
  <1>18. CASE Unstage
    BY <1>18
    DEF Unstage, ClaimInv, Inner, Fresh, PublishInv, DurableInv, Backed, Bound, Full,
        PackageIsExact, Exact, Claimed, Settled, Recorded, Present, Directory, TypeOK,
        Names, Sidecars, Contents, Unsynced, Terminals, At, Goto, Enter, Elsewhere,
        childVars, formalVars, faultVars
  <1>19. CASE Unstart
    BY <1>19
    DEF Unstart, ClaimInv, Inner, Fresh, PublishInv, DurableInv, Backed, Bound, Full,
        PackageIsExact, Exact, Claimed, Settled, Recorded, Present, Directory, TypeOK,
        Names, Sidecars, Contents, Unsynced, Terminals, At, Goto, Enter, Elsewhere,
        childVars, formalVars, faultVars
  <1>20. CASE Complete
    BY <1>20
    DEF Complete, Exact, Present, Recorded, ClaimInv, Inner, Fresh, PublishInv,
        DurableInv, Backed, Bound, Full, PackageIsExact, Claimed, Settled, Directory,
        TypeOK, Names, Sidecars, Contents, Unsynced, Terminals, At, Goto, Enter,
        Elsewhere, childVars, formalVars, faultVars
  <1>21. CASE Close
    BY <1>21
    DEF Close, ClaimInv, Inner, Fresh, PublishInv, DurableInv, Backed, Bound, Full,
        PackageIsExact, Exact, Claimed, Settled, Recorded, Present, TypeOK, Names,
        Sidecars, Contents, Unsynced, Terminals, At, Goto, KeepFiles, Elsewhere, files,
        childVars, formalVars, faultVars
  <1>22. CASE Restage
    BY <1>22
    DEF Restage, ClaimInv, Inner, Fresh, PublishInv, DurableInv, Backed, Bound, Full,
        PackageIsExact, Exact, Claimed, Settled, Recorded, Present, Directory, TypeOK,
        Names, Sidecars, Contents, Unsynced, Terminals, At, Goto, Enter, Elsewhere,
        childVars, formalVars, faultVars
  <1>23. CASE Unalias
    BY <1>23
    DEF Unalias, ClaimInv, Inner, Fresh, PublishInv, DurableInv, Backed, Bound, Full,
        PackageIsExact, Exact, Claimed, Settled, Recorded, Present, Directory, TypeOK,
        Names, Sidecars, Contents, Unsynced, Terminals, At, Enter, Elsewhere, childVars,
        formalVars, faultVars
  <1>24. CASE Reopen
    BY <1>24
    DEF Reopen, Sound, ClaimInv, Inner, Fresh, PublishInv, DurableInv, Backed, Bound,
        Full, PackageIsExact, Exact, Claimed, Settled, Recorded, Present, TypeOK, Names,
        Sidecars, Contents, Unsynced, Terminals, At, Goto, KeepFiles, Elsewhere, files,
        childVars, formalVars, faultVars
  <1>25. CASE ChildExits
    BY <1>25
    DEF ChildExits, ClaimInv, Inner, Fresh, PublishInv, DurableInv, Backed, Bound, Full,
        PackageIsExact, Exact, Claimed, Settled, Recorded, Present, TypeOK, Names,
        Sidecars, Contents, Unsynced, Terminals, files, launcherVars, formalVars,
        faultVars
  <1>26. CASE Fault
    BY <1>26
    DEF Fault, Handled, ClaimInv, Inner, Fresh, PublishInv, DurableInv, Backed, Bound,
        Full, PackageIsExact, Exact, Claimed, Settled, Recorded, Present, TypeOK, Names,
        Sidecars, Contents, Unsynced, Terminals, Goto, files, formalVars
  <1>27. CASE Kill
    BY <1>27
    DEF Kill, ClaimInv, Inner, Fresh, PublishInv, DurableInv, Backed, Bound, Full,
        PackageIsExact, Exact, Claimed, Settled, Recorded, Present, TypeOK, Names,
        Sidecars, Contents, Unsynced, Terminals, Goto, files, childVars, formalVars
  <1>28. CASE PowerLoss
    <2> SUFFICES ASSUME Present("completion")' PROVE PackageIsExact'
      BY DEF PackageIsExact
    <2>1. disk' = fs' /\ powerLost' = TRUE
      BY <1>28, PowerFacts DEF PowerLeaves
    <2>2. /\ disk'["claim"] # "none" /\ \A n \in Sidecars : disk'[n] # "none"
          /\ fs'["staging"] \in {"none", fs'["completion"]}
          /\ fs'["terminal"] \in {"none", fs'["completion"]}
          /\ fs'["completion"] = "unstarted" => fs'["started"] = "none"
      BY DEF DurableInv, Present
    <2>3. fs'["completion"] = "accepted" => Backed'
      BY DEF DurableInv
    <2>4. Present("marker")' => fs'["marker"] = fs'["claim"]
      BY <2>1, <2>2 DEF DurableInv, Present
    <2> QED BY <2>1, <2>2, <2>3, <2>4
        DEF PackageIsExact, Recorded, Present, Bound, Backed, Full
  <1>29. CASE FormalAppears
    BY <1>29
    DEF FormalAppears, Decided, Present, ClaimInv, Inner, Fresh, PublishInv, DurableInv,
        Backed, Bound, Full, PackageIsExact, Exact, Claimed, Settled, Recorded, TypeOK,
        Names, Sidecars, Contents, Unsynced, Terminals, files, launcherVars, childVars,
        faultVars
  <1>30. CASE FormalLaunch
    BY <1>30
    DEF FormalLaunch, Exact, ClaimInv, Inner, Fresh, PublishInv, DurableInv, Backed,
        Bound, Full, PackageIsExact, Claimed, Settled, Recorded, Present, TypeOK, Names,
        Sidecars, Contents, Unsynced, Terminals, launcherVars, childVars, faultVars
  <1>31. CASE UNCHANGED vars
    BY <1>31
    DEF vars, ClaimInv, Inner, Fresh, PublishInv, DurableInv, Backed, Bound, Full,
        PackageIsExact, Exact, Claimed, Settled, Recorded, Present, TypeOK, Names,
        Sidecars, Contents, Unsynced, Terminals, files, launcherVars, childVars,
        formalVars, faultVars
  <1> QED
    BY <1>0, <1>1, <1>2, <1>3, <1>4, <1>5, <1>6, <1>7, <1>8, <1>9, <1>10, <1>11, <1>12, <1>13,
       <1>14, <1>15, <1>16, <1>17, <1>18, <1>19, <1>20, <1>21, <1>22, <1>23, <1>24, <1>25,
       <1>26, <1>27, <1>28, <1>29, <1>30, <1>31 DEF Next, LauncherSteps

-----------------------------------------------------------------------------
(* The inductive invariant *)

IInv ==
    /\ TypeOK /\ ClaimInv /\ PublishInv /\ AuthorityInv /\ AuthorityIsEarned
    /\ EvidenceInv /\ TruthInv /\ DurableInv /\ PackageIsExact

LEMMA InitIInv == Init => IInv
  <1> SUFFICES ASSUME Init PROVE IInv
    OBVIOUS
  <1>1. TypeOK
    BY InitType
  <1>2. \A n \in Names : fs[n] = "none" /\ disk[n] = "none"
    BY DEF Init
  <1>3. /\ pc = "idle" /\ todo = "none" /\ writing = "none"
        /\ child = "none" /\ dispatched = 0 /\ tainted = FALSE /\ launched = FALSE
    BY DEF Init
  <1>4. ClaimInv
    BY <1>2, <1>3 DEF ClaimInv, Inner, Fresh, Present, Names, Sidecars
  <1>5. PublishInv
    BY <1>2, <1>3 DEF PublishInv, Present, Names, Unsynced
  <1>6. AuthorityInv /\ AuthorityIsEarned
    BY <1>2, <1>3 DEF AuthorityInv, AuthorityIsEarned, Decided, Names
  <1>7. EvidenceInv /\ TruthInv
    BY <1>2, <1>3 DEF EvidenceInv, TruthInv, Names
  <1>8. DurableInv
    BY <1>2, <1>3 DEF DurableInv, Claimed, Present, Names, Sidecars
  <1>9. PackageIsExact
    BY <1>2 DEF PackageIsExact, Present, Names
  <1> QED BY <1>1, <1>4, <1>5, <1>6, <1>7, <1>8, <1>9 DEF IInv

LEMMA NextIInv == IInv /\ [Next]_vars => IInv'
  <1> SUFFICES ASSUME IInv, [Next]_vars PROVE IInv'
    OBVIOUS
  <1> USE DEF IInv
  <1>1. TypeOK'
    BY NextType
  <1>2. ClaimInv' /\ PublishInv'
    BY NextClaim, NextPublish
  <1>3. AuthorityInv' /\ AuthorityIsEarned'
    BY NextAuthority
  <1>4. EvidenceInv' /\ TruthInv'
    BY NextEvidence, NextTruth
  <1>5. DurableInv'
    BY NextDurable
  <1>6. PackageIsExact'
    BY <1>5, NextPackage
  <1> QED BY <1>1, <1>2, <1>3, <1>4, <1>5, <1>6

\* IInv is an invariant of the specification.
THEOREM RehearsalInvariant == Spec => []IInv
  <1>1. Init => IInv
    BY InitIInv
  <1>2. IInv /\ [Next]_vars => IInv'
    BY NextIInv
  <1> QED BY <1>1, <1>2, PTL DEF Spec

\* Type correctness of the rehearsal's files, launcher, child and formal authority.
THEOREM RehearsalTypes == Spec => []TypeOK
  <1>1. IInv => TypeOK
    BY DEF IInv
  <1> QED BY <1>1, RehearsalInvariant, PTL

\* However many faults there are and however often the launcher is started again, at
\* most one child is dispatched: dispatching follows the creation of the attempt
\* directory, which is synced before it and refuses a second creation.
THEOREM OneChildEver == Spec => []OneChild
  <1>1. IInv => OneChild
    BY DEF IInv, ClaimInv, OneChild
  <1> QED BY <1>1, RehearsalInvariant, PTL

\* An accepted terminal is backed by the child's clean exit, and one that knows of no
\* child was published without one, or after a loss of power.
THEOREM EvidenceAlwaysTruthful == Spec => []EvidenceIsTruthful
  <1>1. IInv => EvidenceIsTruthful
    BY DEF IInv, TypeOK, EvidenceInv, TruthInv, EvidenceIsTruthful
  <1> QED BY <1>1, RehearsalInvariant, PTL

\* An outer completion stands beside the claim, the records and names of its terminal
\* that agree with it, whatever was lost; an accepted one beside the claim under both
\* its names and the records its terminal tells of, with all their bytes.
THEOREM PackageAlwaysExact == Spec => []PackageIsExact
  <1>1. IInv => PackageIsExact
    BY DEF IInv
  <1> QED BY <1>1, RehearsalInvariant, PTL

\* No accepted completion was published after formal authority had appeared, and no
\* formal launch stands on a completion that can still be lost.
THEOREM AuthorityAlwaysEarned == Spec => []AuthorityIsEarned
  <1>1. IInv => AuthorityIsEarned
    BY DEF IInv
  <1> QED BY <1>1, RehearsalInvariant, PTL

-----------------------------------------------------------------------------
(* Terminals are final *)

Keeps == \A n \in {"terminal", "completion"} : disk[n] # "none" => disk'[n] = disk[n]

LEMMA NextKeeps ==
    ASSUME TypeOK, PublishInv, [Next]_vars PROVE Keeps
  <1>0. CASE WriteBytes
    BY <1>0
    DEF Keeps, WriteBytes, PublishInv, TypeOK, Names, Sidecars, Contents, Unsynced,
        Terminals, childVars, formalVars, faultVars, launcherVars
  <1>1. CASE FinishWrite
    BY <1>1
    DEF Keeps, FinishWrite, Outcome, Present, PublishInv, TypeOK, Names, Sidecars, Contents,
        Unsynced, Terminals, childVars, formalVars, faultVars, Directory
  <1>2. CASE Sync
    BY <1>2
    DEF Keeps, Sync, Directory, PublishInv, TypeOK, Names, Sidecars, Contents, Unsynced,
        Terminals, childVars, formalVars, faultVars
  <1>3. CASE Launch
    BY <1>3
    DEF Keeps, Launch, PublishInv, TypeOK, Names, Sidecars, Contents, Unsynced, Terminals,
        Goto, Elsewhere, childVars, formalVars, faultVars
  <1>4. CASE MakeAttempt
    BY <1>4
    DEF Keeps, MakeAttempt, Prior, Present, PublishInv, TypeOK, Names, Sidecars, Contents,
        Unsynced, Terminals, At, Goto, Enter, Elsewhere, childVars, formalVars, faultVars,
        Directory
  <1>5. CASE WriteClaim
    BY <1>5
    DEF Keeps, WriteClaim, PublishInv, TypeOK, Names, Sidecars, Contents, Unsynced,
        Terminals, At, Goto, Create, Elsewhere, childVars, formalVars, faultVars
  <1>6. CASE LinkMarker
    BY <1>6
    DEF Keeps, LinkMarker, PublishInv, TypeOK, Names, Sidecars, Contents, Unsynced,
        Terminals, At, Goto, Enter, Elsewhere, childVars, formalVars, faultVars, Directory
  <1>7. CASE Refuse
    BY <1>7
    DEF Keeps, Refuse, Claim, Recoverable, Full, Prior, Present, PublishInv, TypeOK, Names,
        Sidecars, Contents, Unsynced, Terminals, At, Goto, KeepFiles, Elsewhere, files,
        childVars, formalVars, faultVars
  <1>8. CASE Resume
    BY <1>8
    DEF Keeps, Resume, Relink, Prior, Claim, Recoverable, Full, Present, PublishInv, TypeOK,
        Names, Sidecars, Contents, Unsynced, Terminals, At, Goto, Enter, Elsewhere,
        childVars, formalVars, faultVars, Directory
  <1>9. CASE Authorize
    BY <1>9
    DEF Keeps, Authorize, PublishInv, TypeOK, Names, Sidecars, Contents, Unsynced,
        Terminals, At, Goto, KeepFiles, Elsewhere, files, childVars, formalVars, faultVars
  <1>10. CASE Start
    BY <1>10
    DEF Keeps, Start, PublishInv, TypeOK, Names, Sidecars, Contents, Unsynced, Terminals,
        At, Goto, Create, Elsewhere, childVars, formalVars, faultVars
  <1>11. CASE Dispatch
    BY <1>11
    DEF Keeps, Dispatch, PublishInv, TypeOK, Names, Sidecars, Contents, Unsynced, Terminals,
        At, Goto, KeepFiles, files, formalVars, faultVars
  <1>12. CASE Collect
    BY <1>12
    DEF Keeps, Collect, PublishInv, TypeOK, Names, Sidecars, Contents, Unsynced, Terminals,
        At, Goto, KeepFiles, Elsewhere, files, childVars, formalVars, faultVars
  <1>13. CASE WriteSidecar
    BY <1>13
    DEF Keeps, WriteSidecar, PublishInv, TypeOK, Names, Sidecars, Contents, Unsynced,
        Terminals, At, Create, Elsewhere, childVars, formalVars, faultVars
  <1>14. CASE Validate
    BY <1>14
    DEF Keeps, Validate, Recorded, Present, PublishInv, TypeOK, Names, Sidecars, Contents,
        Unsynced, Terminals, At, Goto, KeepFiles, Elsewhere, files, childVars, formalVars,
        faultVars
  <1>15. CASE Stage
    BY <1>15
    DEF Keeps, Stage, Present, PublishInv, TypeOK, Names, Sidecars, Contents, Unsynced,
        Terminals, At, Goto, Create, Elsewhere, childVars, formalVars, faultVars
  <1>16. CASE StageRefused
    BY <1>16
    DEF Keeps, StageRefused, Present, PublishInv, TypeOK, Names, Sidecars, Contents,
        Unsynced, Terminals, At, Goto, KeepFiles, Elsewhere, files, childVars, formalVars,
        faultVars
  <1>17. CASE LinkTerminal
    BY <1>17
    DEF Keeps, LinkTerminal, PublishInv, TypeOK, Names, Sidecars, Contents, Unsynced,
        Terminals, At, Goto, Enter, Elsewhere, childVars, formalVars, faultVars, Directory
  <1>18. CASE Unstage
    BY <1>18
    DEF Keeps, Unstage, PublishInv, TypeOK, Names, Sidecars, Contents, Unsynced, Terminals,
        At, Goto, Enter, Elsewhere, childVars, formalVars, faultVars, Directory
  <1>19. CASE Unstart
    BY <1>19
    DEF Keeps, Unstart, PublishInv, TypeOK, Names, Sidecars, Contents, Unsynced, Terminals,
        At, Goto, Enter, Elsewhere, childVars, formalVars, faultVars, Directory
  <1>20. CASE Complete
    BY <1>20
    DEF Keeps, Complete, Exact, Present, Recorded, PublishInv, TypeOK, Names, Sidecars,
        Contents, Unsynced, Terminals, At, Goto, Enter, Elsewhere, childVars, formalVars,
        faultVars, Directory
  <1>21. CASE Close
    BY <1>21
    DEF Keeps, Close, PublishInv, TypeOK, Names, Sidecars, Contents, Unsynced, Terminals,
        At, Goto, KeepFiles, Elsewhere, files, childVars, formalVars, faultVars
  <1>22. CASE Restage
    BY <1>22
    DEF Keeps, Restage, PublishInv, TypeOK, Names, Sidecars, Contents, Unsynced, Terminals,
        At, Goto, Enter, Elsewhere, childVars, formalVars, faultVars, Directory
  <1>23. CASE Unalias
    BY <1>23
    DEF Keeps, Unalias, PublishInv, TypeOK, Names, Sidecars, Contents, Unsynced, Terminals,
        At, Enter, Elsewhere, childVars, formalVars, faultVars, Directory
  <1>24. CASE Reopen
    BY <1>24
    DEF Keeps, Reopen, Sound, PublishInv, TypeOK, Names, Sidecars, Contents, Unsynced,
        Terminals, At, Goto, KeepFiles, Elsewhere, files, childVars, formalVars, faultVars
  <1>25. CASE ChildExits
    BY <1>25
    DEF Keeps, ChildExits, PublishInv, TypeOK, Names, Sidecars, Contents, Unsynced,
        Terminals, files, launcherVars, formalVars, faultVars
  <1>26. CASE Fault
    BY <1>26
    DEF Keeps, Fault, Handled, PublishInv, TypeOK, Names, Sidecars, Contents, Unsynced,
        Terminals, Goto, files, formalVars
  <1>27. CASE Kill
    BY <1>27
    DEF Keeps, Kill, PublishInv, TypeOK, Names, Sidecars, Contents, Unsynced, Terminals,
        Goto, files, childVars, formalVars
  <1>28. CASE PowerLoss
    <2>1. \A n \in {"terminal", "completion"} :
             disk[n] # "none" => fs[n] = disk[n] /\ disk[n] \notin Unsynced
      BY DEF PublishInv, Unsynced
    <2>2. disk' = fs' /\ \A n \in {"terminal", "completion"} :
             \/ fs'[n] \in {fs[n], disk[n]}
             \/ fs[n] \in Unsynced \/ disk[n] \in Unsynced
      BY <1>28, PowerFacts DEF PowerLeaves, Names
    <2> QED BY <2>1, <2>2 DEF Keeps
  <1>29. CASE FormalAppears
    BY <1>29
    DEF Keeps, FormalAppears, Decided, Present, PublishInv, TypeOK, Names, Sidecars,
        Contents, Unsynced, Terminals, files, launcherVars, childVars, faultVars
  <1>30. CASE FormalLaunch
    BY <1>30
    DEF Keeps, FormalLaunch, Exact, PublishInv, TypeOK, Names, Sidecars, Contents, Unsynced,
        Terminals, launcherVars, childVars, faultVars
  <1>31. CASE UNCHANGED vars
    BY <1>31
    DEF Keeps, vars, PublishInv, TypeOK, Names, Sidecars, Contents, Unsynced, Terminals,
        files, launcherVars, childVars, formalVars, faultVars
  <1> QED
    BY <1>0, <1>1, <1>2, <1>3, <1>4, <1>5, <1>6, <1>7, <1>8, <1>9, <1>10, <1>11, <1>12, <1>13,
       <1>14, <1>15, <1>16, <1>17, <1>18, <1>19, <1>20, <1>21, <1>22, <1>23, <1>24, <1>25,
       <1>26, <1>27, <1>28, <1>29, <1>30, <1>31 DEF Next, LauncherSteps

\* A terminal or a completion that is on the disk stays there as it is.
THEOREM NeverDowngradedEver == Spec => NeverDowngraded
  <1>1. IInv /\ [Next]_vars => [Keeps]_vars
    BY NextKeeps DEF IInv
  <1>2. Spec => [][Keeps]_vars
    BY <1>1, RehearsalInvariant, PTL DEF Spec
  <1> QED BY <1>2 DEF NeverDowngraded, Keeps

-----------------------------------------------------------------------------
(* The rehearsal is a one-shot marker *)

\* Only three steps change what the two names of the terminal show.
LEMMA NextNames ==
    ASSUME TypeOK, [Next]_vars, ~LinkTerminal, ~Complete, ~PowerLoss
    PROVE  fs'["terminal"] = fs["terminal"] /\ fs'["completion"] = fs["completion"]
  <1>1. CASE WriteBytes \/ FinishWrite
    BY <1>1 DEF WriteBytes, FinishWrite, TypeOK, Names, Sidecars
  <1>2. CASE \/ MakeAttempt \/ LinkMarker \/ Resume \/ Unstage \/ Unstart \/ Restage \/ Unalias
    BY <1>2
    DEF MakeAttempt, LinkMarker, Resume, Relink, Unstage, Unstart, Restage, Unalias, Enter,
        TypeOK, Names, Sidecars
  <1>3. CASE WriteClaim \/ Start \/ WriteSidecar \/ Stage
    BY <1>3 DEF WriteClaim, Start, WriteSidecar, Stage, Create, TypeOK, Names, Sidecars
  <1>4. CASE \/ Refuse \/ Authorize \/ Dispatch \/ Collect \/ Validate \/ StageRefused
             \/ Close \/ Reopen
    BY <1>4
    DEF Refuse, Authorize, Dispatch, Collect, Validate, StageRefused, Close, Reopen,
        KeepFiles, files
  <1>5. CASE Sync \/ Launch \/ FormalLaunch
    BY <1>5 DEF Sync, Launch, FormalLaunch
  <1>6. CASE ChildExits \/ Fault \/ Kill \/ FormalAppears \/ UNCHANGED vars
    BY <1>6 DEF ChildExits, Fault, Kill, FormalAppears, vars, files
  <1> QED
    BY <1>1, <1>2, <1>3, <1>4, <1>5, <1>6 DEF Next, LauncherSteps

\* A verdict is taken back by a step that leaves none, or not at all.
LEMMA NextVerdict ==
    ASSUME TypeOK, PublishInv, DurableInv, [Next]_vars, Verdict # "none"
    PROVE  Verdict' \in {Verdict, "none"}
  <1>1. CASE LinkTerminal
    <2>1. Verdict = "none"
      BY <1>1 DEF LinkTerminal, At, PublishInv, Verdict, Present
    <2> QED BY <2>1
  <1>2. CASE Complete
    <2>1. ~Present("completion") /\ Present("terminal")
      BY <1>2 DEF Complete, At, PublishInv
    <2>2. fs'["completion"] = fs["terminal"]
      BY <1>2 DEF Complete, Enter, TypeOK, Names
    <2> QED BY <2>1, <2>2 DEF Verdict, Present
  <1>3. CASE PowerLoss
    <2>1. \A n \in {"terminal", "completion"} : fs'[n] \in {fs[n], disk[n]}
      <3>1. \A n \in {"terminal", "completion"} :
               fs[n] \notin Unsynced /\ disk[n] \notin Unsynced
        BY DEF PublishInv, Unsynced
      <3> QED BY <1>3, <3>1, PowerFacts DEF PowerLeaves, Names
    <2>2. \A n \in {"terminal", "completion"} : disk[n] \in {"none", fs[n]}
      BY DEF PublishInv
    <2>3. Present("completion") => fs["terminal"] \in {"none", fs["completion"]}
      BY DEF DurableInv
    <2> QED BY <2>1, <2>2, <2>3 DEF Verdict, Present
  <1>4. CASE ~LinkTerminal /\ ~Complete /\ ~PowerLoss
    BY <1>4, NextNames DEF Verdict, Present
  <1> QED
    BY <1>1, <1>2, <1>3, <1>4

\* A formal launch is never forgotten.
LEMMA NextLaunched ==
    ASSUME [Next]_vars, launched PROVE launched'
  <1>1. CASE \/ WriteBytes \/ FinishWrite \/ Sync \/ Launch \/ MakeAttempt \/ WriteClaim
             \/ LinkMarker \/ Refuse \/ Resume \/ Authorize \/ Start \/ Dispatch \/ Collect
    BY <1>1
    DEF WriteBytes, FinishWrite, Sync, Launch, MakeAttempt, WriteClaim, LinkMarker, Refuse,
        Resume, Authorize, Start, Dispatch, Collect, Elsewhere, formalVars
  <1>2. CASE \/ WriteSidecar \/ Validate \/ Stage \/ StageRefused \/ LinkTerminal \/ Unstage
             \/ Unstart \/ Complete \/ Close \/ Restage \/ Unalias \/ Reopen
    BY <1>2
    DEF WriteSidecar, Validate, Stage, StageRefused, LinkTerminal, Unstage, Unstart,
        Complete, Close, Restage, Unalias, Reopen, Elsewhere, formalVars
  <1>3. CASE \/ ChildExits \/ Fault \/ Kill \/ PowerLoss \/ FormalAppears \/ FormalLaunch
             \/ UNCHANGED vars
    BY <1>3
    DEF ChildExits, Fault, Kill, PowerLoss, FormalAppears, FormalLaunch, vars, formalVars
  <1> QED
    BY <1>1, <1>2, <1>3 DEF Next, LauncherSteps

\* What the disk keeps is a verdict, and a formal launch stands on an accepted one.
Kept == disk["terminal"] # "none" \/ disk["completion"] # "none"

VerdictStands ==
    /\ Kept => Verdict # "none"
    /\ launched => Kept /\ Verdict = "accepted"

LEMMA VerdictHolds == IInv => VerdictStands
  <1> SUFFICES ASSUME IInv PROVE VerdictStands
    OBVIOUS
  <1>1. \A n \in {"terminal", "completion"} : disk[n] # "none" => fs[n] = disk[n]
    BY DEF IInv, PublishInv
  <1>2. launched => disk["completion"] = "accepted"
    BY DEF IInv, AuthorityIsEarned
  <1> QED BY <1>1, <1>2 DEF VerdictStands, Kept, Verdict, Present

LEMMA VerdictHoldsThen == IInv' => VerdictStands'
  BY VerdictHolds, PTL

\* The rehearsal implements OneShotMarker as its owner sees it: a step that leaves a
\* verdict decides it or makes it safe, and one that leaves none lost what was not safe.
THEOREM RehearsalDecidesOnce == Spec => DecidesOnce
  <1>1. Init => Promise!JustClaimed
    <2> SUFFICES ASSUME Init PROVE Promise!JustClaimed
      OBVIOUS
    <2>1. /\ \A n \in {"terminal", "completion"} : fs[n] = "none" /\ disk[n] = "none"
          /\ launched = FALSE
      BY DEF Init, Names
    <2> QED BY <2>1 DEF Promise!JustClaimed, Verdict, Present
  <1>2. ASSUME IInv, [Next]_vars PROVE [Promise!Next]_(Promise!vars)
    <2>1. VerdictStands /\ VerdictStands'
      BY <1>2, NextIInv, VerdictHolds, VerdictHoldsThen
    <2>2. Verdict # "none" => Verdict' \in {Verdict, "none"}
      BY <1>2, NextVerdict DEF IInv
    <2>3. Kept => Kept'
      BY <1>2, NextKeeps DEF IInv, Keeps, Kept
    <2>4. launched => launched'
      BY <1>2, NextLaunched
    <2>5. CASE Verdict' = "none"
      <3>1. ~Kept /\ ~Kept' /\ ~launched /\ ~launched'
        BY <2>1, <2>3, <2>4, <2>5 DEF VerdictStands
      <3>2. launched \in BOOLEAN /\ launched' \in BOOLEAN
        BY <1>2, NextType DEF IInv, TypeOK
      <3>3. Promise!Lose
        BY <2>5, <3>1, <3>2 DEF Promise!Lose, Kept
      <3> QED BY <3>3 DEF Promise!Next
    <2>6. CASE Verdict' # "none"
      <3>1. Promise!Decide
        BY <2>1, <2>2, <2>3, <2>4, <2>6 DEF Promise!Decide, VerdictStands, Kept
      <3> QED BY <3>1 DEF Promise!Next
    <2> QED BY <2>5, <2>6
  <1> QED BY <1>1, <1>2, RehearsalInvariant, PTL DEF Spec, DecidesOnce, Promise!OwnedSpec

-----------------------------------------------------------------------------
(* The launcher comes to an end: what ClaimIsSettled rests on beside the   *)
(* fairness of the launcher.                                               *)

Rank ==
    CASE pc = "scan" -> 14 [] pc = "claim" -> 13 [] pc = "mark" -> 12
      [] pc = "authorize" -> 11 [] pc = "start" -> 10 [] pc = "dispatch" -> 9
      [] pc = "wait" -> 8 [] pc \in {"collect", "restage"} -> 7 [] pc = "sidecars" -> 6
      [] pc = "link" -> 5 [] pc \in {"unstage", "reopen"} -> 4 [] pc = "unstart" -> 3
      [] pc = "complete" -> 2 [] pc = "close" -> 1 [] OTHER -> 0

Missing(n) == IF Present(n) THEN 0 ELSE 4
Lacking == Missing("stdout") + Missing("stderr") + Missing("outer_receipt")
Aliased == pc = "reopen" /\ fs["staging"] = fs["terminal"]
Unfinished ==
    (IF writing = "none" THEN 0 ELSE IF fs[writing] = "torn" THEN 3 ELSE 2)
    + (IF dirty = "none" THEN 0 ELSE 1)
    + (IF Aliased THEN 2 ELSE 0)

\* A bound on the steps of a launcher: one per place, and for each file it creates or
\* removes the writes and the sync.
StepsLeft == 4 * Rank + Lacking + Unfinished

RankIs ==
    /\ pc = "scan" => Rank = 14
    /\ pc = "claim" => Rank = 13
    /\ pc = "mark" => Rank = 12
    /\ pc = "authorize" => Rank = 11
    /\ pc = "start" => Rank = 10
    /\ pc = "dispatch" => Rank = 9
    /\ pc = "wait" => Rank = 8
    /\ pc \in {"collect", "restage"} => Rank = 7
    /\ pc = "sidecars" => Rank = 6
    /\ pc = "link" => Rank = 5
    /\ pc \in {"unstage", "reopen"} => Rank = 4
    /\ pc = "unstart" => Rank = 3
    /\ pc = "complete" => Rank = 2
    /\ pc = "close" => Rank = 1
    /\ pc = "idle" => Rank = 0

LEMMA RankFacts == RankIs
  BY DEF RankIs, Rank

LEMMA RankThen == RankIs'
  BY RankFacts, PTL

\* Every step of a launcher brings it nearer to its end; only its start takes it away
\* from there, and at most MaxFaults failed calls and losses of power.
LaunchesAdvance ==
    /\ [](StepsLeft \in 0..72)
    /\ [][\/ Launch \/ Fault \/ PowerLoss
          \/ StepsLeft' < StepsLeft
          \/ StepsLeft' = StepsLeft /\ UNCHANGED launcherVars]_vars

LackingIs == Lacking \in 0..12 /\ Unfinished \in 0..6

LEMMA LackingBounds == LackingIs
  BY DEF LackingIs, Lacking, Missing, Unfinished

LEMMA LackingThen == LackingIs'
  BY LackingBounds, PTL

\* The records that are missing change only with their files.
LEMMA LackingSame ==
    ASSUME \A s \in Sidecars : fs'[s] = fs[s] PROVE Lacking' = Lacking
  BY DEF Lacking, Missing, Present, Sidecars

LEMMA StepsBounded == TypeOK => StepsLeft \in 0..72
  <1> SUFFICES ASSUME TypeOK PROVE StepsLeft \in 0..72
    OBVIOUS
  <1>1. Rank \in 0..14 /\ (pc = "reopen" => Rank = 4)
    BY RankFacts DEF RankIs, TypeOK
  <1>2. Lacking \in 0..12 /\ Unfinished \in 0..6 /\ (pc # "reopen" => Unfinished <= 4)
    BY LackingBounds DEF LackingIs, Unfinished, Aliased
  <1> QED BY <1>1, <1>2 DEF StepsLeft

\* A place further on outweighs a file begun on the way to it.
LEMMA PlaceOutweighs ==
    ASSUME NEW r \in 0..14, NEW next \in 0..14, NEW l \in 0..12, NEW u \in 0..6, NEW v \in 0..6,
           next < r, v <= 3
    PROVE  4 * next + l + v < 4 * r + l + u
  OBVIOUS

LEMMA LauncherCounts ==
    ASSUME IInv, LauncherSteps, ~Launch PROVE StepsLeft' < StepsLeft
  <1>0. /\ TypeOK /\ TypeOK' /\ RankIs /\ RankIs'
        /\ Rank \in 0..14 /\ Rank' \in 0..14
        /\ pc = "idle" => writing = "none"
        /\ writing # "none" => fs[writing] \in {"torn", "soft"}
        /\ writing = "staging" => pc = "link"
        /\ pc = "reopen" => Present("terminal")
    <2>1. TypeOK'
      BY NextType DEF IInv, Next
    <2>2. RankIs /\ RankIs'
      BY RankFacts, RankThen
    <2>3. TypeOK /\ Rank \in 0..14 /\ Rank' \in 0..14
      BY <2>1, <2>2 DEF IInv, TypeOK, RankIs
    <2> QED BY <2>1, <2>2, <2>3 DEF IInv, ClaimInv, PublishInv
  <1>1. /\ Lacking \in 0..12 /\ Lacking' \in 0..12
        /\ Unfinished \in 0..6 /\ Unfinished' \in 0..6
    BY LackingBounds, LackingThen DEF LackingIs
  <1>10. CASE WriteBytes
    <2>1. /\ writing \in Names /\ fs[writing] = "torn" /\ fs'[writing] = "soft"
          /\ Rank' = Rank /\ UNCHANGED <<writing, dirty>>
      BY <1>0, <1>10 DEF WriteBytes, launcherVars, Rank, TypeOK, Names, Sidecars
    <2>2. Lacking' = Lacking
      BY <1>0, <1>10 DEF WriteBytes, Lacking, Missing, Present, TypeOK, Names, Sidecars
    <2>3. Aliased' = Aliased
      BY <1>0, <1>10
      DEF WriteBytes, launcherVars, Aliased, Present, TypeOK, Names, Sidecars
    <2> QED BY <1>0, <1>1, <1>10, <2>1, <2>2, <2>3 DEF WriteBytes, StepsLeft, Unfinished
  <1>2. CASE FinishWrite
    <2>1. Lacking' = Lacking
      BY <1>0, <1>2
      DEF FinishWrite, Lacking, Missing, Present, Outcome, TypeOK, Names, Sidecars
    <2>2. Aliased' = Aliased
      BY <1>0, <1>2 DEF FinishWrite, Aliased, Present, TypeOK, Names, Sidecars
    <2>3. Rank' = Rank /\ writing # "none" /\ writing' = "none"
      BY <1>2 DEF FinishWrite, Rank
    <2> QED BY <1>0, <1>1, <2>1, <2>2, <2>3 DEF StepsLeft, Unfinished
  <1>3. CASE Sync
    <2>1. Lacking' = Lacking
      BY <1>3, LackingSame DEF Sync
    <2>2. /\ Rank' = Rank /\ Aliased' = Aliased /\ dirty # "none" /\ dirty' = "none"
          /\ UNCHANGED <<fs, writing>>
      BY <1>3 DEF Sync, Rank, Aliased
    <2> QED BY <1>0, <1>1, <2>1, <2>2 DEF StepsLeft, Unfinished
  <1>4. CASE Unalias
    <2>1. Lacking' = Lacking
      BY <1>0, <1>4, LackingSame DEF Unalias, Enter, TypeOK, Names, Sidecars
    <2>2. /\ Aliased /\ ~Aliased' /\ Rank' = Rank
          /\ writing = "none" /\ writing' = "none" /\ dirty = "none"
      BY <1>0, <1>4 DEF Unalias, At, Enter, Aliased, Rank, Present, TypeOK, Names
    <2> QED BY <1>0, <1>1, <2>1, <2>2 DEF StepsLeft, Unfinished
  <1>5. CASE WriteSidecar
    <2>1. PICK s \in Sidecars : Create(s)
      BY <1>5 DEF WriteSidecar
    <2>2. Lacking' = Lacking - 4
      BY <1>0, <2>1 DEF Create, Lacking, Missing, Present, TypeOK, Names, Sidecars
    <2>3. /\ Rank' = Rank /\ pc # "reopen" /\ pc' = pc
          /\ writing = "none" /\ dirty = "none" /\ dirty' = "none"
      BY <1>5, <2>1 DEF WriteSidecar, Create, At, Rank
    <2> QED BY <1>0, <1>1, <2>2, <2>3 DEF StepsLeft, Unfinished, Aliased
  <1>6. ASSUME /\ \A s \in Sidecars : fs'[s] = fs[s]
               /\ Rank' < Rank /\ writing = "none" /\ dirty = "none"
               /\ \/ writing' = "none"
                  \/ dirty' = "none" /\ pc' # "reopen"
        PROVE  StepsLeft' < StepsLeft
    <2>1. Lacking' = Lacking
      BY <1>6, LackingSame
    <2>2. Unfinished' <= 3
      <3>1. CASE writing' = "none"
        BY <3>1 DEF Unfinished
      <3>2. CASE dirty' = "none" /\ ~Aliased'
        BY <3>2 DEF Unfinished
      <3> QED BY <1>6, <3>1, <3>2 DEF Aliased
    <2> QED BY <1>0, <1>1, <1>6, <2>1, <2>2, PlaceOutweighs DEF StepsLeft
  <1>7. CASE \/ MakeAttempt \/ LinkMarker \/ LinkTerminal \/ Unstage \/ Unstart \/ Complete
             \/ Restage \/ Resume
    <2>1. /\ \A s \in Sidecars : fs'[s] = fs[s]
          /\ writing = "none" /\ dirty = "none" /\ writing' = "none"
      BY <1>0, <1>7
      DEF MakeAttempt, LinkMarker, LinkTerminal, Unstage, Unstart, Complete, Restage, Resume,
          Relink, At, Enter, TypeOK, Names, Sidecars
    <2>2. Rank' < Rank
      BY <1>0, <1>7
      DEF MakeAttempt, LinkMarker, LinkTerminal, Unstage, Unstart, Complete, Restage, Resume,
          Relink, At, Goto, RankIs
    <2> QED BY <1>6, <2>1, <2>2
  <1>8. CASE WriteClaim \/ Start \/ Stage
    <2>1. /\ \A s \in Sidecars : fs'[s] = fs[s]
          /\ writing = "none" /\ dirty = "none" /\ dirty' = "none" /\ pc' # "reopen"
      BY <1>0, <1>8
      DEF WriteClaim, Start, Stage, At, Create, Goto, TypeOK, Names, Sidecars
    <2>2. Rank' < Rank
      BY <1>0, <1>8 DEF WriteClaim, Start, Stage, At, Goto, RankIs
    <2> QED BY <1>6, <2>1, <2>2
  <1>9. CASE \/ Refuse \/ Authorize \/ Dispatch \/ Collect \/ Validate \/ StageRefused
             \/ Close \/ Reopen
    <2>1. /\ UNCHANGED fs /\ writing = "none" /\ dirty = "none" /\ writing' = "none"
      BY <1>9
      DEF Refuse, Authorize, Dispatch, Collect, Validate, StageRefused, Close, Reopen, At,
          KeepFiles, files
    <2>2. Rank' < Rank
      BY <1>0, <1>9
      DEF Refuse, Authorize, Dispatch, Collect, Validate, StageRefused, Close, Reopen, At,
          Goto, RankIs
    <2> QED BY <1>6, <2>1, <2>2
  <1> QED
    BY <1>2, <1>3, <1>4, <1>5, <1>7, <1>8, <1>9, <1>10 DEF LauncherSteps

LEMMA KillCounts ==
    ASSUME IInv, Kill PROVE StepsLeft' < StepsLeft
  <1>1. /\ RankIs /\ RankIs' /\ TypeOK /\ Rank' = 0
    BY RankFacts, RankThen DEF IInv, Kill, Goto, RankIs
  <1>2. Rank \in 1..14
    BY <1>1 DEF Kill, TypeOK, RankIs
  <1>3. /\ ~Aliased' /\ writing' = "none" /\ dirty' = "none"
    BY DEF Kill, Goto, Aliased
  <1>4. Lacking' = Lacking
    BY LackingSame DEF Kill, files
  <1>5. Lacking \in Nat
    BY LackingBounds DEF LackingIs
  <1> QED BY <1>1, <1>2, <1>3, <1>4, <1>5 DEF StepsLeft, Unfinished

\* A launch does not go round in circles, in the claim, the run of the child, the
\* publication or the recovery: it ends within 72 steps of its own, and a handled
\* failure sends it back to the records at most as often as calls fail
\* (_run_accepted_binding_rehearsal and _recover_accepted_binding_rehearsal).
THEOREM LaunchesAlwaysAdvance == Spec => LaunchesAdvance
  <1>1. IInv => StepsLeft \in 0..72
    BY StepsBounded DEF IInv
  <1>2. ASSUME ChildExits \/ FormalAppears \/ FormalLaunch \/ UNCHANGED vars
        PROVE  StepsLeft' = StepsLeft /\ UNCHANGED launcherVars
    <2>1. UNCHANGED <<fs, launcherVars>>
      BY <1>2 DEF ChildExits, FormalAppears, FormalLaunch, vars, files
    <2> QED BY <2>1 DEF StepsLeft, Unfinished, Lacking, Missing, Present, Aliased, Rank, launcherVars
  <1>3. IInv /\ [Next]_vars =>
          [\/ Launch \/ Fault \/ PowerLoss
           \/ StepsLeft' < StepsLeft
           \/ StepsLeft' = StepsLeft /\ UNCHANGED launcherVars]_vars
    BY <1>2, LauncherCounts, KillCounts DEF Next
  <1> QED BY <1>1, <1>3, RehearsalInvariant, PTL DEF Spec, LaunchesAdvance

=============================================================================
