----------------------- MODULE WorkerSupervisionProofs -----------------------
(***************************************************************************)
(* Theorems about WorkerSupervision for any number of producers and lanes  *)
(* and any bound on concurrency.                                           *)
(*                                                                         *)
(* The argument goes along the order in which workers are started.  Those  *)
(* before head were waited for and are sound, those after next are not     *)
(* born, so what may be alive is the list and the worker being started:    *)
(* that is what a quiesce covers, and a failure that reaches the handler   *)
(* without an unproven exit has quiesced it.  The run uses its marker as   *)
(* the owner of a OneShotMarker, and its parent never goes in circles.     *)
(***************************************************************************)
EXTENDS WorkerSupervision, FiniteSetTheorems, TLAPS

Before == {"claimed", "spawn", "enter", "wait", "inspect", "publish", "complete"}
Serving == Before \cup Starting \cup {"append"}

\* Where the list stands at each point of the parent.
PlaceInv ==
    /\ head <= Masters => next <= Masters + 1
    /\ head > Masters => next - head <= MaxConcurrency
    /\ pc = "claimed" => next = 1
    /\ pc \in {"spawn", "append"} \cup Starting \/ own => Room(head, next)
    /\ pc = "enter" => head = 1 /\ next = Masters + 1
    /\ pc \in {"wait", "inspect"} => head < next
    /\ pc \in {"publish", "complete"} => head = Masters + Lanes + 1

\* Workers behind the list are sound, those ahead of it unborn.
ChildInv ==
    /\ \A w \in Workers : w < head => Sound(w)
    /\ \A w \in Workers : w >= next /\ child[w] # "unborn" => w = next /\ Room(head, next)
    /\ pc \in Before => \A w \in Workers : w >= next => child[w] = "unborn"

\* A failure has children left only where the quiesce still has to look.
CauseInv ==
    /\ own => pc \in {"quiesce", "died"}
    /\ pc = "quiesce" /\ own => cause = "failure"
    /\ pc \in Serving => cause = "none" /\ stray = {}
    /\ pc = "settle" => cause = "failure"
    /\ pc \in Failing => cause # "none"
    /\ pc = "quiesce" /\ cause = "failure" =>
          \A w \in Workers : Quiet(w) \/ w \in stray \/ w \in ListedAt(head, next)
                             \/ (own /\ w = next)
    /\ pc \in {"handle", "settle"} /\ cause = "failure" =>
          \A w \in Workers : Quiet(w) \/ w \in stray

DiskInv ==
    /\ marker # "started" => pc \in {"handle"} \cup Over
    /\ output = "published" =>
          head = Masters + Lanes + 1 /\ pc \in {"complete", "handle", "settle"} \cup Over
    /\ pc = "complete" => output = "published"
    /\ marker = "completed" => output = "published"

IInv == TypeOK /\ PlaceInv /\ ChildInv /\ CauseInv /\ DiskInv /\ VerdictMeansQuiet

USE SupervisionAssumption
USE DEF Before, Serving, Starting, Failing, Over

LEMMA InitIInv == Init => IInv
  <1> SUFFICES ASSUME Init PROVE IInv
    OBVIOUS
  <1>1. TypeOK
    <2>1. 1 \in 1..(Masters + Lanes + 1) /\ 1 \in 1..1
      OBVIOUS
    <2> QED BY <2>1 DEF Init, TypeOK, Starting, Failing, Over
  <1>2. PlaceInv /\ ChildInv /\ CauseInv
    BY DEF Init, PlaceInv, ChildInv, CauseInv, Workers, Starting, Before, Serving, Failing
  <1>3. DiskInv /\ VerdictMeansQuiet
    BY DEF Init, DiskInv, VerdictMeansQuiet, Over
  <1> QED BY <1>1, <1>2, <1>3 DEF IInv

\* What Turn says of the place the parent goes to.
LEMMA TurnPlace ==
  ASSUME NEW h \in 1..(Masters + Lanes + 1), NEW n \in 1..(Masters + Lanes + 1), h <= n,
         h <= Masters => n <= Masters + 1
  PROVE  /\ Turn(h, n) \in {"spawn", "enter", "wait", "publish"}
         /\ Turn(h, n) = "spawn" => Room(h, n)
         /\ Turn(h, n) = "enter" => h = 1 /\ n = Masters + 1
         /\ Turn(h, n) = "wait" => h < n
         /\ Turn(h, n) = "publish" => h = Masters + Lanes + 1
  BY DEF Turn, Room

\* A step of a child changes nothing but its own process.
LEMMA ChildStepIInv ==
  ASSUME IInv, NEW v \in Workers, ChildStep(v)
  PROVE  IInv'
  <1>1. /\ UNCHANGED <<parentVars, diskVars>>
        /\ \A w \in Workers : child[w] = "unborn" <=> child'[w] = "unborn"
        /\ \A w \in Workers : Quiet(w) => Quiet(w)'
        /\ \A w \in Workers : Sound(w) /\ w < head => Sound(w)'
        /\ TypeOK'
    <2>1. CASE Answer(v)
      BY <2>1 DEF IInv, TypeOK, Answer, Quiet, Sound, Live, Starting, Failing, Over, parentVars,
         diskVars
    <2>2. CASE Begin(v)
      BY <2>2 DEF IInv, TypeOK, Begin, Quiet, Sound, Live, Starting, Failing, Over, parentVars,
         diskVars
    <2>3. CASE Finish(v)
      BY <2>3 DEF IInv, TypeOK, Finish, Quiet, Sound, Live, Starting, Failing, Over, parentVars,
         diskVars
    <2>4. CASE Crash(v)
      BY <2>4 DEF IInv, TypeOK, Crash, Quiet, Sound, Live, Starting, Failing, Over, parentVars,
         diskVars
    <2>5. CASE Overflow(v)
      BY <2>5 DEF IInv, TypeOK, Overflow, Quiet, Sound, Live, Workers, Starting, Failing, Over,
         parentVars, diskVars
    <2> QED BY <2>1, <2>2, <2>3, <2>4, <2>5 DEF ChildStep
  <1>2. PlaceInv'
    BY <1>1 DEF IInv, PlaceInv, Room, Starting, parentVars
  <1>3. ChildInv'
    BY <1>1 DEF IInv, ChildInv, Room, Before, parentVars
  <1>4. CauseInv'
    BY <1>1 DEF IInv, CauseInv, ListedAt, Serving, Before, Starting,
       Failing, parentVars
  <1>5. DiskInv' /\ VerdictMeansQuiet'
    BY <1>1 DEF IInv, DiskInv, VerdictMeansQuiet, Over, parentVars, diskVars
  <1> QED BY <1>1, <1>2, <1>3, <1>4, <1>5 DEF IInv

-----------------------------------------------------------------------------
(* A step of the parent *)

LEMMA PrepareIInv == IInv /\ Prepare => IInv'
  <1> SUFFICES ASSUME IInv, Prepare PROVE IInv'
    OBVIOUS
  <1>1. TypeOK'
    BY DEF IInv, TypeOK, PlaceInv, Room, Workers, Live, Producers, Prepare, Starting, Failing, Over,
       Raise, childVars
  <1>2. PlaceInv'
    BY DEF IInv, TypeOK, PlaceInv, Room, Prepare, Starting, Failing, Over, Raise, childVars
  <1>3. ChildInv'
    BY DEF IInv, TypeOK, PlaceInv, ChildInv, Sound, Room, Workers, Prepare, Starting, Failing, Over,
       Before, Raise, childVars
  <1>4. CauseInv'
    BY DEF IInv, TypeOK, PlaceInv, ChildInv, CauseInv, ListedAt, Quiet, Sound, Room, Workers,
       Producers, Prepare, Starting, Failing, Over, Before, Serving, Raise, childVars
  <1>5. DiskInv'
    BY DEF IInv, TypeOK, PlaceInv, CauseInv, DiskInv, Prepare, Starting, Failing, Over, Serving,
       Before, Raise, childVars
  <1>6. VerdictMeansQuiet'
    BY DEF IInv, TypeOK, PlaceInv, ChildInv, CauseInv, DiskInv, VerdictMeansQuiet, Quiet, Sound,
       Workers, Prepare, Starting, Failing, Over, Before, Serving, Raise, childVars
  <1> QED BY <1>1, <1>2, <1>3, <1>4, <1>5, <1>6 DEF IInv

LEMMA SpawnIInv == IInv /\ Spawn => IInv'
  <1> SUFFICES ASSUME IInv, Spawn PROVE IInv'
    OBVIOUS
  <1>1. TypeOK'
    BY DEF IInv, TypeOK, PlaceInv, Room, Workers, Live, Producers, Spawn, Starting, Failing, Over,
       Raise, diskVars
  <1>2. PlaceInv'
    BY DEF IInv, TypeOK, PlaceInv, Room, Spawn, Starting, Failing, Over, Raise, diskVars
  <1>3. ChildInv'
    BY DEF IInv, TypeOK, PlaceInv, ChildInv, Sound, Room, Workers, Spawn, Starting, Failing, Over,
       Before, Raise, diskVars
  <1>4. CauseInv'
    BY DEF IInv, TypeOK, PlaceInv, ChildInv, CauseInv, ListedAt, Quiet, Sound, Room, Workers,
       Producers, Spawn, Starting, Failing, Over, Before, Serving, Raise, diskVars
  <1>5. DiskInv'
    BY DEF IInv, TypeOK, PlaceInv, CauseInv, DiskInv, Spawn, Starting, Failing, Over, Serving,
       Before, Raise, diskVars
  <1>6. VerdictMeansQuiet'
    BY DEF IInv, TypeOK, PlaceInv, ChildInv, CauseInv, DiskInv, VerdictMeansQuiet, Quiet, Sound,
       Workers, Spawn, Starting, Failing, Over, Before, Serving, Raise, diskVars
  <1> QED BY <1>1, <1>2, <1>3, <1>4, <1>5, <1>6 DEF IInv

LEMMA DeliverIInv == IInv /\ Deliver => IInv'
  <1> SUFFICES ASSUME IInv, Deliver PROVE IInv'
    OBVIOUS
  <1>1. TypeOK'
    BY DEF IInv, TypeOK, PlaceInv, Room, Workers, Live, Producers, Deliver, Starting, Failing, Over,
       diskVars
  <1>2. PlaceInv'
    BY DEF IInv, TypeOK, PlaceInv, Room, Deliver, Starting, Failing, Over, diskVars
  <1>3. ChildInv'
    BY DEF IInv, TypeOK, PlaceInv, ChildInv, Sound, Room, Workers, Deliver, Starting, Failing, Over,
       Before, diskVars
  <1>4. CauseInv'
    BY DEF IInv, TypeOK, PlaceInv, ChildInv, CauseInv, ListedAt, Quiet, Sound, Room, Workers,
       Producers, Deliver, Starting, Failing, Over, Before, Serving, diskVars
  <1>5. DiskInv'
    BY DEF IInv, TypeOK, PlaceInv, CauseInv, DiskInv, Deliver, Starting, Failing, Over, Serving,
       Before, diskVars
  <1>6. VerdictMeansQuiet'
    BY DEF IInv, TypeOK, PlaceInv, ChildInv, CauseInv, DiskInv, VerdictMeansQuiet, Quiet, Sound,
       Workers, Deliver, Starting, Failing, Over, Before, Serving, diskVars
  <1> QED BY <1>1, <1>2, <1>3, <1>4, <1>5, <1>6 DEF IInv

LEMMA AcknowledgedIInv == IInv /\ Acknowledged => IInv'
  <1> SUFFICES ASSUME IInv, Acknowledged PROVE IInv'
    OBVIOUS
  <1>1. TypeOK'
    BY DEF IInv, TypeOK, PlaceInv, Room, Workers, Live, Producers, Acknowledged, Starting, Failing,
       Over, childVars, diskVars
  <1>2. PlaceInv'
    BY DEF IInv, TypeOK, PlaceInv, Room, Acknowledged, Starting, Failing, Over, childVars, diskVars
  <1>3. ChildInv'
    BY DEF IInv, TypeOK, PlaceInv, ChildInv, Sound, Room, Workers, Acknowledged, Starting, Failing,
       Over, Before, childVars, diskVars
  <1>4. CauseInv'
    BY DEF IInv, TypeOK, PlaceInv, ChildInv, CauseInv, ListedAt, Quiet, Sound, Room, Workers,
       Producers, Acknowledged, Starting, Failing, Over, Before, Serving, childVars, diskVars
  <1>5. DiskInv'
    BY DEF IInv, TypeOK, PlaceInv, CauseInv, DiskInv, Acknowledged, Starting, Failing, Over,
       Serving, Before, childVars, diskVars
  <1>6. VerdictMeansQuiet'
    BY DEF IInv, TypeOK, PlaceInv, ChildInv, CauseInv, DiskInv, VerdictMeansQuiet, Quiet, Sound,
       Workers, Acknowledged, Starting, Failing, Over, Before, Serving, childVars, diskVars
  <1> QED BY <1>1, <1>2, <1>3, <1>4, <1>5, <1>6 DEF IInv

LEMMA StartFailsIInv == IInv /\ StartFails => IInv'
  <1> SUFFICES ASSUME IInv, StartFails PROVE IInv'
    OBVIOUS
  <1>1. TypeOK'
    BY DEF IInv, TypeOK, PlaceInv, Room, Workers, Live, Producers, StartFails, Starting, Failing,
       Over, Raise, childVars, diskVars
  <1>2. PlaceInv'
    BY DEF IInv, TypeOK, PlaceInv, Room, StartFails, Starting, Failing, Over, Raise, childVars,
       diskVars
  <1>3. ChildInv'
    BY DEF IInv, TypeOK, PlaceInv, ChildInv, Sound, Room, Workers, StartFails, Starting, Failing,
       Over, Before, Raise, childVars, diskVars
  <1>4. CauseInv'
    BY DEF IInv, TypeOK, PlaceInv, ChildInv, CauseInv, ListedAt, Quiet, Sound, Room, Workers,
       Producers, StartFails, Starting, Failing, Over, Before, Serving, Raise, childVars, diskVars
  <1>5. DiskInv'
    BY DEF IInv, TypeOK, PlaceInv, CauseInv, DiskInv, StartFails, Starting, Failing, Over, Serving,
       Before, Raise, childVars, diskVars
  <1>6. VerdictMeansQuiet'
    BY DEF IInv, TypeOK, PlaceInv, ChildInv, CauseInv, DiskInv, VerdictMeansQuiet, Quiet, Sound,
       Workers, StartFails, Starting, Failing, Over, Before, Serving, Raise, childVars, diskVars
  <1> QED BY <1>1, <1>2, <1>3, <1>4, <1>5, <1>6 DEF IInv

LEMMA AppendToListIInv == IInv /\ AppendToList => IInv'
  <1> SUFFICES ASSUME IInv, AppendToList PROVE IInv'
    OBVIOUS
  <1>0. /\ Room(head, next) /\ next + 1 \in 1..(Masters + Lanes + 1)
        /\ head <= Masters => next + 1 <= Masters + 1
        /\ Turn(head, next + 1) \in {"spawn", "enter", "wait", "publish"}
        /\ Turn(head, next + 1) = "spawn" => Room(head, next + 1)
        /\ Turn(head, next + 1) = "enter" => head = 1 /\ next + 1 = Masters + 1
        /\ Turn(head, next + 1) = "wait" => head < next + 1
        /\ Turn(head, next + 1) = "publish" => head = Masters + Lanes + 1
    <2>1. /\ Room(head, next) /\ next + 1 \in 1..(Masters + Lanes + 1)
          /\ head <= Masters => next + 1 <= Masters + 1
          /\ head \in 1..(Masters + Lanes + 1) /\ head <= next + 1
      BY DEF IInv, TypeOK, PlaceInv, AppendToList, Room, Starting, Failing, Over, childVars,
         diskVars
    <2> QED BY <2>1, TurnPlace
  <1>1. TypeOK'
    BY <1>0 DEF IInv, TypeOK, PlaceInv, Room, Workers, Live, Producers, AppendToList, Starting,
       Failing, Over, childVars, diskVars
  <1>2. PlaceInv'
    BY <1>0 DEF IInv, TypeOK, PlaceInv, CauseInv, Room, AppendToList, Starting, Failing, Over, childVars,
       diskVars
  <1>3. ChildInv'
    BY <1>0 DEF IInv, TypeOK, PlaceInv, ChildInv, Sound, Room, Workers, AppendToList, Starting,
       Failing, Over, Before, childVars, diskVars
  <1>4. CauseInv'
    BY <1>0 DEF IInv, TypeOK, PlaceInv, ChildInv, CauseInv, ListedAt, Quiet, Sound, Room, Workers,
       Producers, AppendToList, Starting, Failing, Over, Before, Serving, childVars, diskVars
  <1>5. DiskInv'
    BY <1>0 DEF IInv, TypeOK, PlaceInv, CauseInv, DiskInv, AppendToList, Starting, Failing, Over,
       Serving, Before, childVars, diskVars
  <1>6. VerdictMeansQuiet'
    BY <1>0 DEF IInv, TypeOK, PlaceInv, ChildInv, CauseInv, DiskInv, VerdictMeansQuiet, Quiet,
       Sound, Workers, AppendToList, Starting, Failing, Over, Before, Serving, childVars, diskVars
  <1> QED BY <1>1, <1>2, <1>3, <1>4, <1>5, <1>6 DEF IInv

LEMMA InterruptedIInv == IInv /\ Interrupted => IInv'
  <1> SUFFICES ASSUME IInv, Interrupted PROVE IInv'
    OBVIOUS
  <1>1. TypeOK'
    BY DEF IInv, TypeOK, PlaceInv, Room, Workers, Live, Producers, Interrupted, Starting, Failing,
       Over, Raise, childVars, diskVars
  <1>2. PlaceInv'
    BY DEF IInv, TypeOK, PlaceInv, Room, Interrupted, Starting, Failing, Over, Raise, childVars,
       diskVars
  <1>3. ChildInv'
    BY DEF IInv, TypeOK, PlaceInv, ChildInv, Sound, Room, Workers, Interrupted, Starting, Failing,
       Over, Before, Raise, childVars, diskVars
  <1>4. CauseInv'
    BY DEF IInv, TypeOK, PlaceInv, ChildInv, CauseInv, ListedAt, Quiet, Sound, Room, Workers,
       Producers, Interrupted, Starting, Failing, Over, Before, Serving, Raise, childVars, diskVars
  <1>5. DiskInv'
    BY DEF IInv, TypeOK, PlaceInv, CauseInv, DiskInv, Interrupted, Starting, Failing, Over, Serving,
       Before, Raise, childVars, diskVars
  <1>6. VerdictMeansQuiet'
    BY DEF IInv, TypeOK, PlaceInv, ChildInv, CauseInv, DiskInv, VerdictMeansQuiet, Quiet, Sound,
       Workers, Interrupted, Starting, Failing, Over, Before, Serving, Raise, childVars, diskVars
  <1> QED BY <1>1, <1>2, <1>3, <1>4, <1>5, <1>6 DEF IInv

LEMMA EnterWaitIInv == IInv /\ EnterWait => IInv'
  <1> SUFFICES ASSUME IInv, EnterWait PROVE IInv'
    OBVIOUS
  <1>1. TypeOK'
    BY DEF IInv, TypeOK, PlaceInv, Room, Workers, Live, Producers, EnterWait, Starting, Failing,
       Over, childVars, diskVars
  <1>2. PlaceInv'
    BY DEF IInv, TypeOK, PlaceInv, Room, EnterWait, Starting, Failing, Over, childVars, diskVars
  <1>3. ChildInv'
    BY DEF IInv, TypeOK, PlaceInv, ChildInv, Sound, Room, Workers, EnterWait, Starting, Failing,
       Over, Before, childVars, diskVars
  <1>4. CauseInv'
    BY DEF IInv, TypeOK, PlaceInv, ChildInv, CauseInv, ListedAt, Quiet, Sound, Room, Workers,
       Producers, EnterWait, Starting, Failing, Over, Before, Serving, childVars, diskVars
  <1>5. DiskInv'
    BY DEF IInv, TypeOK, PlaceInv, CauseInv, DiskInv, EnterWait, Starting, Failing, Over, Serving,
       Before, childVars, diskVars
  <1>6. VerdictMeansQuiet'
    BY DEF IInv, TypeOK, PlaceInv, ChildInv, CauseInv, DiskInv, VerdictMeansQuiet, Quiet, Sound,
       Workers, EnterWait, Starting, Failing, Over, Before, Serving, childVars, diskVars
  <1> QED BY <1>1, <1>2, <1>3, <1>4, <1>5, <1>6 DEF IInv

LEMMA WaitReturnsIInv == IInv /\ WaitReturns => IInv'
  <1> SUFFICES ASSUME IInv, WaitReturns PROVE IInv'
    OBVIOUS
  <1>1. TypeOK'
    BY DEF IInv, TypeOK, PlaceInv, Room, Workers, Live, Producers, WaitReturns, Starting, Failing,
       Over, diskVars
  <1>2. PlaceInv'
    BY DEF IInv, TypeOK, PlaceInv, Room, WaitReturns, Starting, Failing, Over, diskVars
  <1>3. ChildInv'
    BY DEF IInv, TypeOK, PlaceInv, ChildInv, Sound, Room, Workers, WaitReturns, Starting, Failing,
       Over, Before, diskVars
  <1>4. CauseInv'
    BY DEF IInv, TypeOK, PlaceInv, ChildInv, CauseInv, ListedAt, Quiet, Sound, Room, Workers,
       Producers, WaitReturns, Starting, Failing, Over, Before, Serving, diskVars
  <1>5. DiskInv'
    BY DEF IInv, TypeOK, PlaceInv, CauseInv, DiskInv, WaitReturns, Starting, Failing, Over, Serving,
       Before, diskVars
  <1>6. VerdictMeansQuiet'
    BY DEF IInv, TypeOK, PlaceInv, ChildInv, CauseInv, DiskInv, VerdictMeansQuiet, Quiet, Sound,
       Workers, WaitReturns, Starting, Failing, Over, Before, Serving, diskVars
  <1> QED BY <1>1, <1>2, <1>3, <1>4, <1>5, <1>6 DEF IInv

LEMMA WaitRaisesIInv == IInv /\ WaitRaises => IInv'
  <1> SUFFICES ASSUME IInv, WaitRaises PROVE IInv'
    OBVIOUS
  <1>1. TypeOK'
    BY DEF IInv, TypeOK, PlaceInv, Room, Workers, Live, Producers, WaitRaises, Starting, Failing,
       Over, Raise, childVars, diskVars
  <1>2. PlaceInv'
    BY DEF IInv, TypeOK, PlaceInv, Room, WaitRaises, Starting, Failing, Over, Raise, childVars,
       diskVars
  <1>3. ChildInv'
    BY DEF IInv, TypeOK, PlaceInv, ChildInv, Sound, Room, Workers, WaitRaises, Starting, Failing,
       Over, Before, Raise, childVars, diskVars
  <1>4. CauseInv'
    BY DEF IInv, TypeOK, PlaceInv, ChildInv, CauseInv, ListedAt, Quiet, Sound, Room, Workers,
       Producers, WaitRaises, Starting, Failing, Over, Before, Serving, Raise, childVars, diskVars
  <1>5. DiskInv'
    BY DEF IInv, TypeOK, PlaceInv, CauseInv, DiskInv, WaitRaises, Starting, Failing, Over, Serving,
       Before, Raise, childVars, diskVars
  <1>6. VerdictMeansQuiet'
    BY DEF IInv, TypeOK, PlaceInv, ChildInv, CauseInv, DiskInv, VerdictMeansQuiet, Quiet, Sound,
       Workers, WaitRaises, Starting, Failing, Over, Before, Serving, Raise, childVars, diskVars
  <1> QED BY <1>1, <1>2, <1>3, <1>4, <1>5, <1>6 DEF IInv

LEMMA InspectIInv == IInv /\ Inspect => IInv'
  <1> SUFFICES ASSUME IInv, Inspect PROVE IInv'
    OBVIOUS
  <1>0. /\ head + 1 \in 1..next
        /\ Turn(head + 1, next) \in {"spawn", "enter", "wait", "publish"}
        /\ Turn(head + 1, next) = "spawn" => Room(head + 1, next)
        /\ Turn(head + 1, next) = "enter" => head + 1 = 1 /\ next = Masters + 1
        /\ Turn(head + 1, next) = "wait" => head + 1 < next
        /\ Turn(head + 1, next) = "publish" => head + 1 = Masters + Lanes + 1
    <2>1. /\ head + 1 \in 1..next /\ head + 1 \in 1..(Masters + Lanes + 1)
          /\ next \in 1..(Masters + Lanes + 1)
          /\ head + 1 <= Masters => next <= Masters + 1
      BY DEF IInv, TypeOK, PlaceInv, Inspect, Starting, Failing, Over, Raise, childVars, diskVars
    <2> QED BY <2>1, TurnPlace
  <1>1. TypeOK'
    BY <1>0 DEF IInv, TypeOK, PlaceInv, Room, Workers, Live, Producers, Inspect, Starting, Failing,
       Over, Raise, childVars, diskVars
  <1>2. PlaceInv'
    BY <1>0 DEF IInv, TypeOK, PlaceInv, Room, Inspect, Starting, Failing, Over, Raise, childVars,
       diskVars
  <1>3. ChildInv'
    BY <1>0 DEF IInv, TypeOK, PlaceInv, ChildInv, Sound, Room, Workers, Inspect, Starting, Failing,
       Over, Before, Raise, childVars, diskVars
  <1>4. CauseInv'
    BY <1>0 DEF IInv, TypeOK, PlaceInv, ChildInv, CauseInv, ListedAt, Quiet, Sound, Room, Workers,
       Producers, Inspect, Starting, Failing, Over, Before, Serving, Raise, childVars, diskVars
  <1>5. DiskInv'
    BY <1>0 DEF IInv, TypeOK, PlaceInv, CauseInv, DiskInv, Inspect, Starting, Failing, Over,
       Serving, Before, Raise, childVars, diskVars
  <1>6. VerdictMeansQuiet'
    BY <1>0 DEF IInv, TypeOK, PlaceInv, ChildInv, CauseInv, DiskInv, VerdictMeansQuiet, Quiet,
       Sound, Workers, Inspect, Starting, Failing, Over, Before, Serving, Raise, childVars, diskVars
  <1> QED BY <1>1, <1>2, <1>3, <1>4, <1>5, <1>6 DEF IInv

\* However a quiesce ends, only exited workers of its scope change.
LEMMA LeaveQuiesceKeeps ==
  ASSUME IInv, NEW seen \in SUBSET Exited, LeaveQuiesce(seen), stray' \subseteq Workers,
         cause' \in {"none", "failure", "unproven"}
  PROVE  /\ seen \subseteq Workers
         /\ \A w \in Workers : Quiet(w) => Quiet(w)'
         /\ \A w \in seen : Quiet(w)'
         /\ TypeOK' /\ PlaceInv' /\ ChildInv'
  <1>1. /\ seen \subseteq Workers
        /\ \A w \in Workers : Quiet(w) => Quiet(w)'
        /\ \A w \in seen : Quiet(w)'
        /\ \A w \in Workers : w < head => Sound(w)'
    <2>1. \A w \in Scope : w \in Workers
      <3>1. next \in 1..(Masters + Lanes + 1) /\ head \in 1..next
        BY DEF IInv, TypeOK
      <3>2. own => next \in Workers
        BY <3>1 DEF IInv, PlaceInv, Room, Workers
      <3> QED BY <3>1, <3>2 DEF Scope, ListedAt, Workers
    <2> QED BY <2>1 DEF IInv, TypeOK, ChildInv, Exited, LeaveQuiesce, Quiet, Sound
  <1>2. TypeOK'
    BY <1>1 DEF IInv, TypeOK, LeaveQuiesce, Live, diskVars
  <1>3. PlaceInv'
    BY DEF IInv, PlaceInv, LeaveQuiesce, Room
  <1>4. ChildInv'
    BY <1>1 DEF IInv, ChildInv, LeaveQuiesce, Exited, Scope, ListedAt, Room
  <1> QED BY <1>1, <1>2, <1>3, <1>4

LEMMA QuiesceEndsIInv ==
  ASSUME IInv, NEW seen \in SUBSET Exited, QuiesceEnds(seen)
  PROVE  IInv'
  <1>0. stray' \subseteq Workers /\ cause' \in {"none", "failure", "unproven"}
    BY DEF IInv, TypeOK, QuiesceEnds
  <1>1. /\ seen \subseteq Workers
        /\ \A w \in Workers : Quiet(w) => Quiet(w)'
        /\ TypeOK' /\ PlaceInv' /\ ChildInv'
    BY <1>0, LeaveQuiesceKeeps DEF QuiesceEnds
  <1>2. CauseInv'
    BY <1>1 DEF IInv, TypeOK, CauseInv, QuiesceEnds, LeaveQuiesce, Exited, Scope, ListedAt, Quiet,
       Starting, Failing, Over, Serving, Before, diskVars
  <1>3. DiskInv' /\ VerdictMeansQuiet'
    BY <1>1 DEF IInv, DiskInv, VerdictMeansQuiet, QuiesceEnds, LeaveQuiesce, Over, diskVars
  <1> QED BY <1>1, <1>2, <1>3 DEF IInv

\* The workers an interrupted quiesce has not reaped are lost from then on.
LEMMA QuiesceInterruptedIInv ==
  ASSUME IInv, NEW seen \in SUBSET Exited, QuiesceInterrupted(seen)
  PROVE  IInv'
  <1>0. stray' \subseteq Workers /\ cause' \in {"none", "failure", "unproven"}
    BY DEF IInv, TypeOK, QuiesceInterrupted
  <1>1. /\ \A w \in Workers : Quiet(w) => Quiet(w)'
        /\ \A w \in seen : Quiet(w)'
        /\ TypeOK' /\ PlaceInv' /\ ChildInv'
    BY <1>0, LeaveQuiesceKeeps DEF QuiesceInterrupted
  <1>2. \A w \in Workers : Quiet(w)' \/ w \in stray' \/ (own /\ w # next)
    BY <1>1 DEF QuiesceInterrupted
  <1>3. stray \subseteq stray' /\ pc = "quiesce" /\ own' = FALSE /\ cause' = "failure"
        /\ pc' = (IF own THEN "quiesce" ELSE "handle") /\ UNCHANGED <<next, head, diskVars>>
    BY DEF QuiesceInterrupted, LeaveQuiesce
  <1>4. CauseInv'
    BY <1>1, <1>2, <1>3 DEF IInv, TypeOK, CauseInv, ListedAt
  <1>5. DiskInv' /\ VerdictMeansQuiet'
    BY <1>1, <1>3 DEF IInv, DiskInv, VerdictMeansQuiet, diskVars
  <1> QED BY <1>1, <1>4, <1>5 DEF IInv

LEMMA PublishIInv == IInv /\ Publish => IInv'
  <1> SUFFICES ASSUME IInv, Publish PROVE IInv'
    OBVIOUS
  <1>1. TypeOK'
    BY DEF IInv, TypeOK, PlaceInv, Room, Workers, Live, Producers, Publish, Starting, Failing, Over,
       Raise, childVars
  <1>2. PlaceInv'
    BY DEF IInv, TypeOK, PlaceInv, Room, Publish, Starting, Failing, Over, Raise, childVars
  <1>3. ChildInv'
    BY DEF IInv, TypeOK, PlaceInv, ChildInv, Sound, Room, Workers, Publish, Starting, Failing, Over,
       Before, Raise, childVars
  <1>4. CauseInv'
    BY DEF IInv, TypeOK, PlaceInv, ChildInv, CauseInv, ListedAt, Quiet, Sound, Room, Workers,
       Producers, Publish, Starting, Failing, Over, Before, Serving, Raise, childVars
  <1>5. DiskInv'
    BY DEF IInv, TypeOK, PlaceInv, CauseInv, DiskInv, Publish, Starting, Failing, Over, Serving,
       Before, Raise, childVars
  <1>6. VerdictMeansQuiet'
    BY DEF IInv, TypeOK, PlaceInv, ChildInv, CauseInv, DiskInv, VerdictMeansQuiet, Quiet, Sound,
       Workers, Publish, Starting, Failing, Over, Before, Serving, Raise, childVars
  <1> QED BY <1>1, <1>2, <1>3, <1>4, <1>5, <1>6 DEF IInv

LEMMA CompleteIInv == IInv /\ Complete => IInv'
  <1> SUFFICES ASSUME IInv, Complete PROVE IInv'
    OBVIOUS
  <1>1. TypeOK'
    BY DEF IInv, TypeOK, PlaceInv, Room, Workers, Live, Producers, Complete, Starting, Failing,
       Over, Raise, childVars
  <1>2. PlaceInv'
    BY DEF IInv, TypeOK, PlaceInv, Room, Complete, Starting, Failing, Over, Raise, childVars
  <1>3. ChildInv'
    BY DEF IInv, TypeOK, PlaceInv, ChildInv, Sound, Room, Workers, Complete, Starting, Failing,
       Over, Before, Raise, childVars
  <1>4. CauseInv'
    BY DEF IInv, TypeOK, PlaceInv, ChildInv, CauseInv, ListedAt, Quiet, Sound, Room, Workers,
       Producers, Complete, Starting, Failing, Over, Before, Serving, Raise, childVars
  <1>5. DiskInv'
    BY DEF IInv, TypeOK, PlaceInv, CauseInv, DiskInv, Complete, Starting, Failing, Over, Serving,
       Before, Raise, childVars
  <1>6. VerdictMeansQuiet'
    BY DEF IInv, TypeOK, PlaceInv, ChildInv, CauseInv, DiskInv, VerdictMeansQuiet, Quiet, Sound,
       Workers, Complete, Starting, Failing, Over, Before, Serving, Raise, childVars
  <1> QED BY <1>1, <1>2, <1>3, <1>4, <1>5, <1>6 DEF IInv

LEMMA HandleIInv == IInv /\ Handle => IInv'
  <1> SUFFICES ASSUME IInv, Handle PROVE IInv'
    OBVIOUS
  <1>1. TypeOK'
    BY DEF IInv, TypeOK, PlaceInv, Room, Workers, Live, Producers, Handle, Starting, Failing, Over,
       childVars
  <1>2. PlaceInv'
    BY DEF IInv, TypeOK, PlaceInv, Room, Handle, Starting, Failing, Over, childVars
  <1>3. ChildInv'
    BY DEF IInv, TypeOK, PlaceInv, ChildInv, Sound, Room, Workers, Handle, Starting, Failing, Over,
       Before, childVars
  <1>4. CauseInv'
    BY DEF IInv, TypeOK, PlaceInv, ChildInv, CauseInv, ListedAt, Quiet, Sound, Room, Workers,
       Producers, Handle, Starting, Failing, Over, Before, Serving, childVars
  <1>5. DiskInv'
    BY DEF IInv, TypeOK, PlaceInv, CauseInv, DiskInv, Handle, Starting, Failing, Over, Serving,
       Before, childVars
  <1>6. VerdictMeansQuiet'
    BY DEF IInv, TypeOK, PlaceInv, ChildInv, CauseInv, DiskInv, VerdictMeansQuiet, Quiet, Sound,
       Workers, Handle, Starting, Failing, Over, Before, Serving, childVars
  <1> QED BY <1>1, <1>2, <1>3, <1>4, <1>5, <1>6 DEF IInv

LEMMA FinalizeFailedIInv == IInv /\ FinalizeFailed => IInv'
  <1> SUFFICES ASSUME IInv, FinalizeFailed PROVE IInv'
    OBVIOUS
  <1>1. TypeOK'
    BY DEF IInv, TypeOK, PlaceInv, Room, Workers, Live, Producers, FinalizeFailed, Starting,
       Failing, Over, childVars
  <1>2. PlaceInv'
    BY DEF IInv, TypeOK, PlaceInv, Room, FinalizeFailed, Starting, Failing, Over, childVars
  <1>3. ChildInv'
    BY DEF IInv, TypeOK, PlaceInv, ChildInv, Sound, Room, Workers, FinalizeFailed, Starting,
       Failing, Over, Before, childVars
  <1>4. CauseInv'
    BY DEF IInv, TypeOK, PlaceInv, ChildInv, CauseInv, ListedAt, Quiet, Sound, Room, Workers,
       Producers, FinalizeFailed, Starting, Failing, Over, Before, Serving, childVars
  <1>5. DiskInv'
    BY DEF IInv, TypeOK, PlaceInv, CauseInv, DiskInv, FinalizeFailed, Starting, Failing, Over,
       Serving, Before, childVars
  <1>6. VerdictMeansQuiet'
    BY DEF IInv, TypeOK, PlaceInv, ChildInv, CauseInv, DiskInv, VerdictMeansQuiet, Quiet, Sound,
       Workers, FinalizeFailed, Starting, Failing, Over, Before, Serving, childVars
  <1> QED BY <1>1, <1>2, <1>3, <1>4, <1>5, <1>6 DEF IInv

LEMMA ParentDiesIInv == IInv /\ ParentDies => IInv'
  <1> SUFFICES ASSUME IInv, ParentDies PROVE IInv'
    OBVIOUS
  <1>1. TypeOK'
    BY DEF IInv, TypeOK, PlaceInv, Room, Workers, Live, Producers, ParentDies, Starting, Failing,
       Over, childVars, diskVars
  <1>2. PlaceInv'
    BY DEF IInv, TypeOK, PlaceInv, Room, ParentDies, Starting, Failing, Over, childVars, diskVars
  <1>3. ChildInv'
    BY DEF IInv, TypeOK, PlaceInv, ChildInv, Sound, Room, Workers, ParentDies, Starting, Failing,
       Over, Before, childVars, diskVars
  <1>4. CauseInv'
    BY DEF IInv, TypeOK, PlaceInv, ChildInv, CauseInv, ListedAt, Quiet, Sound, Room, Workers,
       Producers, ParentDies, Starting, Failing, Over, Before, Serving, childVars, diskVars
  <1>5. DiskInv'
    BY DEF IInv, TypeOK, PlaceInv, CauseInv, DiskInv, ParentDies, Starting, Failing, Over, Serving,
       Before, childVars, diskVars
  <1>6. VerdictMeansQuiet'
    BY DEF IInv, TypeOK, PlaceInv, ChildInv, CauseInv, DiskInv, VerdictMeansQuiet, Quiet, Sound,
       Workers, ParentDies, Starting, Failing, Over, Before, Serving, childVars, diskVars
  <1> QED BY <1>1, <1>2, <1>3, <1>4, <1>5, <1>6 DEF IInv

LEMMA NextIInv == IInv /\ [Next]_vars => IInv'
  <1> SUFFICES ASSUME IInv, [Next]_vars PROVE IInv'
    OBVIOUS
  <1>1. CASE ParentWorks
    <2>1. CASE Quiesce
      BY <2>1, QuiesceEndsIInv DEF Quiesce
    <2> QED BY <1>1, <2>1, PrepareIInv, SpawnIInv, DeliverIInv, AcknowledgedIInv, StartFailsIInv,
       AppendToListIInv, EnterWaitIInv, WaitReturnsIInv, WaitRaisesIInv, InspectIInv, PublishIInv,
       CompleteIInv, HandleIInv, FinalizeFailedIInv DEF ParentWorks
  <1>2. CASE Interrupted \/ InterruptedQuiesce \/ ParentDies
    BY <1>2, InterruptedIInv, QuiesceInterruptedIInv, ParentDiesIInv DEF InterruptedQuiesce
  <1>3. CASE \E w \in Workers : ChildStep(w)
    BY <1>3, ChildStepIInv
  <1>4. CASE UNCHANGED vars
    <2>1. TypeOK' /\ PlaceInv'
      BY <1>4 DEF IInv, TypeOK, PlaceInv, vars, Starting, Failing, Over, parentVars, childVars,
         diskVars
    <2>2. ChildInv' /\ CauseInv'
      BY <1>4 DEF IInv, ChildInv, CauseInv, Quiet, Sound, vars, Before, Serving, Starting, Failing,
         parentVars, childVars, diskVars
    <2>3. DiskInv' /\ VerdictMeansQuiet'
      BY <1>4 DEF IInv, DiskInv, VerdictMeansQuiet, Quiet, vars, Over, parentVars, childVars,
         diskVars
    <2> QED BY <2>1, <2>2, <2>3 DEF IInv
  <1> QED BY <1>1, <1>2, <1>3, <1>4 DEF Next, Rest

LEMMA Invariance == Spec => []IInv
  BY InitIInv, NextIInv, PTL DEF Spec

-----------------------------------------------------------------------------
(* Theorems *)

\* Every variable of a claimed run keeps its type.
THEOREM SupervisionTypes == Spec => []TypeOK
  <1>1. IInv => TypeOK
    BY DEF IInv
  <1> QED BY <1>1, Invariance, PTL

\* A final marker means that no child of the run is left but those an interrupt lost.
THEOREM VerdictAlwaysMeansQuiet == Spec => []VerdictMeansQuiet
  <1>1. IInv => VerdictMeansQuiet
    BY DEF IInv
  <1> QED BY <1>1, Invariance, PTL

\* Restore lanes that run lie within MaxConcurrency places of head.
LEMMA LanesInReach ==
  ASSUME IInv
  PROVE  {w \in Restorers : ~Quiet(w)} \subseteq head..(head + MaxConcurrency - 1)
  <1> SUFFICES ASSUME NEW w \in Restorers, ~Quiet(w)
               PROVE  w \in head..(head + MaxConcurrency - 1)
    OBVIOUS
  <1>1. w \in Int /\ w \in Workers /\ w > Masters /\ head \in Nat /\ next \in Nat
    BY DEF Restorers, Producers, Workers, IInv, TypeOK, Starting, Failing, Over
  <1>2. w >= head /\ child[w] # "unborn"
    BY <1>1 DEF IInv, ChildInv, Sound, Quiet, Before
  <1>3. CASE w >= next
    BY <1>1, <1>2, <1>3 DEF IInv, PlaceInv, ChildInv, Room, Starting, Before
  <1>4. CASE w < next
    BY <1>1, <1>2, <1>4 DEF IInv, PlaceInv, Starting
  <1> QED BY <1>1, <1>3, <1>4

\* Never more restore lanes than MaxConcurrency, and none before the producers.
THEOREM RestoresAlwaysBounded == Spec => []RestoresBounded
  <1>1. ASSUME IInv PROVE RestoresBounded
    <2> DEFINE reach == head..(head + MaxConcurrency - 1)
               lanes == {w \in Restorers : ~Quiet(w)}
    <2>1. head \in Int /\ head + MaxConcurrency - 1 \in Int
      BY <1>1 DEF IInv, TypeOK, Starting, Failing, Over
    <2>2. IsFiniteSet(reach) /\ Cardinality(reach) = MaxConcurrency
      BY <2>1, FS_Interval
    <2>3. IsFiniteSet(lanes) /\ Cardinality(lanes) <= Cardinality(reach)
      BY <1>1, <2>2, LanesInReach, FS_Subset
    <2>4. ASSUME NEW w \in Restorers, child[w] # "unborn", NEW m \in Producers
          PROVE  Sound(m)
      <3>1. w \in Workers /\ w > Masters /\ m \in Workers /\ m <= Masters
        BY DEF Restorers, Producers, Workers
      <3>2. head > Masters
        BY <1>1, <2>4, <3>1 DEF IInv, TypeOK, PlaceInv, ChildInv, Room, Workers, Starting, Failing,
           Over, Before
      <3> QED BY <1>1, <3>1, <3>2 DEF IInv, TypeOK, ChildInv, Workers, Starting, Failing, Over,
         Before
    <2> QED BY <2>2, <2>3, <2>4 DEF RestoresBounded
  <1> QED BY <1>1, Invariance, PTL

\* Published output rests on workers that all succeeded.
THEOREM PublishedAlwaysWhole == Spec => []PublishedIsWhole
  <1>1. IInv => PublishedIsWhole
    BY DEF IInv, TypeOK, DiskInv, ChildInv, PublishedIsWhole, Workers, Starting, Failing, Over,
       Before
  <1> QED BY <1>1, Invariance, PTL

\* Marker and output stay as they are while a child may run that no interrupt lost,
\* and once an exit is unproven.
THEOREM UnprovenAlwaysLeft == Spec => UnprovenIsLeft
  <1> DEFINE Open == cause = "unproven" \/ \E w \in Workers \ stray : ~Quiet(w)
  <1>1. ASSUME IInv, [Next]_vars, Open
        PROVE  UNCHANGED diskVars
    <2>1. CASE Prepare
      BY <1>1, <2>1 DEF IInv, TypeOK, PlaceInv, ChildInv, CauseInv, Prepare, Quiet, Workers
    <2>2. CASE Publish \/ Complete
      BY <1>1, <2>2 DEF IInv, PlaceInv, ChildInv, CauseInv, Publish, Complete, Quiet, Sound, Workers
    <2>3. CASE Handle \/ FinalizeFailed
      BY <1>1, <2>3 DEF IInv, TypeOK, CauseInv, Handle, FinalizeFailed, diskVars
    <2>4. CASE ParentWorks /\ ~(Prepare \/ Publish \/ Complete \/ Handle \/ FinalizeFailed)
      BY <2>4 DEF ParentWorks, Spawn, Deliver, Acknowledged, StartFails, AppendToList, EnterWait,
         WaitReturns, WaitRaises, Inspect, Quiesce, QuiesceEnds, LeaveQuiesce
    <2>5. CASE Interrupted \/ InterruptedQuiesce \/ ParentDies
      BY <2>5 DEF Interrupted, InterruptedQuiesce, QuiesceInterrupted, LeaveQuiesce, ParentDies
    <2>6. CASE \E w \in Workers : ChildStep(w)
      BY <2>6 DEF ChildStep, Answer, Begin, Finish, Crash, Overflow
    <2>7. CASE UNCHANGED vars
      BY <2>7 DEF vars, parentVars, childVars, diskVars
    <2> QED BY <1>1, <2>1, <2>2, <2>3, <2>4, <2>5, <2>6, <2>7 DEF Next, Rest, ParentWorks
  <1>2. IInv /\ [Next]_vars => [Open => UNCHANGED diskVars]_vars
    BY <1>1
  <1> QED BY <1>2, Invariance, PTL DEF Spec, UnprovenIsLeft

\* The run treats its marker as the registry lets its owner: the outcome is decided
\* once, from a started marker, and only a completion is returned as one.
THEOREM MarkerUsedAsOwner == Spec => OwnsOneShot
  <1>1. Init => Promise!JustClaimed
    BY DEF Init, Promise!JustClaimed
  <1>2. ASSUME IInv, Next
        PROVE  Promise!Decide \/ UNCHANGED <<marker, pc = "returned">>
    <2>1. marker \in {"started", "completed", "failed"}
      BY <1>2 DEF IInv, TypeOK
    <2>2. CASE Complete \/ FinalizeFailed
      <3>1. marker = "started" /\ pc # "returned"
        BY <1>2, <2>2 DEF IInv, DiskInv, Complete, FinalizeFailed
      <3>2. CASE marker' = "started"
        BY <2>2, <3>1, <3>2 DEF Complete, FinalizeFailed, Raise
      <3>3. CASE marker' # "started"
        <4>1. marker' \in {"completed", "failed"}
          BY <2>2, <3>3 DEF Complete, FinalizeFailed, Raise
        <4>2. pc' = "returned" => marker' = "completed"
          BY <2>2 DEF Complete, FinalizeFailed, Raise
        <4> QED BY <3>1, <4>1, <4>2 DEF Promise!Decide
      <3> QED BY <3>2, <3>3
    <2>3. CASE ParentWorks /\ ~Complete /\ ~FinalizeFailed
      BY <2>3 DEF ParentWorks, Prepare, Spawn, Deliver, Acknowledged, StartFails, AppendToList,
         EnterWait, WaitReturns, WaitRaises, Inspect, Quiesce, QuiesceEnds, LeaveQuiesce, Publish,
         Handle, Turn, Raise, diskVars
    <2>4. CASE Interrupted \/ InterruptedQuiesce \/ ParentDies
      BY <2>4 DEF Interrupted, InterruptedQuiesce, QuiesceInterrupted, LeaveQuiesce, ParentDies,
         Raise, diskVars
    <2>5. CASE \E w \in Workers : ChildStep(w)
      BY <2>5 DEF ChildStep, Answer, Begin, Finish, Crash, Overflow, parentVars, diskVars
    <2>6. CASE Rest
      BY <2>6 DEF Rest, vars, parentVars, diskVars
    <2> QED BY <1>2, <2>2, <2>3, <2>4, <2>5, <2>6 DEF Next
  <1>3. IInv /\ [Next]_vars => [Promise!Next]_(Promise!vars)
    <2>1. UNCHANGED vars => UNCHANGED <<marker, pc = "returned">>
      BY DEF vars, parentVars, diskVars
    <2>2. UNCHANGED <<marker, pc = "returned">> => UNCHANGED Promise!vars
      BY DEF Promise!vars
    <2> QED BY <1>2, <2>1, <2>2 DEF Promise!Next
  <1> QED BY <1>1, <1>3, Invariance, PTL DEF Spec, OwnsOneShot, Promise!OwnedSpec

-----------------------------------------------------------------------------
(* What EveryAttemptEnds rests on beside the fairness of the parent.        *)

\* Four steps start a worker and three see it off.
WorkLeft == 4 * (Masters + Lanes + 1 - next) + 3 * (Masters + Lanes + 1 - head)

\* How many steps the parent takes at most.
StepsLeft ==
    CASE pc = "claimed" -> WorkLeft + 11
      [] pc \in {"spawn", "enter", "publish"} -> WorkLeft + 10
      [] pc \in {"deliver", "wait", "complete"} -> WorkLeft + 9
      [] pc \in {"acknowledge", "inspect"} -> WorkLeft + 8
      [] pc = "append" -> WorkLeft + 7
      [] pc = "quiesce" -> IF own THEN 4 ELSE 3
      [] pc = "handle" -> 2
      [] pc = "settle" -> 1
      [] OTHER -> 0

StepsAre ==
    /\ pc = "claimed" => StepsLeft = WorkLeft + 11
    /\ pc \in {"spawn", "enter", "publish"} => StepsLeft = WorkLeft + 10
    /\ pc \in {"deliver", "wait", "complete"} => StepsLeft = WorkLeft + 9
    /\ pc \in {"acknowledge", "inspect"} => StepsLeft = WorkLeft + 8
    /\ pc = "append" => StepsLeft = WorkLeft + 7
    /\ pc = "quiesce" /\ own => StepsLeft = 4
    /\ pc = "quiesce" /\ ~own => StepsLeft = 3
    /\ pc = "handle" => StepsLeft = 2
    /\ pc = "settle" => StepsLeft = 1
    /\ pc \in Over => StepsLeft = 0

LEMMA StepsFacts == StepsAre
  BY DEF StepsAre, StepsLeft

LEMMA StepsThen == StepsAre'
  BY StepsFacts, PTL

\* Every step of the parent brings it nearer to its end; a child never takes it back.
ParentAdvances ==
    /\ StepsLeft = 11 + 7 * (Masters + Lanes)
    /\ [](StepsLeft \in Nat)
    /\ [][UNCHANGED parentVars \/ StepsLeft' < StepsLeft]_vars

LEMMA ParentStepCounts ==
  ASSUME IInv, ParentWorks \/ Interrupted \/ InterruptedQuiesce \/ ParentDies
  PROVE  StepsLeft' < StepsLeft
  <1>0. /\ StepsAre /\ StepsAre'
        /\ WorkLeft \in Nat
        /\ own \in BOOLEAN
        /\ pc \in {"spawn", "append"} \cup Starting => next <= Masters + Lanes
    BY StepsFacts, StepsThen DEF IInv, TypeOK, PlaceInv, Room, WorkLeft
  <1>1. CASE Prepare \/ Spawn \/ Deliver \/ Acknowledged \/ StartFails
    <2>1. WorkLeft' = WorkLeft
      BY <1>1 DEF Prepare, Spawn, Deliver, Acknowledged, StartFails, WorkLeft
    <2> QED BY <1>0, <1>1, <2>1 DEF StepsAre, Prepare, Spawn, Deliver, Acknowledged, StartFails,
       Raise
  <1>2. CASE AppendToList
    <2>1. WorkLeft' = WorkLeft - 4
      BY <1>2 DEF AppendToList, WorkLeft, IInv, TypeOK
    <2>2. pc' \in {"spawn", "enter", "wait", "publish"}
      BY <1>2 DEF AppendToList, Turn
    <2> QED BY <1>0, <1>2, <2>1, <2>2 DEF StepsAre, AppendToList
  <1>3. CASE EnterWait \/ WaitReturns \/ WaitRaises
    <2>1. WorkLeft' = WorkLeft
      BY <1>3 DEF EnterWait, WaitReturns, WaitRaises, WorkLeft
    <2> QED BY <1>0, <1>3, <2>1 DEF StepsAre, EnterWait, WaitReturns, WaitRaises, Raise
  <1>4. CASE Inspect
    <2>1. CASE pc' = "quiesce"
      BY <1>0, <1>4, <2>1 DEF StepsAre, Inspect
    <2>2. CASE pc' # "quiesce"
      <3>1. WorkLeft' = WorkLeft - 3
        BY <1>4, <2>2 DEF Inspect, Raise, WorkLeft, IInv, TypeOK
      <3>2. pc' \in {"spawn", "enter", "wait", "publish"}
        BY <1>4, <2>2 DEF Inspect, Raise, Turn
      <3> QED BY <1>0, <1>4, <3>1, <3>2 DEF StepsAre, Inspect
    <2> QED BY <2>1, <2>2
  <1>5. CASE Quiesce \/ InterruptedQuiesce
    BY <1>0, <1>5 DEF StepsAre, Quiesce, QuiesceEnds, InterruptedQuiesce, QuiesceInterrupted,
       LeaveQuiesce
  <1>6. CASE Publish \/ Complete \/ Handle \/ FinalizeFailed
    <2>1. WorkLeft' = WorkLeft
      BY <1>6 DEF Publish, Complete, Handle, FinalizeFailed, WorkLeft
    <2> QED BY <1>0, <1>6, <2>1 DEF StepsAre, Publish, Complete, Handle, FinalizeFailed, Raise
  <1>7. CASE Interrupted
    BY <1>0, <1>7 DEF StepsAre, Interrupted, Raise
  <1>8. CASE ParentDies
    BY <1>0, <1>8 DEF StepsAre, ParentDies, IInv, TypeOK
  <1> QED BY <1>1, <1>2, <1>3, <1>4, <1>5, <1>6, <1>7, <1>8 DEF ParentWorks

\* A claimed run does not start, wait, quiesce or handle in circles, however its
\* children behave and whatever fails: after 11 + 7 (Masters + Lanes) steps of its own
\* the parent is over (_execute_claimed_q1, _wait_exact_processes, _quiesce_processes).
THEOREM ParentAlwaysAdvances == Spec => ParentAdvances
  <1>1. Init => StepsLeft = 11 + 7 * (Masters + Lanes)
    BY StepsFacts DEF StepsAre, Init, WorkLeft
  <1>2. IInv => StepsLeft \in Nat
    BY StepsFacts DEF StepsAre, IInv, TypeOK, WorkLeft
  <1>3. ASSUME \E w \in Workers : ChildStep(w)
        PROVE  UNCHANGED parentVars
    BY <1>3 DEF ChildStep, Answer, Begin, Finish, Crash, Overflow
  <1>4. IInv /\ [Next]_vars => [UNCHANGED parentVars \/ StepsLeft' < StepsLeft]_vars
    BY <1>3, ParentStepCounts DEF Next, Rest
  <1> QED BY <1>1, <1>2, <1>4, Invariance, PTL DEF Spec, ParentAdvances
=============================================================================
