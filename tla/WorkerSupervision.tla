-------------------------- MODULE WorkerSupervision --------------------------
(***************************************************************************)
(* A claimed Q1 run and its child processes (bench/active_acquisition      *)
(* q1.py: _run_q1_attempt after the claim, _execute_claimed_q1 and the     *)
(* process functions below it; worker_capability.py; restore_worker.py).   *)
(* The parent starts every producer and waits for all of them, then runs   *)
(* the restore lanes, a bounded number at a time, publishes their output   *)
(* and finalizes the marker.  Whatever goes wrong, it quiesces the         *)
(* children it has listed before it finalizes the marker as failed.  Only  *)
(* an interrupt can make it lose one.                                      *)
(*                                                                         *)
(* Children run on their own: one may exit, well or badly, or hang at any  *)
(* time.  SIGTERM and SIGKILL only make it likelier that a child exits,    *)
(* and either may fail, so they are left to that choice.  Every timeout    *)
(* may strike while the parent waits.  The file operations of the marker   *)
(* are those of AttemptRegistry; here it is its status.                    *)
(***************************************************************************)
EXTENDS Integers, FiniteSets

CONSTANTS Masters,         \* producers (MASTER_COUNT)
          Lanes,           \* restore lanes (a lane per master and arm)
          MaxConcurrency   \* restore lanes at a time (MAX_RESTORE_CONCURRENCY)

ASSUME SupervisionAssumption ==
    Masters \in Nat \ {0} /\ Lanes \in Nat /\ MaxConcurrency \in Nat \ {0}

VARIABLES pc,      \* how far the parent has come
          next,    \* the first worker that is not on a list yet
          head,    \* the first worker that was not waited for and inspected
          own,     \* a quiesce is for the worker being started, not for the list
          cause,   \* why the run fails: nothing yet, a failure, an unproven exit
          child,   \* the state of each process
          link,    \* the capability: nothing, delivered, acknowledged
          good,    \* workers that exited with status 0
          noisy,   \* workers whose output was seen to break its contract
          stray,   \* workers lost to an interrupt: not listed, or not quiesced
          marker,  \* the attempt marker on disk
          output   \* the output directory: none, under its incomplete name, published

parentVars == <<pc, next, head, own, cause, stray>>
childVars == <<child, link, good, noisy>>
diskVars == <<marker, output>>
vars == <<parentVars, childVars, diskVars>>

Workers == 1..(Masters + Lanes)
Producers == 1..Masters
Restorers == Workers \ Producers

Live == {"reading", "checking", "working"}
Quiet(w) == child[w] \in {"unborn", "reaped"}
Sound(w) == child[w] = "reaped" /\ w \in good /\ w \notin noisy

Failing == {"quiesce", "handle", "settle"}
Over == {"returned", "raised", "died"}
Starting == {"deliver", "acknowledge"}

Init ==
    /\ pc = "claimed" /\ next = 1 /\ head = 1
    /\ own = FALSE /\ cause = "none" /\ stray = {}
    /\ child = [w \in Workers |-> "unborn"]
    /\ link = [w \in Workers |-> "silent"]
    /\ good = {} /\ noisy = {}
    /\ marker = "started" /\ output = "none"

\* The list of the parent at head h, its first unlisted worker n: the producers
\* stay on theirs until all of them are waited for, a lane leaves when it is.
ListedAt(h, n) == (IF h <= Masters THEN 1 ELSE h)..(n - 1)
Scope == IF own THEN {next} ELSE ListedAt(head, next)

\* Bug: restore lanes are started as the producers leave, and without a bound.
RoomEager(h, n) == n <= Masters + Lanes

Room(h, n) ==
    IF h <= Masters THEN n <= Masters
    ELSE n <= Masters + Lanes /\ n - h < MaxConcurrency

\* What the parent does next when its list runs from h to n - 1.
Turn(h, n) ==
    IF Room(h, n) THEN "spawn"
    ELSE IF h <= Masters /\ h = 1 THEN "enter"
    ELSE IF h < n THEN "wait" ELSE "publish"

-----------------------------------------------------------------------------
(* Children *)

\* consume_worker_capability_fd: one capability in, one acknowledgement out.
Answer(w) ==
    /\ child[w] = "reading" /\ link[w] = "sent"
    /\ child' = [child EXCEPT ![w] = "checking"]
    /\ link' = [link EXCEPT ![w] = "answered"]
    /\ UNCHANGED <<good, noisy, parentVars, diskVars>>

\* The child works for a live parent and a started marker only.
Begin(w) ==
    /\ child[w] = "checking" /\ pc # "died" /\ marker = "started"
    /\ child' = [child EXCEPT ![w] = "working"]
    /\ UNCHANGED <<link, good, noisy, parentVars, diskVars>>

Finish(w) ==
    /\ child[w] = "working"
    /\ child' = [child EXCEPT ![w] = "exited"]
    /\ good' = good \cup {w}
    /\ UNCHANGED <<link, noisy, parentVars, diskVars>>

\* A refusal, an error, a signal.
Crash(w) ==
    /\ child[w] \in Live
    /\ child' = [child EXCEPT ![w] = "exited"]
    /\ UNCHANGED <<link, good, noisy, parentVars, diskVars>>

\* The capture thread sees output over the bound, or any on stdout.  Its poll
\* before it terminates the child reaps one that is no longer running.
Overflow(w) ==
    /\ child[w] # "unborn" /\ w >= head /\ w \notin noisy /\ pc \notin Over
    /\ noisy' = noisy \cup {w}
    /\ child' \in {child, [child EXCEPT ![w] = IF @ = "exited" THEN "reaped" ELSE @]}
    /\ UNCHANGED <<link, good, parentVars, diskVars>>

ChildStep(w) ==
    Answer(w) \/ Begin(w) \/ Finish(w) \/ Crash(w) \/ Overflow(w)

-----------------------------------------------------------------------------
(* The parent: starting and waiting *)

\* The parent raises for a reason of its own.
Raise(to) == pc' = to /\ cause' = "failure"

\* _execute_claimed_q1 makes the incomplete directory first.
Prepare ==
    /\ pc = "claimed"
    /\ \/ output' = "incomplete" /\ pc' = "spawn" /\ UNCHANGED cause
       \/ output' \in {"none", "incomplete"} /\ Raise("handle")
    /\ UNCHANGED <<next, head, own, stray, childVars, marker>>

\* _spawn_authenticated_worker up to Popen; before it nothing is to be undone.
Spawn ==
    /\ pc = "spawn"
    /\ \/ child' = [child EXCEPT ![next] = "reading"] /\ pc' = "deliver" /\ UNCHANGED cause
       \/ Raise("quiesce") /\ UNCHANGED child
    /\ UNCHANGED <<next, head, own, stray, link, good, noisy, diskVars>>

\* _write_all_descriptor
Deliver ==
    /\ pc = "deliver" /\ child[next] = "reading"
    /\ link' = [link EXCEPT ![next] = "sent"]
    /\ pc' = "acknowledge"
    /\ UNCHANGED <<next, head, own, cause, stray, child, good, noisy, diskVars>>

\* _read_capability_acknowledgement: the new worker is returned to the caller.
Acknowledged ==
    /\ pc = "acknowledge" /\ link[next] = "answered"
    /\ pc' = "append"
    /\ UNCHANGED <<next, head, own, cause, stray, childVars, diskVars>>

\* Bug: a worker whose start failed is not quiesced.
StartFailsBare ==
    /\ pc \in Starting
    /\ Raise("quiesce")
    /\ UNCHANGED <<next, head, own, stray, childVars, diskVars>>

\* The deadline, an early exit, a wrong answer or an interrupt: the worker is
\* quiesced by itself before the callers quiesce their list.
StartFails ==
    /\ pc \in Starting
    /\ own' = TRUE
    /\ Raise("quiesce")
    /\ UNCHANGED <<next, head, stray, childVars, diskVars>>

AppendToList ==
    /\ pc = "append"
    /\ next' = next + 1
    /\ pc' = Turn(head, next + 1)
    /\ UNCHANGED <<head, own, cause, stray, childVars, diskVars>>

\* An interrupt inside Popen with the child forked, before the returned worker is
\* on the list, or before _wait_exact_processes guards the list of producers: no
\* handler knows of the worker.
Interrupted ==
    /\ \/ pc \in {"deliver", "append"} /\ stray' = {next} /\ Raise("quiesce")
       \/ pc = "enter" /\ stray' = Producers /\ Raise("handle")
    /\ UNCHANGED <<next, head, own, childVars, diskVars>>

EnterWait ==
    /\ pc = "enter"
    /\ pc' = "wait"
    /\ UNCHANGED <<next, head, own, cause, stray, childVars, diskVars>>

\* _wait_authenticated_worker: the status of the first worker is collected.
WaitReturns ==
    /\ pc = "wait" /\ child[head] \in {"exited", "reaped"}
    /\ child' = [child EXCEPT ![head] = "reaped"]
    /\ pc' = "inspect"
    /\ UNCHANGED <<next, head, own, cause, stray, link, good, noisy, diskVars>>

\* Bug: the wait has no deadline.
WaitForever ==
    /\ pc = "wait" /\ child[head] \in {"exited", "reaped"}
    /\ Raise("quiesce")
    /\ UNCHANGED <<next, head, own, stray, childVars, diskVars>>

\* The deadline of the child or the stage, an error or an interrupt.
WaitRaises ==
    /\ pc = "wait"
    /\ Raise("quiesce")
    /\ UNCHANGED <<next, head, own, stray, childVars, diskVars>>

\* Bug: the output of a worker is not looked at.
InspectStatusOnly ==
    /\ pc = "inspect"
    /\ \/ /\ head \in good
          /\ head' = head + 1 /\ pc' = Turn(head + 1, next)
          /\ UNCHANGED cause
       \/ Raise("quiesce") /\ UNCHANGED head
    /\ UNCHANGED <<next, own, stray, childVars, diskVars>>

\* Its output and status must be sound; reading either may raise as well.
Inspect ==
    /\ pc = "inspect"
    /\ \/ /\ Sound(head)
          /\ head' = head + 1 /\ pc' = Turn(head + 1, next)
          /\ UNCHANGED cause
       \/ Raise("quiesce") /\ UNCHANGED head
    /\ UNCHANGED <<next, own, stray, childVars, diskVars>>

-----------------------------------------------------------------------------
(* The parent: quiescing *)

\* Seen are the workers that the polls of a quiesce reap.  The quiesce of one
\* worker is followed by that of the list, and that by the handler of the run.
LeaveQuiesce(seen) ==
    /\ pc = "quiesce"
    /\ child' = [w \in Workers |-> IF w \in seen THEN "reaped" ELSE child[w]]
    /\ own' = FALSE
    /\ pc' = IF own THEN "quiesce" ELSE "handle"
    /\ UNCHANGED <<next, head, link, good, noisy, diskVars>>

\* _quiesce_processes: terminate, grace, kill, grace, and a last look that reaps
\* what has exited by then.  The exit of the others is unproven, and so is that of
\* all when something raises inside.
QuiesceEnds(seen) ==
    /\ LeaveQuiesce(seen)
    /\ \/ (\A w \in Scope : child'[w] = "reaped") /\ UNCHANGED cause
       \/ cause' = "unproven"
    /\ UNCHANGED stray

\* An interrupt on the way into a quiesce, or after it in the finally clause that
\* waits for the captures: it takes the place of any error, an unproven exit too.
QuiesceInterrupted(seen) ==
    /\ LeaveQuiesce(seen)
    /\ cause' = "failure"
    /\ stray' = stray \cup {w \in Workers \ seen : ~Quiet(w) /\ (own => w = next)}

Exited == {w \in Scope : child[w] = "exited"}

Quiesce == \E seen \in SUBSET Exited : QuiesceEnds(seen)
InterruptedQuiesce == \E seen \in SUBSET Exited : QuiesceInterrupted(seen)

-----------------------------------------------------------------------------
(* The parent: the verdict *)

\* Merging, validation and the checks up to the rename may raise, and so may
\* the checks of the published directory after it.
Publish ==
    /\ pc = "publish"
    /\ \/ output' = "published" /\ pc' = "complete" /\ UNCHANGED cause
       \/ output' \in {"incomplete", "published"} /\ Raise("handle")
    /\ UNCHANGED <<next, head, own, stray, childVars, marker>>

\* finalize_attempt may raise with the final marker in place.
Complete ==
    /\ pc = "complete"
    /\ \/ marker' = "completed" /\ pc' = "returned" /\ UNCHANGED cause
       \/ marker' \in {"started", "completed"} /\ Raise("handle")
    /\ UNCHANGED <<next, head, own, stray, childVars, output>>

\* Bug: an unproven exit is handled like any other failure.
HandleAlways ==
    /\ pc = "handle"
    /\ IF marker = "started"
       THEN output' \in {output, "incomplete"} /\ pc' = "settle"
       ELSE pc' = "raised" /\ UNCHANGED output
    /\ UNCHANGED <<next, head, own, cause, stray, childVars, marker>>

\* _finalize_failed_q1_attempt: after an unproven exit, or when the directories
\* or the marker cannot be read, all is left as it is; a started attempt has its
\* output moved back under the incomplete name, which may fail.
Handle ==
    /\ pc = "handle"
    /\ \/ pc' = "raised" /\ UNCHANGED output
       \/ /\ cause # "unproven" /\ marker = "started"
          /\ output' \in {output, "incomplete"}
          /\ pc' = "settle"
    /\ UNCHANGED <<next, head, own, cause, stray, childVars, marker>>

FinalizeFailed ==
    /\ pc = "settle"
    /\ marker' \in {"started", "failed"}
    /\ pc' = "raised"
    /\ UNCHANGED <<next, head, own, cause, stray, childVars, output>>

ParentDies ==
    /\ pc \notin Over
    /\ pc' = "died"
    /\ UNCHANGED <<next, head, own, cause, stray, childVars, diskVars>>

-----------------------------------------------------------------------------
ParentWorks ==
    \/ Prepare \/ Spawn \/ Deliver \/ Acknowledged \/ StartFails
    \/ AppendToList \/ EnterWait \/ WaitReturns \/ WaitRaises \/ Inspect
    \/ Quiesce \/ Publish \/ Complete \/ Handle \/ FinalizeFailed

\* The run is over and no child is left to take a step.
Rest ==
    /\ pc \in Over /\ \A w \in Workers : child[w] \notin Live
    /\ UNCHANGED vars

Next ==
    \/ ParentWorks \/ Interrupted \/ InterruptedQuiesce \/ ParentDies
    \/ \E w \in Workers : ChildStep(w)
    \/ Rest

\* The parent's deadlines let it run on whatever the children do: nothing is
\* assumed of a child.
Spec == Init /\ [][Next]_vars /\ WF_vars(ParentWorks)

-----------------------------------------------------------------------------
(* Properties *)

TypeOK ==
    /\ pc \in {"claimed", "spawn", "append", "enter", "wait", "inspect", "publish", "complete"}
              \cup Starting \cup Failing \cup Over
    /\ next \in 1..(Masters + Lanes + 1) /\ head \in 1..next
    /\ own \in BOOLEAN /\ cause \in {"none", "failure", "unproven"}
    /\ child \in [Workers -> Live \cup {"unborn", "exited", "reaped"}]
    /\ link \in [Workers -> {"silent", "sent", "answered"}]
    /\ good \subseteq Workers /\ noisy \subseteq Workers /\ stray \subseteq Workers
    /\ marker \in {"started", "completed", "failed"}
    /\ output \in {"none", "incomplete", "published"}

\* A final marker means that no child of the run is left but those an interrupt
\* lost, and a completed one that none is left at all (_finalize_failed_q1_attempt
\* after _quiesce_after_failure; the completion in _run_q1_attempt).
VerdictMeansQuiet ==
    /\ marker # "started" => \A w \in Workers : Quiet(w) \/ w \in stray
    /\ marker = "completed" => \A w \in Workers : Quiet(w)

\* What the design promises of every parent-side error (docs/wm002-q1-runtime-
\* design.md:607-610: "terminate, kill if needed, and reap all started children
\* before a failed marker is finalized"), with no exception for interrupts.
FailedMeansReaped == marker = "failed" => \A w \in Workers : Quiet(w)

\* No more than MaxConcurrency restore lanes run at a time, and they find what
\* every producer left after it succeeded.
RestoresBounded ==
    /\ Cardinality({w \in Restorers : ~Quiet(w)}) <= MaxConcurrency
    /\ (\E w \in Restorers : child[w] # "unborn") => \A m \in Producers : Sound(m)

\* Output under the final name, and a completed marker, rest on workers that all
\* succeeded and kept their output contract.
PublishedIsWhole ==
    /\ output = "published" => \A w \in Workers : Sound(w)
    /\ marker = "completed" => output = "published"

\* The marker and the output stay as they are while a child may run that no
\* interrupt lost, and once an exit is unproven (Q1ChildQuiescenceError in
\* _finalize_failed_q1_attempt; publication after the last worker).
UnprovenIsLeft ==
    [][cause = "unproven" \/ (\E w \in Workers \ stray : ~Quiet(w))
       => UNCHANGED diskVars]_vars

\* The run touches its marker only as its owner may: it decides once, and does
\* not report a completion that it could still lose (the calls of
\* finalize_attempt in _run_q1_attempt and _finalize_failed_q1_attempt).
Promise == INSTANCE OneShotMarker WITH
    Runs <- {"run"}, None <- "none", owner <- "run", status <- marker,
    settled <- pc = "returned", told <- pc = "returned"

OwnsOneShot == Promise!OwnedSpec

\* The parent comes to an end, whatever its children do.
EveryAttemptEnds == <>(pc \in Over)

=============================================================================
