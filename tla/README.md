# Verification of the Prospect runtime

Prospect is a library for an agent that decides, acts, observes, revises a belief and
sometimes changes its own model. Its core, `src/src/prospect` (6,000 lines of Python), is
a set of small mutable owners that threads call under re-entrant locks, between immutable
records that check one another in their constructors. Around it stand the experiments of
`src/bench`: most of them compute or check data, but some keep state that has to survive
failures, kills and losses of power. This directory models the control of both as TLA+,
checks it with TLC on small instances and proves the central facts with TLAPS for every
instance.

## The system

| Part | State | Operations | Hard behaviour | What makes it correct |
|---|---|---|---|---|
| `EpistemicAgent.learn` (runtime/agent.py) | none of its own | freeze inputs, let the learner work, validate, commit over three owners or compensate | other learners and interactions between any two of its lock sections; a commit stage that fails before or after its effect; three nested locks | the update is atomic to everyone else; what fails leaves no trace; compensation is never refused; no lost update; every call ends |
| `EpistemicAgent.decide`, `observe`, `interact` | none of its own | snapshot, register; look up, consume, store, derive, assimilate, account, index, journal | observe is ten lock sections without a common lock; retries; backends that fail | a decision is used once; the belief rests on stored evidence; the journal tells the truth |
| `AgentState` (runtime/state.py) | belief, versions, pending decisions, last receipt, last time, generation, resources | snapshot, register, consume, assimilate, add_resource, prepare/commit/rollback of a receipt | stale priors, stale receipts, stale rollback tokens | a snapshot can always be taken |
| `EpistemicLedger` (storage/ledger.py) | transitions, receipts, their last times, generation | append_transition, prepare/commit/rollback of a receipt, rehydration | rollback after another append; references into a decoded copy | receipts refer to stored transitions; rollback removes exactly its receipt; a restart leads every reference back to the canonical object |
| `VersionedModelOwner` (runtime/learning.py) | version and bytes, one reservation | snapshot, prepare, commit, rollback of a swap | version labels that come back | bytes are replaced only by whoever read them |
| `InMemoryExperienceStore` (storage/memory.py) | events by id, step, agent | append, find_step | competing appends of one step | one event per step, in order |
| `LifecycleJournal` (runtime/journal.py) | records per step | append_stage, append_failure | callers that interleave | stages in order, a failure closes a step |
| Domain records (domain/records.py) | immutable | constructor checks | checks that do not compose | used by all of the above |
| `TensorDictExperienceReplay` (storage/torchrl_replay.py) | a bounded buffer, the identities it has seen | add, dump, load | a write that raises after it wrote; eviction | an event is indexed once and is one of the store |
| A restarted lane (bench parity.py: `_restore_checkpoint_state`) | what store, ledger, replay and agent hold | events, transitions, receipts, replay and counter rebuilt in this order | restart at any time, several times | no record of a bundle is refused; what resumes is what was saved, over canonical objects |
| `CheckpointCoordinator` (storage/checkpoint.py), `CounterIdentitySource` (decision/policy.py) | files; a counter | save, load, restore; next | crashes and failures between any two file operations, overlapping saves, half-done restores | the path holds a complete bundle; a saved bundle survives; a restored agent repeats no identity |
| One-shot attempt registry (bench/active_acquisition/attempt.py) | the marker file, a lock | claim, finalize, handle a failure | competing processes, crashes between claim and finalize, a failure after the final marker is in place | one attempt; durable; final once |
| The claimed Q1 run (q1.py, worker_capability.py, restore_worker.py) | child processes, their capabilities, the output directory | spawn, handshake, wait, inspect, quiesce, publish, settle | children that hang, fail late or overflow; deadlines; interrupts | no verdict while a child may write (an interrupt can break this, see Findings); nothing partial is published; every run ends |
| The accepted-binding rehearsal (bench/world_model_lifecycle/launch_bootstrap.py) | seven linked or staged files in four directories | claim, dispatch one child, publish, complete, recover, launch the formal producer | a kill, failure or loss of power at any file operation; formal authority that appears meanwhile | one child; a truthful, exact package; no formal run without it; every claim is settled |
| domain graph codec, estimates, statistics, audit and adjudication | none | pure functions | | out of scope, see below |

Callers hold the agent; the agent calls the owners; nothing calls back. The only state
shared by threads is in the owners, and the only lock nesting in the core is a learning
commit: state, then ledger, then model. The experiments share nothing but files.

## Modules

- **AgentState, EpistemicLedger, ModelOwner, ExperienceStore, LifecycleJournal** hold no
  variables: each gives the state of one owner as a record or sequence and one operator per
  method, `...Accepts` for its guard and a plain name for its effect. The two state
  machines below use the same operators, so a method is translated once.
- **LearningTransaction** models `learn` with every lock section as an action
  (`CheckInputs`, `TakeSnapshot`, `ReadModel`, `Propose`; `LockState`, `LockLedger`,
  `LockModel`, `Preflight`, `CommitLedger`, `CommitState`, `CommitModel`; `RollbackModel`,
  `RollbackState`, `RollbackLedger`; `Unlock`) and the lock sections of `decide` and
  `observe` they can fall between. `pc` is the point a call has reached, `work` its local
  variables, `lock` the owner of each participant's lock while a commit holds it. A commit
  stage may succeed, fail before its effect, or fail after it (the comment at agent.py
  570-573 promises both are handled). The learner is any function that returns a receipt
  the `UpdateReceipt` constructor admits; the observation of an interaction may be new or one
  the belief rests on already (`Observations`), since nothing makes its identity new. `OwnsModel` selects between
  `_commit_model_learning_transaction` and `_append_and_apply_receipt`.
- **AtomicLearning** is what learning promises: belief, versions, last receipt, the list of
  receipts and the model bytes change together in one step or not at all.
  `CommitIsAtomic` says LearningTransaction implements it. The refinement mapping shows the
  values before the commit from the end of the preflight until the locks are about to be
  released with an outcome; so the whole transition, or nothing, becomes visible in one
  step, and no intermediate failure or compensation is seen.
- **OneShotMarker** is what a registry promises and what its owner may do: a run claims, decides
  once, and loses an outcome in a crash only before it was settled; it is told of a completion only
  when it is. `IsOneShot` says AttemptRegistry implements it (owner: the claimed run; status: the last marker
  of the name; settled: that marker's name is durable), `OwnsOneShot` that WorkerSupervision does, from its claim on,
  and `DecidesOnce` that BindingRehearsal does (status: what completion or terminal says; settled: one of
  the two is on the disk; told: the formal producer was started).
- **AtomicCheckpoint** is what checkpoints promise: saving is one step that records identities of the running
  agent and a counter beyond them, a crash takes only saves that have not returned, and a process comes
  up with the whole of the last record. `SavesAreAtomic` says CheckpointBundle implements it: the
  rename of a complete archive is the step.
- **InteractionLifecycle** models `decide` and `observe` in full, with the experience
  store, the replay index and the journal; a learning commit is one step of it, as
  `CommitIsAtomic` justifies. `Concurrent` chooses between calls that run one after
  another and calls that overlap. Here evidence is told apart by the
  experience it came with: all that a repeated observation changes is that later snapshots raise,
  before anything is written, and a call that is never made is a behaviour of this model too.
- **RestartRecovery** models the records of one agent through several processes: `Observe`,
  `IndexAgain`, `Learn` and `Save` of a running one; `Restart` at any time;
  `RestoreEvent`, `RestoreTransition` (`append_rehydrated_transition`), `RestoreUpdate`
  (`append_rehydrated_update`) and `Resume` of a restoring one. What the code compares by
  object identity is modelled as content together with the graph the object belongs to:
  decoding makes copies in graphs of their own, and rehydration has to lead every reference
  back. `buffer`, `seen` and `torn` are the replay index.
- **CheckpointBundle** models `CheckpointCoordinator.save` with every file operation as an
  action (`Refuse`, `CreateTemp`, `CloseTemp`, `WriteEntry`, `SyncFile`, `Replace`,
  `SyncDirectory`, `StepRaises`), `load` and `restore` (`Restore`, `RefuseRestore`, `RestoreComponent`,
  `RestorerRaises`, `Resume`), and what is saved: the stored records and the identity
  counter whose identities they carry (`NextId`, `StoreRecord`, `Capture`). A process may be
  killed or lose power at any point (`Kill`, `PowerLoss`) and comes back with fresh components.
- **AttemptRegistry** models `claim_attempt` and `finalize_attempt` with every file operation
  as an action, under the exclusive `flock` of the registry (`holder`), and the run that calls
  them in `_run_q1_attempt`: `Work` is the experiment, `HandleFailure` is
  `_finalize_failed_q1_attempt`. `named` lists the files that had the marker's name in order;
  its last element is what the path names.
- **WorkerSupervision** opens up that `Work`: `Spawn`, `Deliver`, `Acknowledged`,
  `AppendToList`, `WaitReturns`, `Inspect`, `Publish`, `Complete` are the parent's way
  through producers and restore lanes; `StartFails`, `WaitRaises`, `Quiesce`, `Handle`,
  `FinalizeFailed` its way out. `Interrupted` and `InterruptedQuiesce` are the interrupts that
  take a child from it; `stray` names these children. `Answer`, `Begin`, `Finish`, `Crash`, `Overflow` are the
  children, who may also do nothing for ever. `next` and `head` place the parent's list.
  The marker is its status: its file operations are those of AttemptRegistry.
- **BindingRehearsal** models the launch protocol of the rehearsal with every creation,
  link, removal and fsync as an action (`Enter` or `Create`, `WriteBytes`, `FinishWrite`, then
  `Sync`; a file is "torn", then "soft" when its bytes are written, "whole" when they are synced):
  `_prepare_rehearsal_namespace` (`Launch`, `MakeAttempt`, `WriteClaim`, `LinkMarker`, `Refuse`,
  `Resume`), `_run_accepted_binding_rehearsal` (`Authorize`, `Start`, `Dispatch`, `Collect`,
  `WriteSidecar`, `Validate`), `_publish_rehearsal_terminal` (`Stage` to `Close`),
  `_recover_accepted_binding_rehearsal` (`Restage`, `Unalias`, `Reopen`) and the launch of the
  formal producer. `fs` is what the system sees, `disk` what a loss of power surely leaves.
- **MC...** modules hold symmetry sets and instance data; **...Proofs** modules hold the
  theorems.
- Operators whose comment starts with "Bug:" are not part of the specification. Each is a
  plausible mistake in the definition below it; putting it in that definition's place
  makes TLC find the property named with it in PROJECT.json violated. They show that the
  properties can fail.

### How they compose

The modules meet at four seams, each an abstraction one module makes and another justifies:
a learning commit is one step of InteractionLifecycle and RestartRecovery because
LearningTransaction implements AtomicLearning; the marker is one variable of
WorkerSupervision because AttemptRegistry implements OneShotMarker, and WorkerSupervision uses it
as the owner of one (the rehearsal, which has no registry, implements it by itself); a bundle is there or not in RestartRecovery because CheckpointBundle implements
AtomicCheckpoint; and
the owners' operators are shared text.

### Abstractions

- A belief is its identity, model version, evidence and time of formation; a receipt is its
  versions, source transition, resulting belief and time. One `model` version stands for
  model and representation, one `policy` version for policy and configuration: the code
  treats the members of each pair alike.
- Time is one clock with ticks `0..MaxTick`. The snapshot of a decision is dated by the
  decision: `decide` accepts any later tick wherever it accepts an earlier one, so nothing
  is lost. `updated_at` of a belief update is the posterior's `formed_at`; `created_at` of the
  transition may be later. The comparisons of an information set's `as_of` follow its
  evidence and have no conjunct.
- A learn call consumes one transition; the constructor checks of a receipt look only at
  the last of the list and at the order of times. In RestartRecovery, where the references of
  a receipt matter, it consumes every transition from some one on.
- Environment, belief updater, scorer and learner are interfaces: any result that the record
  constructors admit. Mismatched agents, tasks or clocks raise before anything changes and
  are left out.
- Files: bytes survive a loss of power from their fsync on. In CheckpointBundle and
  AttemptRegistry renames and creations survive in the order they were made, all of them from
  an fsync of the directory on, any prefix of the later ones. In BindingRehearsal, with several
  directories, any subset of what was not synced survives. Names that `mkstemp` gives are
  distinct. An unlink, and a close before it, may raise.
- A file of the rehearsal that was written and not synced can be torn by a loss of power. What is
  left of a record (stdout, stderr, receipt) is "spoiled" if a terminal tells of its bytes already;
  otherwise the terminal will tell of what is left, and it counts as whole.
- An archive is its entries in order and the directory it is closed with. Hashes, sizes and
  canonical encodings detect damage from outside, which no modelled step does. `restore` is
  modelled with `require_all=True`, the default no caller changes.
- The bundle of CheckpointBundle has the two components whose relation matters, captured in the
  order in which the callers read them (`dump_q1_checkpoint`: records before the counter).
- A marker is its status and the run whose capability it commits to. The checks of modes,
  owners and link counts are refusals that `ClaimRaises` and `FinalizeRaises` allow anyway.
- Signals to a child are left to the child's own choice to end; each timeout is a choice while
  the parent waits. A torn write of the replay buffer is one that raised after it wrote.
- Sources and binding of the rehearsal do not change and nobody puts foreign files into its
  directories, so the checks on these pass; `Fault` is any failed call or check.
- Rolling back and raising are modelled as the code does them, including a compensation
  that raises itself (`torn`): that this is unreachable is a theorem.

## Runs

| Run | Instance | Shows |
|---|---|---|
| learning_commit | 2 learners, 1 interaction, 2 versions, 2 ticks | participants agree, snapshots can be taken, compensation never refused, all or nothing, refinement of AtomicLearning |
| learning_lineage | 3 learners, 2 versions, 1 tick, weak fairness; 28,169 states | no commit over bytes its learner did not read, though the label v0 is free again after two commits; every call ends |
| learning_rollback_receipt | 2 learners that may return ROLLED_BACK | **violated**: see Findings |
| learning_repeated_observation | 1 learner, 1 interaction, no model, 1 tick | **violated**: see Findings |
| interaction_concurrent | 2 decisions, 2 observations, 1 learner, 2 steps of an episode, 2 ticks; 1,544,823 states | what survives overlap: decisions used once, sound journal, backed belief, complete returns; for callers that have taken turns so far, an exact journal |
| interaction_journal_race | 2 decisions, 2 observations, overlapping | **violated**: see Findings |
| restart_recovery | buffer of 2, 4 identities, 1 torn write, 3 lives; 282,885 states | canonical references, nothing refused, a faithful buffer, what was saved is restored |
| checkpoint_crash | 2 saves to one path, 3 identities, 2 crashes | complete and durable bundles, fresh identities, nothing left beside a returned save, refinement of AtomicCheckpoint |
| attempt_one_shot | 3 runs, 2 losses of power, any number of kills, weak fairness | one attempt, a durable marker, final once, no leftover beside a final marker, every run ends, refinement of OneShotMarker |
| worker_supervision | 2 producers, 3 restore lanes, 2 at a time, weak fairness of the parent; 22,987 states | verdicts only over quiet children but for those an interrupt lost, whole output, bounded restores, every attempt ends |
| worker_interrupt | the same | **violated**: see Findings |
| binding_rehearsal | 3 faults of any kind, weak fairness; 172,274 states | one child, exact and truthful packages, earned authority, no downgrade, every claim settled |

Why the bounds are enough: two learners give every conflict of two commits and the third of
learning_lineage the return of a label; one interaction gives an assimilation between any two
sections of a commit. Two observations give competition for one decision and one step, or a
retry after a failure. Two steps of an episode give order and termination. Two ticks
distinguish "earlier" from "same time", the only distinctions the code makes. Runs with one
tick are those whose property does not depend on a refused time. `MaxTick` and the sets of
calls (each runs once) are the only bounds of the agent's modules.

One run serves callers that overlap and callers that take turns: MCInteractionLifecycle remembers in
`overlapped` whether any call was begun while another was under way, and `JournalExactInTurn` asks
for an exact journal where none was. The shorter commit path without an owned model has no run
of its own that passes: the theorems hold for both values of `OwnsModel`, and
learning_repeated_observation runs through that path.

Two saves give an overtaking and a failure over an earlier bundle; two crashes a restore, work, a
save and a second restore; three identities one in the bundle, one stored after it and one still
to be given out. Three runs give one that claims, one that waits for its lock and one that comes
after both; two losses of power hit the claim and the finalization of the same history. Three
lives give a restore of what was itself restored, four identities two events, a receipt and one
more after a restart, and a buffer of two an eviction. Three lanes, two at a time, give a lane
that has to wait and one that is still running when another fails. Three faults give an
interrupted launch, an interrupted recovery and one recovery more. `MaxId`, `MaxTorn`,
`MaxLives`, `MaxCrashes`, `MaxPowerLosses` and `MaxFaults` are bounds of the instances; the theorems hold
for every value of them.

The calls of an `MC` run are interchangeable, so symmetry is used where there is no liveness
and nothing is ordered. Deadlock is checked in every run: `Finished` and `Rest` are enabled only
when every call has ended, only unstarted calls are left, or the bounds are reached; a rehearsal
can always be launched again. Types are proved for every state machine and checked by no run.

### Fairness

`EveryCallEnds` assumes weak fairness of each thread: a thread that can go on does. This is what
an operating system gives. Locks are not assumed fair; a call takes each lock a bounded number
of times, so nobody can be overtaken for ever. Failing stages are choices, never forced. It is
checked with learners only: the observers of the model take a lock once each and add no waiting
of another kind. `EveryRunEnds` assumes the same of each process that was started, unless it is
killed, and that the kernel releases the lock of a process that ends. `EveryAttemptEnds` assumes
that the parent goes on, and nothing of its children: its deadlines are what ends a wait.
`ClaimIsSettled` assumes that a launcher goes on, that the operator starts it again after an
interruption (docs/wm001-v1200-operator-runbook.md 1181-1192 tell him to) and that the child
ends; faults are finitely many.

### What the properties are about

- `ParticipantsAgree`: outside a commit, owned bytes, version of the state and last receipt of
  state and ledger agree, and no reservation is left.
- `SnapshotCoherent`: the model version of the belief is that of the state, and no sequence of
  learning and assimilation of new observations leaves a belief that the `AgentSnapshot`
  constructor refuses. The delicate case is a decision taken before a commit and assimilated after
  it. `DescendantsExtend`: what the constructor asks of a belief that is later than the last
  receipt, without the condition that its observation was new; the code does not keep it (Findings).
- `AllOrNothing`, `CommitIsAtomic`: per call, and as a refinement.
- `LineageUnbroken`: consecutive receipts continue one another, down to the bytes.
- `RollbackAlwaysPossible`: the generation and identity checks of the three rollbacks never
  refuse.
- `DecisionUsedOnce`, `BeliefIsBacked`, `JournalSound`, `ReturnedIsComplete`, `JournalExact`: what
  a caller may conclude from a decision, a belief, a record of the journal, a returned call, and
  the whole journal of an agent at rest. Only the last needs callers not to overlap. `JournalSound`
  speaks of the stages a history shows; a second record of the same stage would be seen by
  `JournalExact` only. The replay index of this model fails before it writes; `ReplayIsFaithful`
  has the write that raises afterwards.
- `LinksAreCanonical`, `NothingIsRefused`, `ReplayIsFaithful`, `RestoredIsSaved`: after any number of
  restarts references lead to the owners' own objects, the checks that reject a wrong record
  reject none of a saved one, the replay buffer holds events of the store once each up to torn
  writes, and a process resumes with all that was saved.
- `PathIsComplete`, `SavedSurvives`: the path never names a bundle that `load` refuses, and only a
  later rename replaces a saved one. `ReturnedLeavesNoTemp`: a save
  that returned left no temporary file, and no crash brings one back. A save that raised may leave
  its file: `os.close` at 341 stands before the `try`, and the handler's unlink may raise.
- `IdsAreFresh`, `SavesAreAtomic`: the counter of a resumed process is beyond every identity it
  holds, and the process has all of one bundle, saved in one step. The delicate case is an identity given out and stored while
  the components of the bundle are read.
- `OneAttempt`, `MarkerStands`, `FinalOnce`, `ReturnedIsCompleted`: the marker as seen by
  competing runs, by its owner, by a failure handler and after a crash. `LeftoverMeansStarted`:
  a finalization that cannot remove its temporary file (a close that raises at 386 is tried again
  at 406, before the unlink) blocks the one that follows it in the same process, which the name
  cannot tell apart; so the marker stays started, and a leftover never lies beside a final one. `FinalOnce` excepts a loss of
  power, which may bring the started marker back when the directory was not synced yet; `IsOneShot` says that it
  does so only to an outcome nobody was told of.
- `VerdictMeansQuiet`: a final marker means that every child is gone that no interrupt lost, and a
  completed one that every child is. `FailedMeansReaped`: the same for a failed marker without the exception, as the
  design document has it; the code does not keep it (Findings). `UnprovenIsLeft`: a child whose
  exit cannot be proved freezes marker and output, unless an interrupt replaces the error that says so. `RestoresBounded`, `PublishedIsWhole`: restores run over sound producers, a
  bounded number at a time, and only sound output gets the final name.
- `OneChild`, `EvidenceIsTruthful`, `PackageIsExact`, `NeverDowngraded`, `AuthorityIsEarned`: a rehearsal
  dispatches one child whatever happens, its terminal says what became of it, a completion
  stands on the whole package, a published decision stays, and the formal producer starts only
  from an accepted one. `ClaimIsSettled`: a claim with one name on the disk that no loss of power can tear
  comes, by relaunching, to a completion or to one of the three states that recovery refuses
  for good (`Retired`).

## Proofs

TLAPS proves these for every value of the constants that satisfies the assumptions of the modules.
These only say that sets of calls do not overlap, bounds are numbers and a `None` is no call:
`CallsAssumption`, `VersionsAssumption`, `StatusesAssumption`, `OwnsModelAssumption`,
`MaxTickAssumption`, `NoneAssumption` of LearningTransaction; `CallsAssumption`,
`ContextsAssumption`, `OptionsAssumption`, `MaxTickAssumption` of InteractionLifecycle;
`BoundsAssumption` of CheckpointBundle, `RegistryAssumption` of AttemptRegistry,
`SupervisionAssumption` of WorkerSupervision, `RecoveryAssumption` and `NoReceiptAssumption` of
RestartRecovery, `RehearsalAssumption` of BindingRehearsal. The number of calls, saves, runs,
children, versions, ticks, identities, crashes and faults is arbitrary.

| Theorem | Property | Inductive invariant |
|---|---|---|
| LearningTransactionProofs!TypeCorrect | types | `TypeInv`: types, and a prepared receipt is one the constructor admits |
| LearningTransactionProofs!RollbackNeverRefused | RollbackAlwaysPossible | `CustodyInv` |
| LearningTransactionProofs!ParticipantsAlwaysAgree | ParticipantsAgree | `AgreeInv` on top of it |
| LearningTransactionProofs!NeverDeadlocked, CallsAlwaysAdvance | the safety half of EveryCallEnds | `CustodyInv`, `HolderInv`; the steps a call has left |
| LearningAtomicityProofs!CommitAlwaysAtomic | CommitIsAtomic | `ViewInv`, `KnowledgeInv` on top of these |
| LearningAtomicityProofs!AlwaysAllOrNothing, LineageNeverBroken, SnapshotAlwaysCoherent | AllOrNothing, LineageUnbroken, SnapshotCoherent | `HistoryInv` on top of these |
| InteractionLifecycleProofs!InteractionTypes, DecisionAlwaysUsedOnce, JournalAlwaysSound, BeliefAlwaysBacked, ReturnedAlwaysComplete | TypeOK, DecisionUsedOnce, JournalSound, BeliefIsBacked, ReturnedIsComplete | `IInv` |
| InteractionLifecycleProofs!JournalAlwaysExact (callers take turns) | JournalExact | `TurnInv` on top of it |
| RestartRecoveryProofs!RecoveryTypes, LinksAlwaysCanonical, NothingEverRefused, ReplayAlwaysFaithful, RestoredIsWhatWasSaved | types, LinksAreCanonical, NothingIsRefused, ReplayIsFaithful, RestoredIsSaved | `IInv` |
| CheckpointBundleProofs!CheckpointTypes | types | `TypeInv` |
| CheckpointBundleProofs!PathAlwaysComplete, SavedAlwaysSurvives | PathIsComplete, SavedSurvives | `DiskInv` |
| CheckpointBundleProofs!IdsAlwaysFresh | IdsAreFresh | `IdInv` |
| CheckpointBundleProofs!ReturnedAlwaysClean, SavesAlwaysAtomic | ReturnedLeavesNoTemp, SavesAreAtomic | `SaveInv` on top of all three |
| AttemptRegistryProofs!RegistryTypes, OnlyOneAttempt, MarkerAlwaysStands, ReturnedStaysCompleted | types, OneAttempt, MarkerStands, ReturnedIsCompleted | `IInv` |
| AttemptRegistryProofs!LeftoverAlwaysStarted, FinalNeverChanges, RegistryIsOneShot | LeftoverMeansStarted, FinalOnce, IsOneShot | `WorkInv` on top of it |
| AttemptRegistryProofs!LockIsReturned, RunsAlwaysAdvance | the safety half of EveryRunEnds | `WorkInv`; the steps a run has left |
| WorkerSupervisionProofs!SupervisionTypes, VerdictAlwaysMeansQuiet, RestoresAlwaysBounded, PublishedAlwaysWhole, UnprovenAlwaysLeft | types, VerdictMeansQuiet, RestoresBounded, PublishedIsWhole, UnprovenIsLeft | `IInv` |
| WorkerSupervisionProofs!MarkerUsedAsOwner | OwnsOneShot | `IInv` |
| WorkerSupervisionProofs!ParentAlwaysAdvances | the safety half of EveryAttemptEnds | `IInv`; the steps the parent has left |
| BindingRehearsalProofs!RehearsalDecidesOnce | DecidesOnce | `IInv` |
| BindingRehearsalProofs!LaunchesAlwaysAdvance | part of ClaimIsSettled: a launch ends | `IInv`; the steps a launcher has left |
| BindingRehearsalProofs!RehearsalTypes, OneChildEver, EvidenceAlwaysTruthful, PackageAlwaysExact, AuthorityAlwaysEarned, NeverDowngradedEver | types, OneChild, EvidenceIsTruthful, PackageIsExact, AuthorityIsEarned, NeverDowngraded | `IInv` |

- **RollbackNeverRefused.** That no rollback is refused says nothing of the states before a
  rollback. `CustodyInv` does: a call past its preflight holds the locks it took (`LockInv`), and
  each participant is either as the commit found it or exactly one step ahead, by this call's
  receipt (`Compensable`). A rollback's checks compare with just these two cases.
- **ParticipantsAlwaysAgree.** `AgreeInv` adds that a receipt about to be committed fits the model
  it was made from, that a reservation exists only in a commit, and what the rollback tokens
  remember; agreement itself is claimed only while no commit is under way (`Quiet`).
- **CommitAlwaysAtomic.** `ViewInv` says that what a commit has changed is what it remembers with
  its receipt applied, so that the mapped state does not move while it works. The lemma `StepView`
  sorts the steps of the detailed specification: each leaves the mapped state still, moves its
  clock, assimilates an observation or commits a receipt, and these are a stutter or a step of
  AtomicLearning. `KnowledgeInv` supplies the guards: which beliefs, transitions and receipts a
  call can know.
- **SnapshotAlwaysCoherent** assumes that learners return no `ROLLED_BACK` receipt, and speaks of
  the evidence only while the observation of the current belief was new; the findings
  below show that both conditions are needed. `HistoryInv` follows the version a belief was made
  under along the receipts.
- **InteractionLifecycleProofs.** `IInv` says what a call has written by the point it has reached
  (`WrittenInv`), what it works with (`CallInv`), that an identity names one record whose belief
  rests on stored evidence (`RecordInv`), and that a call about to store holds a decision nobody else
  has (`UseInv`). The delicate part of `BeliefIsBacked` is a decision that is older than the
  belief it leads to: assimilation checks that the prior is the current belief, and by `RecordInv` an
  equal identity is an equal belief.
- **JournalAlwaysExact** (`JournalExactInTurn` of interaction_concurrent is its small instance) assumes that callers take turns (`~Concurrent`) over a store that offers
  `find_step`; the finding below shows that overlapping callers break it. `Stand` says where the only call
  under way stands: how its history ends and what it has written and not recorded yet. Steps
  nobody is at work on are exact (`RestExact`), the identity of a call is new to each participant
  until the call writes it there (`FreshInv`), and an applied step is counted before it is recorded
  (`Counted`). Nearly all of the proof shows that no record of such a call is ever refused.
- **RestartRecovery.** A restoring process holds prefixes of the bundle, by content, over objects
  of its own. The next record fits after them because it did so when it was first stored: the
  order of identities and the references of the bundle are those of a process that ran.
- **Bundles.** `DiskInv`: an archive that was renamed is complete and synced, and a save that
  returned lies within the durable prefix of the renames. A crash cuts behind that prefix, so
  what is left on the path is complete. `IdInv`: every bundle that is complete in memory is
  sound by itself, and one that has its records but not its counter yet is below the live
  counter, which only grows while the process is up.
- **Registry.** `OneAttempt` compares two runs and is not inductive: nothing in it says which of
  them the marker belongs to. `RunInv` ties every claimed run to the first file that had the
  marker's name, which is durable and synced; `NameInv` says a second file is a final
  marker of the same run; `LockInv` that a run inside a claim or a finalization holds the lock,
  so that no other run comes between the reading and the replacing of the marker.
- **RegistryIsOneShot.** A claim is seen when the directory with the marker was synced (`ClaimReturns`), a decision when the
  final marker is renamed, its settling when the directory is synced. Whatever a finalization does before its
  rename, and every kill, is a stutter; a loss of power is one too, or takes a decision that was not
  settled. `WorkInv` says whose each temporary name is, that the marker a finalization replaces is the one it read, and
  that the lock is with a run that is between taking it and giving it back.
- **SavesAlwaysAtomic.** The rename saves what was captured earlier, piece by piece, while the agent went on.
  `SaveInv` says that until then the pieces stay behind the agent's records and counter, and `IdInv` that they fit each other.
- **What the liveness properties rest on.** That a step is possible where a call is not over is a matter of ENABLED and
  stays with TLC. The rest of the argument is proved. `CallsAdvance`, `RunsAdvance`, `ParentAdvances` and `LaunchesAdvance` count the steps a call, a run,
  the parent or a launcher has left: every step of it lowers the number and no other step raises it
  (of a launcher, a failed call may, which returns it to the records of the run), so no retry, compensation or handler goes round in
  circles. `NoDeadlock` and `LockIsReturned` say that a lock is only with a call that is still going to give it back; in
  a learning commit, which nests three, its holder finds every lock it still needs free: another commit that
  had one would have the state's lock as well.
- **WorkerSupervision.** Workers before `head` are sound, workers from `next` on are not born but
  for the one being started, so what may be alive is the parent's list: that is what a quiesce
  covers, and a failure that reaches the handler without an unproven exit has quiesced it, or an
  interrupt has put what was alive among the `stray`.
- **BindingRehearsal.** Eight parts in the order of the argument: the claim makes a second child
  impossible (`ClaimInv`), a terminal is published once (`PublishInv`), what it says is tied to formal
  authority (`AuthorityInv`, `AuthorityIsEarned`) and to the child (`EvidenceInv`, `TruthInv`), and every file a
  terminal stands on was on the disk before it (`DurableInv`, `PackageIsExact`). For a terminal that
  recovery makes, the last is not true of the claim and the records it finds: these may be soft, and `DurableInv` says
  so; what an accepted terminal stands on is whole. Lemma `PowerFacts` says once what a loss of
  power leaves of each file, and every part takes that case from it.
- **RehearsalDecidesOnce.** Linking the terminal decides; linking the completion repeats the decision, and a sync
  settles it. A loss of power may take both names only before either is on the disk (`PublishInv`), and
  cannot leave a terminal beside a completion that says something else (`DurableInv`), so a step leaves
  the verdict as it was or leaves none.

Only model-checked: liveness (`EveryCallEnds`, `EveryRunEnds`, `EveryAttemptEnds`, `ClaimIsSettled`) and everything
that needs ENABLED, which the prover does not handle. Every other property of a passing run is a
theorem; `OwnsOneShot`, `DecidesOnce` and the step counts are theorems only, and no run repeats them. Induction over recursively defined data is out of the installed
provers' reach as well; no proof here needs it, since no module declares a RECURSIVE operator.

## Findings

- A `ROLLED_BACK` receipt may change the model version but not carry a resulting belief
  (`domain/records.py` 981-988, `runtime/state.py` 294-298). Committing one leaves an agent no
  snapshot can be taken of, against `docs/architecture.md` 97-99. Run learning_rollback_receipt.
- Assimilation and step accounting are two lock sections under one handler
  (`runtime/agent.py` 346-363). A registration by another caller between them makes the second
  fail, and the journal reports the stage as failed although the belief was applied, against
  `runtime/journal.py` 111-113. `docs/architecture.md` 579-581 states that such races exist.
  Run interaction_journal_race.

- Nothing makes the identity of an observation new (`domain/records.py` 787-792,
  `storage/memory.py` 66-104). A belief that is assimilated after learning from an observation the
  agent has already adds no evidence to the receipt's resulting belief: `assimilate`
  (`runtime/state.py` 176-180) accepts it, every later snapshot refuses it (`domain/records.py` 1130), and the
  agent can neither decide nor learn, against `docs/architecture.md` 102-104. Run
  learning_repeated_observation.
- An interrupt can make the marker failed while a child runs, against
  `docs/wm002-q1-runtime-design.md` 607-610, which has every started child reaped first: after the
  fork and before the child is on a list (`q1.py` 3520, 1345-1346, 3799-3801, 1358), and in the
  finally clauses that close captures after a failed quiesce (1354-1355, 3567-3571, 3773-3774,
  3843-3844), where it replaces the `Q1ChildQuiescenceError` that line 2652 looks for. Run
  worker_interrupt; `VerdictMeansQuiet` and `UnprovenIsLeft` say what is left.

Observations that contradict no document, and shaped a property:

- A `save` that raises may leave its temporary file (`checkpoint.py` 341, 358), and a finalization
  that raises may leave its own (`attempt.py` 386, 405-411), which then blocks the failed
  finalization of the same process (378): the marker stays started.
- Recovery of a rehearsal does not sync what it finds done by a launcher that was stopped before its
  own sync (`launch_bootstrap.py` 2954, 2976, 3087, 3560): neither names nor bytes. A stop followed by a
  loss of power can then leave a failed package without its claim marker, bring back a staging file or a
  start record that was removed, or lose the terminal's inner name; tear the claim of a failed package,
  or change the bytes of a record after the terminal that gives their digest was published; and after
  repeated stops a failed terminal may say that no child was started. Accepted packages keep claim
  and records as they were. `PackageIsExact` and `EvidenceIsTruthful` except these cases: see
  `PackageIsExact` for what it still asks in them. The repository's tests inject single failures
  (`tests/test_world_model_launch_bootstrap.py` 3070-3330).
- Every recovery refuses an attempt without a claim or with a torn one, a torn start record beside a
  terminal (3337), a record whose bytes are not those the terminal tells of (3408-3420), and an accepted terminal
  once formal authority exists. A marker without its claim, which a stop before the sync of the
  attempt, a recovery that links the marker, and a loss of power can leave, is recovered (2937-2950, `Relink`).

## Not modelled, and the plan

- Entropy, information gain and proper scores are floating-point formulas; the domain graph codec
  is a pure encoding; both have no state.
- `bench/` is some 85,000 lines, most of which generate data or check documents: episodes,
  statistics, binding, verification, audit, adjudication and reports. They read their inputs, compute
  and write one result; what can be said of them is what they compute. TLA+ adds nothing to that,
  so the map covers a small part of the implementation's lines and will stay so.
- The operator commands of the world-model experiment (`operator.py`) claim attempts and audits
  with an exclusively created file, as AttemptRegistry does, and are not modelled a second time.
- Left out of modelled parts: `apply_update` of the state and `abort_swap` of the model owner, which
  no caller uses; sampling from the replay buffer, which changes only a random generator; `restore`
  with `require_all=False`.

Next, in this order:

1. A store without `find_step` in a run of its own.
2. WorkerSupervision over the file operations of AttemptRegistry instead of the status of its marker.
