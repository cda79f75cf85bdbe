# A TLA+ model of llxprt-code-rs

llxprt-code-rs is a headless coding agent. One process serves one turn: it reserves a
branch of a session on disk, talks to a model provider, runs the tools the model asks for,
and records the outcome. Nothing but the session directory survives the process, and any
number of processes may work on one session. The modules here model the parts where that is
hard to get right: the session's reservations and leases, the log that makes them durable,
the provider turns that must not be repeated after a crash, the tools that run under a lease
and a signal, the commands they start, and the durable context with its publication.

Paths below are relative to the repository; `src/session.rs` is `src/src/session.rs` in
`PROJECT.json`, which maps every definition to the lines it models.

## Inventory

| Component | State | Operations | Interacts with | Hard behaviour |
|---|---|---|---|---|
| Session store (`src/session.rs`, `session/reserve.rs`, `replay.rs`, `validate.rs`) | branches: turn, attempt, parent, prompt, lifecycle, rounds, owner, lease; workspace | `start_request` (replay, retry, reclaim, fresh, busy), `renew_lease`, `checkpoint`, `finalize`, `fail` | called by the agent; appends to the log | processes race for a branch; leases expire under a working owner |
| Log (`session/log.rs`, `snapshot.rs`) | manifest, current and retained set (snapshot + segment), cached state of each handle, file lock | load, catch up, append, repair, rotate, recover | under every operation of the session store | crash or error between any two file operations; damage |
| Provider turns (`session/provider_turn.rs`, `context_gateway/protocol.rs`) | one record per request: intent, pending, admitted, rejected, indeterminate; tool executions and completions | intent, admit send, stage, admit, reject, complete, recover | events of the same log; driven by the agent | a send or a tool whose result is not durable |
| Agent loop (`src/agent.rs`, `agent/*.rs`) | transcript, budget, retries, in memory | request, retry, tool round, refusal, forced summary, checkpoint, finalize, fail | everything above | dies anywhere; resumed by another owner |
| Durable context (`session/context_*.rs`, `request_epoch.rs`) | generation directories `.stage`, `committed`, `.prev`, quiesce marker; context in memory: units, kernel chain, floor, region, outcome | raise the floor, admit a result, checkpoint, finalize, persist, recover, quiesce | publications of the agent, mostly without the session lock; finalize before `BranchCompleted` | crash between renames; two publishers; a failed publication that stays in memory |
| Tool lease (`session/tool_lease.rs`) | heartbeat thread | renew before, during and after a tool | renews through the store | lease lost while the tool runs |
| Retries and deadline (`agent/stream_retry.rs`, `rate_limit.rs`, `deadline.rs`, `over_limit.rs`) | retry counter, deadline | delay, retry, give up | provider turns | timeouts against late answers |
| Interruption records (`session/interruption.rs`, `interruption/projection.rs`, `process/cancellation_record.rs`, `agent/in_flight.rs`) | in-flight marker and signal file per owner, projection of the current tool, descriptor for the handler | arm, mark, clear, disarm, read | main thread, heartbeat, signal handler, other workers | signal between two steps; projection of a dead worker |
| Process runner (`src/process.rs`, `process/*.rs`) | active group, scope and its guardian, launch pipes, readers | launch, supervise, escalate, cancel, drop | run by tools; signal handler | races of exit, timeout and cancellation; worker killed in a launch |
| Context kernel (`context_kernel/*`) | typed state folded from events: lanes, scopes, ledger, branches, security | apply one event | executor | legality after long sequences |
| Context transactions (`context_txn/*`) | log, version, fencing epoch, region accounts | propose, snapshot, generate, validate, commit, abort | kernel, policy | stale parents, rebase, fencing |
| Context policy (`context_policy/*`) | queues, governor window, ladder, epochs | submit, service, admit, cut | context state | bounds and starvation |
| Context ingress, store, management | filter registry, spine, vault, management calls | update rules, append, put, erase | context state | partial failure, rollback |
| Tools (`src/tools/*`) | files of the workspace | read, write, replace, search, shell | agent | atomic publication of a file |
| Local OAuth (`model_api/local_oauth/*`) | credential file, lock | login, refresh | adapters | two processes refresh |
| Adapters, profiles, settings, CLI, envelope, transcript, telemetry, redaction | none that changes, or output only | encode, decode, parse, print | | |
| Graders, parity harness, context evaluation | test programs | | | |

What makes them correct: a continuation has one live reservation, history
is never rewritten, and a lease has one holder (store); what was acknowledged survives, and
all handles see one log (log); no request follows an unresolved one and no tool call runs
twice (provider turns); the recorded transcript says what happened and a working owner can
always commit (agent); a reader gets one generation, what was reported durable stays, and a branch is
completed only over a context that is kept (context); no two workers run tools of a session at
once, and the evidence of a signal names the call that was executing and no completed one (tool
lease, interruption); what
runs can be cancelled, what a dead worker leaves dies, and every launch and timed run ends
(process runner).

## Modules

| Module | Models | State |
|---|---|---|
| `SessionStore` | reservations, lineages, leases, outcomes | `branches`, `cwd`, `now`; `proc`, the reservation each invocation holds in memory |
| `SessionStore_proofs` | theorems about `SessionStore` | |
| `DurableLog` | what the log promises: an append-only sequence with a synced part and a floor for damage | `log`, `stable`, `floor`, `damaged` |
| `SegmentLog` | the files, one action per file operation; implements `DurableLog` | `manifest`, `snaps`, `segs`, `lock`, `handle` and counters |
| `SegmentLog_proofs` | theorems about `SegmentLog`, with the refinement | |
| `AgentTurn` | one branch, its provider turns, and the owners that work on it one after another | `branch`, `turns`, `proc`; `sent` and `executed` record what left the process |
| `AgentTurn_proofs` | theorems about `AgentTurn` | |
| `ContextPublish` | generation directories and the processes that publish and recover | `dirs`, `slot`, `proc`; `durable` and `forgot` record what was reported and lost |
| `ContextAdmission` | the operations that change the context, each over a publication of `ContextPublish`; extends it | `context`, `op`, `kept`, `fallback`; `reached`, `sealed` and `completed` record what was reported |
| `ContextRefusal` | extends `ContextAdmission` | `before`, what was completed when a refusal was restored |
| `ContextAdmission_proofs` | theorems about `ContextAdmission` and the publication below it | |
| `ToolRun` | tool calls under the lease with heartbeat, in-flight marker, projection and signal handler | `branch`, `work`, `beat`, `record`, `open`, `hand`, `signal`, `marker`, `current`; `done` and `last` record what happened to calls |
| `ToolRun_proofs` | theorems about `ToolRun` | |
| `ProcessRunner` | one worker's commands: scope, launch, supervision, cancellation | `main`, `alive`, `active`, `coord`, `acked`, `clock`, `termed`, `drained`, `tree`, `handler` |
| `ProcessRunner_proofs` | theorems about `ProcessRunner` | |
| `MC...` | instances for TLC: symmetry only | |

Correspondence with the code:

- **SessionStore.** An operation under the session lock is one action. `Replay`,
  `ReserveRetry`, `Reclaim`, `ReserveFresh`, `Busy` and `Invalid` are the outcomes of
  `start_request_locked`; the arguments of a request (named branch, turn, prompt, workspace)
  are chosen with `\E`. `FindExisting` and `Predecessor` return the singleton of the branch
  the search ends at ({0} for none), `ValidBranch` is the parent relation the store validates before it appends.
  `proc[p].expiry` is when the owner believes its lease ends, which the code keeps implicitly
  as the time of its last successful renewal. `RunRound` stands for a whole model round.
- **SegmentLog.** `Acquire` to `Return` is one locked operation. A segment is the frames in it,
  how many are synced, whether a half frame follows and whether a frame is damaged; a digest
  check is "the file is what was sealed". `Fails` ends an operation at any step with an error,
  `Crash` with the process; `PowerLoss` drops unsynced frames; `Damage` spoils one file.
- **AgentTurn.** Intent, admission of the send, the send, the reply, its staging and its
  admission are separate steps, as are the lease renewal before a tool, the tool, the renewal
  after it and the durable completion. `LeaseExpires` may happen at any time. A reply is a
  final text or up to `MaxCall` calls; calls past `Budget` are refused and force a summary.
  A new owner rebuilds its rounds from the turns of its predecessors (`RecoveredRounds`).
  `GiveUp` is every failure that `dead_coded` reports: a limit, a refused tool result, a write
  of the lease or of the marker that fails. `Left` says which calls of an open tool round the
  failed branch then keeps: a call is pushed before the renewal that follows its tool.
- **ContextPublish.** A directory has an identity that survives its renames, since a publisher
  keeps a descriptor of the one it opened. The spine stands for the artifacts written first,
  the manifest for the last. `Error` returns from any failing step, and a checkpoint or
  finalization then rewrites the committed manifest in place (`record_quiesce_manifest`).
- **ContextAdmission.** `PublishFor` changes the state in memory and begins a publication; it
  ends in `PublishSucceeds` or `PublishFails`, and what was changed stays in memory either way.
  The four callers are `SetDigestSizeFloor`, `CompactToolResult`, `ContextExchange`
  (checkpoint, failure, or the first half of `finalize`) and `FinalizeContext`; `Complete` is
  the append of `BranchCompleted`. `kept` is what a directory holds beside the units: the
  kernel chain goes with the spine, floor and outcome with the manifest. An admission is one
  step on the chain; the region counts what this process admitted and `Room` is where
  a wrap-up no longer fits. It clears the terminal outcome (`complete_bulk`) and leaves
  `terminal_write_failed`, on which a later `wrap_up` returns early.
- **ToolRun.** Every store operation is one step, as it holds the session lock. `BeginCall` to
  `Fence` is `with_tool_lease`, `Mark` and `MarkFails` are `dispatch_recorded`, `Clear` is
  `in_flight::finish`. Whether the projection of another owner is stale is decided as in
  the code, by the lock on that owner's signal file (`open`). The handler's kill of the tool's group, its
  load, claim, write and exit are steps between those of the main thread, since it may run on
  another thread. The kill changes nothing that the model does not allow anyway: a tool may
  end at any time.
- **ProcessRunner.** A run's number is its process group: the pid of the guardian. `Main` is
  `run_cmd`, with one action per way an iteration of `supervise` ends; `Coordinator` is the
  launch thread, `Launch` what the forked child does up to exec, `ChildRuns` and `JobRuns` an
  arbitrary command and one background job of it, `InnerEof` the guardian of a runtime
  that the job runs. `clock` is "none" for a command without a timeout.

## Runs

| Run | Instance | Checks | Result |
|---|---|---|---|
| `session_store` | 4 invocations, 2 prompts, 2 turns, 3 branches, 1 round each, lease 2, clock to 3 | types, `NoDuplicateReservation`, `LineageFinal`, `AttemptsDistinct`, `LeaseExclusive`, `ReportedOutcomeStands`, `HistoryAppendOnly` | 114,194 states |
| `session_root` | as above, smaller | `BusyWhileLive` | violated, see findings |
| `segment_log` | 2 handles, 4 events, rotation every 2, 1 damaged file, 1 power loss | types, `AckedSurvive`, `CacheIsPrefix`, `PreviousMatches`, `OneFaultRecoverable`, refinement of `DurableLog`, `LockReleased` | 1.28 million states |
| `segment_recovery` | 1 handle, 2 events, 1 damaged file | `InterruptedWriteRecovers` | violated |
| `agent_turn` | 3 owners, 3 provider turns, 2 calls per reply, budget 2, 1 retry | types, `NoSendAfterUnresolved`, `ExecutedOnce`, `TranscriptHonest`, `OwnerCanCommit`, `OutcomeFinal` | 2.7 million states |
| `agent_indeterminate` | 2 owners, 2 provider turns | `IndeterminateTerminates` | violated |
| `context_publish` | 1 process at a time, 4 publications, 3 crashes, 2 admissions, 1 raise of the floor, room for 1 admission | types, `NoMixedGeneration`, `PublishedKept`, `NotBehind`, `CompletionDurable`, `RefusalStands` | 5.6 million states |
| `context_crash` | 2 publications, 1 crash | `RecoveryFallsBack` | violated |
| `context_race` | 2 processes, 2 publications, no crash | `NoMixedGeneration` | violated |
| `context_refusal` | 1 process at a time, a few publications | `RestoredRefusalStays` | violated |
| `tool_run` | 2 workers, 2 branches, 2 calls each | types, `ToolsExclusive`, `EvidenceHonest`, `RecordOwned` | 2.9 million states |
| `process_runner` | 2 commands, each with a background job | types, `NoStaleGroup`, `Cancellable`, `ScopeDies`, `RunReturns`, `LaunchEnds` | 87,394 states |

Why the bounds are enough. Three branches over two turns hold a root, its child and a retry or
fork of either, and four invocations can hold, lose, take over and replay one of them; a lease
of two ticks can be renewed before it ends. Four events with a rotation every two pass two
rotations, so there is a current, a retained and a removed set, with a damaged file in one of
them. Three owners are what the hardest case of recovery needs: one that leaves work behind,
one that recovers it and dies, one that recovers both. Four publications and three crashes
leave `.stage`, `committed` and `.prev` in every combination a single process can; a
finalization takes two of the publications, so one can follow or precede two other operations,
and with two admissions the wrap-up of a process that admitted both does not fit. Two workers
with two calls and two branches are one that loses its lease in mid-call and one that reclaims
its branch or works beside it, and a marker of the first call that a second one may mistake.
Two commands let a group of the first be read or left over during the second.

Deadlock is not checked where a run ends by exhausting its bounds or because every invocation
has returned (session, agent, context, tools, commands); it is checked for the log. That
the processes of a launch do not wait on one another is `LaunchEnds`.

**Fairness.** `SegmentLog` has weak fairness for an operation that holds the session lock. The
code between taking and releasing it (`locked_with_timeout`) makes file system calls and waits
for nobody; an operation that dies releases the lock too. `ProcessRunner` has weak fairness for
each thread of the worker while it lives (main, coordinator, readers, handler), for the passing
of time, and for the processes that run the runner's own code: the guardian, the child up to
exec, the guardian of a nested scope. These are the schedulers of one machine. Nothing
is assumed about the command, which may ignore SIGTERM, hold its pipes open or never exit, about
a call that fails, or about who asks for the next command. In the other modules
nothing is assumed about a process that is idle, working or waiting for a provider.

Every property has a mutant: a plausible slip in the code it is about (a dropped
guard, an off-by-one, a missing reset), kept next to the definition it replaces, under which
TLC finds the property violated.

## Findings

1. *A pending root is reserved twice* (`session_root`). `find_existing` looks for the
   continuation of a turn below the branch of the turn before. Turn 1 has none, so a request
   for turn 1 that selects a completed branch does not see a live pending root with its
   prompt. `NoDuplicateReservation` is therefore stated from turn 2 on.
2. *An interrupted recovery cannot be repeated* (`segment_recovery`). The segment of a new set
   is created with `O_EXCL` before the manifest names it. After a crash in between, every later
   attempt plans the same name and fails. The first open of a session has the same window.
3. *A failure that does not terminate* (`agent_indeterminate`). An owner that recovers an
   unresolved intent fails the branch with an empty transcript; once a round was checkpointed the
   store refuses it, and the branch stays pending. The run goes through `RecoverIndeterminate`:
   a round is checkpointed, the next intent recorded, the lease lapses, and the next owner finds
   the intent. (Any failure before the rounds are rebuilt is refused in the same way; no line of
   the repository promises anything for those.)
4. *Recovery does not fall back* (`context_crash`). A crash between the two renames of a
   publication leaves only `.prev`, which recovery does not look at while `committed` is missing.
   `PublishedKept` holds up to that point.
5. *Concurrent publishers mix generations* (`context_race`). Most publications hold no session
   lock, and all stage under one name.
6. *A restored refusal is lifted* (`context_refusal`). Every admitted bulk result clears the
   terminal outcome, a `quiesce_unwritable` included. `wrap_up` then returns early because
   `terminal_write_failed` is still set, and the finalization succeeds, in the process that
   published the refusal and in one that restored it. What does hold is `RefusalStands`: without
   another admission nothing lifts a published refusal.

Observations that are not runs:

- When the publication of a raised floor fails, `set_digest_size_floor` hands the old rules back to
  `update_rules`, which ignores an older version (`filter.rs:187`). So the raise stays in memory, where
  the comment at `session.rs:842` says it is rolled back, and the next publication makes it
  durable. The command line ends on this error; another caller of the operation would not.
  `NotBehind` bounds the floor from below only.
- The handler kills the tool's group before it writes the signal, where
  `docs/interrupted-workers.md:58` has the opposite order. On another thread than the main one
  (the heartbeat's, say), the main thread may see the tool end, clear the marker and complete the
  call before the byte is there, and the cancellation then names no tool. `EvidenceHonest` speaks
  of a tool that is still executing when the worker ends.
- A refused call comes back from recovery with `refused = false`, so a checkpointed round with
  refusals is not extended by the recovered one and the new owner can only fail;
  `OwnerCanCommit` excludes that case.
- A failed branch may omit calls that an earlier owner executed, when the last owner fails
  before it has rebuilt the rounds, and a call that ran but whose result the context refused;
  `TranscriptHonest` speaks of completed branches for that reason.
- `admission_executor` is built for each admission with an empty region, so the budget is
  checked against one payload at a time, where the comment at `context_persist.rs:438`
  speaks of the sum; only the wrap-up sees what this process admitted, and not what earlier ones did.
- A crash in the middle of `record_quiesce_manifest`, with no `.prev`, leaves a committed
  directory that recovery refuses; the process then stays down, which no property excludes.
- The marker of a call is published before the projection may refuse it, so for a moment
  it may name a call that is never executed. `EvidenceHonest` therefore says that the call that
  was executing when the worker ended is named, and that no completed one is.
- With SIGINT and SIGTERM in close succession the second handler may exit the process before the
  first has written its byte; the evidence is then missing, never wrong.
- The handler may run beside the main thread, load a group and kill it after the main
  thread has reaped it. `NoStaleGroup` and its theorem are about what it loads, not about the
  moment of the kill.
- A command that leaves its process group is not killed at its deadline, and `child.wait` then
  waits for it; the header of `process.rs` only considers descendants that do so. `RunReturns`
  excludes the case by name.

## Proofs

Every invariant, every action property and the refinement that a passing run checks is also
proved, for every value of the constants that satisfies the module's assumptions. The
inductive invariants were checked with TLC on the instances of the runs before they were
proved. Their parts are predicates on values (a directory, a provider record, a cache), so that
a step is a change of those values and a lemma about a value serves several steps.

`SessionStore_proofs` proves, for every number of invocations, branches, turns and rounds and
every lease, each property of `session_store`:

- `TypeCorrect`: `TypeOK` is inductive. The argument is by shape: every action either changes
  one invocation only, touches one branch (`TouchLemma`) or pushes one (`PushShape`), and
  `StepShape` says so once for all later proofs.
- `HistoryIsAppendOnly`: an action property, from `TypeOK` and the shapes. The exact-prefix
  rule (`Extends`) is what makes rounds grow.
- `LineageIsFinal` and `AttemptsAreDistinct`: inductive with `TypeOK`; a new branch has a
  completed parent one turn below and an attempt past all others, and a completed
  branch never changes.
- `ReservationsAreUnique`: inductive with `TypeOK`, `LineageFinal` and `AttemptsDistinct`. The core is
  that the predecessor found through a lineage is the parent of every branch that
  continues it (`PredecessorIsParent`), so a fresh reservation stands beside no match and a retry
  beside failed ones only (`BesideFailed`). Lineages are sets closed under parents, which
  replaces induction over the chain.
- `LeasesAreExclusive`: not inductive alone. The strengthening `LeaseKnown` says that what an
  invocation believes about its lease is what the branch records while it owns it, and is
  over once another owns it.
- `OutcomesStand`: from `TypeOK` and that terminal branches are kept.

The assumptions are those of the module: the bounds are natural numbers and the lease is
positive. The code's lease is one hour.

`ToolRun_proofs` proves, for every set of workers and branches and every number of calls, each
property of `tool_run`: `TypeCorrect`, `ToolsAreExclusive`, `EvidenceIsHonest` and
`RecordIsOwned`. None of the last three is inductive alone. The invariant `IInv` joins to them:

- `Opened`: a worker holds its signal file locked from arming to the drop of its record, hence
  whenever it may execute a tool, and a descriptor the handler has claimed is open. So a
  projection of a worker that still executes is foreign to every other and is never retired
  (`RunningIsForeign`), which gives exclusion although the lease may have moved on.
- `Marked`: the marker of a worker follows its main thread through a call, and the number of a
  call is larger than those of all completed calls, so no completed call is ever blamed.
- `Owned`: a pending branch has an owner.

`EvidenceIsHonest` covers a tool that is still executing when the process ends, by its handler or
otherwise. It does not say that the tool the handler killed is named, which is false (see the
observations above).

The assumptions: the number of calls is a natural number, and `None` is neither a call nor a
projection.

`ProcessRunner_proofs` proves, for every number of commands, `TypeCorrect`, `GroupIsCurrent`
(`NoStaleGroup`) and `CommandIsCancellable` (`Cancellable`). The invariant follows the main
thread through `run_cmd`:

- `Scoped`: from the creation of a scope to its drop the guardian, which leads the group, is
  not reaped. With `Published`, which says between which steps `ACTIVE_GROUP` is set and that
  it names the current run, this gives `NoStaleGroup`.
- `Launched`: a child on its way to exec has a main thread that waits in `spawn`.
- `Handed`: an acknowledgement exists only once the group is published, so the child that execs
  on it is cancellable from its first instruction.
- `Supervised`: what is in a group belongs to the current run, at a step that watches it.

`AgentTurn_proofs` proves, for every set of owners and every number of provider turns, calls
and retries, `TypeCorrect`, `RequestsAreResolved` (`NoSendAfterUnresolved`), `CallsRunOnce`
(`ExecutedOnce`), `WorkIsCommittable` (`OwnerCanCommit`), `TranscriptIsHonest`
(`TranscriptHonest`) and the action property `OutcomesAreFinal` (`OutcomeFinal`). An owner that
lost its lease goes on sending and running tools, so the invariant says two different things:

- of every invocation (`Seated`, `Running`, `Truthful`): which provider turn it is in, that the
  turn is its own, which of the turn's calls it ran, and that its rounds agree with the records
  and with what ran (the rounds of a failure may hold a call that ran and has no completion);
- of the holder of the lease (`Holder`): nothing is unresolved but the request it made itself,
  its rounds cover every admitted call, say of each what its completion says (`Exact`), and
  extend what is checkpointed;
- of the branch (`Recorder`, `Transcript`): completions agree with what ran, and a refused call is not
  pending with anybody; the checkpointed rounds are sorted and leave out no earlier turn.

`WorkIsCommittable` needs that two sorted sequences over the same turns are one sequence
(`OneOrder`). That is an induction over positions; it is done with a least position where they differ
(`LeastNumber`), which the well-foundedness of the naturals gives without an induction theorem.
The assumptions: `Nobody` is no owner and the bounds are natural numbers.

`SegmentLog_proofs` proves, for every set of handles, every rotation threshold and every number
of events, damaged files and power losses, `TypeCorrect`, `CommittedEventsSurvive`
(`AckedSurvive`), `CachesArePrefixes` (`CacheIsPrefix`), `RetainedSetMatches`
(`PreviousMatches`), `OneFaultIsRecoverable` (`OneFaultRecoverable`) and
`FilesImplementDurableLog`, the refinement of `DurableLog`. The invariant:

- `Locked`: only the holder of the lock is at work, so what a handle has read stays true until
  it returns; crashes and damage are the only steps beside it.
- `FilesOK`: the current set has its files, starts where its name says and is synced no
  further than it is long; the retained set is older, sealed, has its files unless they are
  damaged, and ends where the current one begins.
- `FaultsOK`: there is no bad file before the first damage, and the first one leaves one set whole.
- `EventsOK`: without damage, committed events lie in the synced part of the log.
- `HandleOK`: a cache is no newer than the manifest and under its name a prefix of the log; a planned set is
  the next generation and goes on from the sealed set that it retains.

The refinement mapping is `Log`, `Stable`, `Floor` and `CurrentDamaged`. Each step is shown to be
one step of `DurableLog` or none: an append writes, a sync makes stable, publishing the
manifest of a rotation moves the floor, publishing that of a recovery falls back to it, and everything
else is invisible. The assumptions: the threshold is positive, the bounds are natural
numbers, and `None` is none of the records it stands in for.

`ContextAdmission_proofs` proves `TypeCorrect` for any number of processes at once. The other
properties are false of two concurrent publishers (finding 5), so their theorems assume one process
at a time, `Proc = {p}`, which crashes and comes back any number of times: `OneGeneration`
(`NoMixedGeneration`), `PublishedIsKept` (`PublishedKept`), `NeverBehind` (`NotBehind`),
`CompletionIsDurable` (`CompletionDurable`) and the action property `RefusalIsKept`
(`RefusalStands`). The invariant:

- `SlotsOK`, `FreshOK`: the three names stand for three directories, and the one a publication
  opens is new and empty;
- `StageOK`: at each step of a publication, which of its artifacts are in its directory and which name
  that directory has;
- `SlotOK`: a directory under `committed` or `.prev` is of one publication and, until a process
  has started empty, holds all that was reported: the units and the chain with
  the spine, the floor and the refusal with the manifest. This holds for `.prev` too, since nothing is
  reported while both exist; so it does not matter which of them recovery picks;
- `KnowsOK`, `RefusalOK`: a process that has loaded the context knows all that was reported,
  and a refusal in its memory is kept by a failed write or a full region;
- `ReportedOK`: what was completed was reported, and what was reported is under one of the names.

Only model-checked: the liveness properties `LockReleased`, `ScopeDies`, `RunReturns` and
`LaunchEnds`, since the prover handles neither fairness nor ENABLED; and the six violations.

## Not modelled

- Names of files and directories survive a power loss once the call that made them returned
  (the code syncs directories); only contents that were not synced are lost. `remove_dir_all`
  is one step and succeeds; the code ignores its failure (`context_publish.rs:26,71,80`), and a
  crash within it would leave a partial directory.
- The wall clock does not go back, and one operation under the lock reads one time.
- The read-only reader of a session, size limits, digests, secrets, telemetry, transcripts.
- Management turns, one-command missions, the flat layout of earlier builds beyond "it holds
  no spine".
- `context_policy/queue.rs` and the conflict and rebase rules of `context_txn/executor.rs`: tests
  use them; in production each admission has an executor of its own with an unmoved parent. The
  rate quiesce and the store's read-only modes are not entered in production either.
- The descriptor of a signal file is inherited for a moment by a forked child until exec, which
  keeps its lock held a little longer. Two signals in one process, and a second job of a command.
- The components marked `not_modelled` in `PROJECT.json`, with the reason there.

## Plan

In order of importance; done: 1 to 8.

1. `SessionStore` with its proofs.
2. `DurableLog`, `SegmentLog`.
3. `AgentTurn`, with the deadline of a turn.
4. `ContextPublish`.
5. `ContextAdmission`: what is published, in which order with the completion of a branch.
6. `ToolRun`: heartbeat, in-flight marker, signals.
7. `ProcessRunner`: launch handoff, scope, escalation, cancellation.
8. Proofs of every invariant, action property and refinement of the runs.
9. `OAuthStore` and `FilePublish` (`tools/publication.rs`).
10. `ContextKernel`: the reducer with scopes, lanes, branches and the obligation ledger.
11. Delays and context-limit compaction of `agent/rate_limit.rs` and `over_limit.rs`; management
    turns.
