# TLA+ models of huawei_dial

The repository trains a clarifying dialogue agent (ClarQ) with a fork of `verl`. Below `src/workspace/verl_dial-main-h800/`
is written `V/`. Its own control logic is the *fully asynchronous* training pipeline
(`V/verl/experimental/fully_async_policy`), the routing of generation requests (`V/verl/workers/rollout/llm_server.py`),
weight synchronisation, checkpoints, the agent loops with the ClarQ tools, the replay buffer, and an evaluation runner. This
directory holds TLA+ modules translated from that code, the TLC instances that check them and the proofs that TLAPS checks.

    tlc -workers 2 -config FullyAsyncStream.cfg MCFullyAsync     # one run
    tlapm FullyAsync_proofs.tla                                  # one proof module

## 1. Inventory

### Components, their state and their interaction

| component | state | operations | talks to |
|---|---|---|---|
| Message queue actor (`message_queue.py`) | deque, `running`, three counters, the condition's waiters, the validate list | put, get (waits), clear, shutdown, put/get_validate, statistics | called by Rollouter and Trainer over Ray |
| Rollouter (`fully_async_rollouter.py`) | `pending_queue`, `active_tasks`, `staleness_samples`, `paused`, `_resume_event`, `lock`, `running` | feeder, processor, one task per sample, generation main, monitor; `reset_staleness`, save/load, validate | puts samples; called by the Trainer |
| Trainer (`fully_async_trainer.py`) | `local_trigger_step`, `current_param_version`, the batch in collection | collect a batch, update, sync weights, validate, save | gets samples; calls checkpoint manager and Rollouter |
| Main (`fully_async_main.py`) | the two `fit` futures | start, wait, `clear_queue` | both |
| Load balancer and client (`llm_server.py`) | `_inflight_requests`, `_servers`, LRU of sticky sessions | acquire, release, add, remove | every agent-loop worker; Trainer through the Rollouter |
| Partial-rollout client (`FullyAsyncLLMServerClient`), vLLM server | tokens so far, engine paused or not, `global_steps` | generate, abort, resume, sleep, wake | load balancer, weight sync |
| Checkpoint engine manager (`checkpoint_engine/base.py`) | replicas | abort, release cache, transfer, resume | Trainer, replicas |
| Agent loops, ClarQ agent (`tool_agent_loop.py`, `examples/clarq_grpo/agent.py`) | conversation state machine, budgets, search count | generate, tool call, user turn, answer | server client, tools |
| Replay buffer (`main_ppo_sync.py`) | key sets per partition, polling thread | poll, add, sample, remove | transfer queue |
| Checkpoint manager (`checkpoint_manager.py`, save and load of Trainer and Rollouter) | saved paths, files of each `global_step` folder, tracker file | make room, write, register, resume | Trainer, Rollouter, the disk |
| Rate-limited rewards (`reward_manager/limited.py`) | token buckets, semaphore | acquire, run with timeout | reward functions |
| ClarQ evaluation (`src/workspace/eval`), user-simulator evaluation | dialogue transcripts | run, retry, score | HTTP models |
| The rest: synchronous trainer, algorithms, engines, models, kernels | tensors | computation | - |

Data flow of the core: feeder -> `pending_queue` -> processor -> one task per sample -> message queue -> trainer's batch ->
optimisation step -> (every `trigger_parameter_sync_step` steps) new weights to the replicas -> `reset_staleness`, which
reopens the rollouter. At the end the feeder sends `None` through `pending_queue`, the processor drains its tasks and the
generation main sends `None` through the message queue.

### What is hard in it, and what makes it correct

* *Concurrency without transactions.* `staleness_samples` is written by the processor outside the lock and by
  `reset_staleness` after an await with the lock held. Freshness must survive every interleaving.
* *A pause protocol on two variables* (`paused`, `_resume_event`) with a flag read before an await and written after it. No
  resume may be lost.
* *A lossy queue.* A full queue drops its oldest sample, the end signal is an element like any other. The signal must not be
  lost and nothing may be queued behind it when the run ends normally.
* *Failure.* A generation that raises ends the processor while other tasks still run and put; a session that raises fails its
  prompt while its other sessions still run, and a step whose prompts all fail ends the training; a tool that raises is answered
  and the conversation goes on.
* *Counting.* Trigger steps, versions and the reset must agree.
* *Fire-and-forget messages.* A release may arrive after its server has left the pool or has come back.
* *Starvation.* The trainer waits for samples; whoever should generate them may be paused.
* *Weights under running requests.* A sync aborts, loads, stamps and resumes each replica in steps of its own while clients
  retry. A sample's version stamps must cover the versions its tokens come from.
* *Crashes.* A save writes four things one after the other and removes old ones on the way. Whatever step a crash cuts short,
  the version the tracker names must be there, and a resumed job must neither train twice on a sample nor stop short while
  the passes over the data have samples left.
* *Two loops for one protocol.* Training and evaluation run the dialogue in different code; their counts must agree.
* *A poll that lags.* Keys are listed, then added: what was removed in between comes back.

`PROJECT.json` lists every hazard at its line, with the properties that cover it or the reason none does.

## 2. Modules

| module | models |
|---|---|
| `MessageQueue` | the queue actor's methods as actions on its state |
| `MessageQueueActor` | the actor with concurrent callers, condition wait, Ray's concurrency slots (EXTENDS `MessageQueue`) |
| `TrainingStream` | abstract: what the pipeline promises |
| `FullyAsync` | rollouter, queue, trainer and main together (INSTANCE `MessageQueue`; implements `TrainingStream`) |
| `LoadBalancer` | load balancer, clients, hybrid servers |
| `WeightSync` | weight synchronisation, trainer-side validation, partial-rollout client, version stamps |
| `Snapshot` | abstract: what checkpointing promises |
| `Checkpoint` | saving, rotation, crash and restart of trainer and rollouter (implements `Snapshot`) |
| `PolicyAnswer` | what the policy may answer and the tools will say to it |
| `AgentLoop` | one conversation of the training with the ClarQ tools (EXTENDS `PolicyAnswer`) |
| `EvalRunner` | one conversation of the evaluation (EXTENDS `PolicyAnswer`) |
| `Dialogue` | both side by side, given the same answers (EXTENDS `AgentLoop`, INSTANCE `EvalRunner`) |
| `ReplayBuffer` | transfer queue, poll thread, replay buffer and the synchronous trainer's loop |
| `*_proofs` | theorems about `MessageQueueActor`, `FullyAsync` (two modules: freshness, and the stream), `LoadBalancer`, `WeightSync`, `Checkpoint`, `ReplayBuffer`, `Dialogue` |
| `MC*` | TLC instances |

### `MessageQueue`, `MessageQueueActor`

`queue`, `mq_running`, `total_produced`, `total_consumed`, `dropped_samples` are the actor's fields. `PutSample`, `GetSample`,
`ClearQueue` and `Shutdown` are its methods; each holds the actor's lock from its first to its last line, hence one action.
Only `get_sample` suspends: `call[c]` follows a consumer through *called* (no slot yet), *waiting* (inside
`condition.wait()`), *notified* (woken, to evaluate the predicate again). `NotifyAll` is `notify_all`. A waiting get keeps one
of the `max_concurrency` slots of the Ray actor. A sample is the number of its put. `clear_queue` is counted by none of the
actor's statistics; the history variable `cleared` counts it.

### `FullyAsync`

The Rollouter is one asyncio event loop. Its coroutines change turns only where an await suspends, so an action runs from one
suspension to the next. The processor is cut finer; `ProcSuspended` keeps the others from running where the code does not
suspend (a lock that is free with nobody in line, a queue with samples). A call of the queue actor is two steps: the actor answers
(`ProcCheck`, `MonitorCheck`, `ResetBegin`) and the caller uses the answer (`ProcDecide`, `MonitorDecide`, `ResetFinish`). In
between the answer may become stale.

`self.lock` is its holder, `lock`, and the line of coroutines that wait for it, `waiters`. `asyncio.Lock` lets a coroutine in at
once only when it is free and nobody waits; everybody else lines up (`LineUp`) and is served in order (`Turn`). The processor (while it
waits for a task) and a reset (while it waits for the queue size) keep the lock over an await (`TakeLock`), the other critical
sections are one step (`Section`). So a processor that gives the lock back at the concurrency limit, with a sample in its hands,
is served after a reset that has come in the meantime: that reset begins and assigns the counter before the sample is submitted.

| code | actions |
|---|---|
| `_feed_samples` | `FeedSample`, `FeedEndSignal` |
| `_processor_worker` | `ProcCheck`, `ProcDecide`, `ProcPause`, `ProcWake`, `ProcReap`, `ProcGet`, `ProcLock`, `ProcUnlock`, `ProcSubmit`, `ProcEnd` |
| `_process_single_sample_streaming` | `TaskPut`, `TaskReturn`, `TaskRaise` |
| `_streaming_generation_main` | `FinishSignal`, `FinishRunning` |
| `_async_monitor_loop` | `MonitorCheck`, `MonitorDecide`, `MonitorServed` (with the top of the loop, `Iterate`) |
| `async with self.lock` when it is held | `LineUp` of processor, generation main and reset; the monitor's is in its actions |
| `reset_staleness` | `ResetBegin`, `ResetFinish` |
| `_get_samples_from_queue` | `TrainerGet` |
| `fit_step`, `_fit_update_local_step` | `TrainerStep` |
| `_fit_update_weights` | `TrainerSync` (then the reset) |
| the end of `fit` | `TrainerStop` |
| `_run_training_loop` | `MainFinish` |

`active_tasks` is the union of three sets: generating, waiting for its put to return, and finished but not reaped.
`safe_create_task` adds a task and no callback removes it, so finished tasks stay members until the processor waits. `held` is
the sample the processor has taken from `pending_queue` and not submitted. The set of active tasks, not the order in it, is
kept. The batch size is in samples (prompts with their `n` responses), as the code counts.

`TrainingStream` has four variables and three actions: train on a batch of fresh samples, publish a due version, close.
`ImplementsTrainingStream` maps `trained` (the history of completed steps) to its `todo` and `steps`, `rollout_version` to
`version`, the trainer's loop to `open`. It says that no sample is trained on twice, that every step takes a full batch, that
a due version is published before the next step and nothing happens after the end.

### `LoadBalancer`

`inflight` is `_inflight_requests`; its domain is the pool. `route` and `recent` are the LRU cache (entries, and their order of
use). A request id is a conversation; `at[r]` is the server of the turn it has not released yet, and `releasing` holds the
turns whose release has been sent. One client's release reaches the actor before its next acquire, other clients' calls come
in between. `Candidates` leaves the choice among equally loaded servers open (the code takes the first of its dict). `AddHybrid`
and `RemoveHybrid` are the manager's `add_replicas` and `remove_replicas`, which a validation calls with all hybrid replicas.
A turn may be at a hybrid server when it is removed: `_trainer_side_validate` aborts the requests first, but a retry can
follow its sticky entry before the removal. `home` and `since` are history variables for the sticky-session property.

### `WeightSync`

The trainer's part is a sequence of steps, `Program`: `Sync` is `update_weights` (abort, load, resume), `Validation` the phases
of `_trainer_side_validate`. A step is a gather over its replicas, which it reaches in any order (`left`); the step ends when
all have answered. `LoadWeights` and `SetGlobalSteps` are two steps of a replica, as in `ServerAdapter.update_weights`.

| code | actions |
|---|---|
| `_fit_update_local_step`, `_fit_update_weights` | `Train`, `StepDone` |
| `abort_all_requests`, `sleep`, `resume_generation` | `Abort`, `Switch` |
| `update_weights`, `set_global_steps` | `LoadWeights`, `SetGlobalSteps` |
| `add_replicas`, `remove_replicas` | `ChangePool` |
| `FullyAsyncLLMServerClient.generate` | `Acquire`, `Retry`, `Return` |
| `vLLMHttpServer.generate` | `Start`, `Decode`, `Complete` |
| `ToolAgentLoop.run` and its stamps | `Return`, `NewConversation` |

A token is the version of the weights that made it, so `fresh` and `made` are sets of versions. An aborted request returns its
tokens with the server's `global_steps`, or nothing and no `global_steps` (`AbortedAnswers`). The least loaded server is any
server of the pool; `LoadBalancer` has the choice. The engine is vLLM 0.12 or later, whose abort pauses it until it is resumed;
a call that arrives in between waits. Token budgets and the backend `naive` for the rollout replicas are left out.

### `Checkpoint`, `Snapshot`

`BeginSave`, `SaveActor`, `SaveCritic`, `SaveData` and `SaveTracker` are the writes of `_save_checkpoint` in their order; `disk`
says of each part of each folder whether it is absent, partial or complete. `ensure_checkpoint_capacity` (`Capacity`) is part of
opening a role's files, `register_checkpoint` (`Registered`) of completing them. `emptied` is the tracker between its
truncation and its write. `Crash` is possible between any two steps and takes the job down; `Restart` is `load_checkpoint` of
trainer and rollouter with resume mode `auto`, and is not enabled when the tracker cannot be parsed or the folder is not
complete. The samples known to saved weights are kept in `weights`, the dataloader's position in `position`. The feeder runs
during a save, except while the rollouter's event loop writes the dataloader itself. Its iterator is finite: every life of the job makes
`Epochs` passes over `EpochSamples` samples, the first from the position that was loaded, and is exhausted at `last`
(`LastPositions`; at the end of a pass the dataloader's library decides whether what is left of it is nothing or a new pass). The
feeder then stops as it does after its last step.

`Snapshot` has one durable record that `Save` replaces as a whole and `Restart` goes back to; `Learn` takes only samples that
were fed and are new to the weights. `ImplementsSnapshot` maps the files behind the tracker to that record.

### `PolicyAnswer`, `AgentLoop`, `EvalRunner`, `Dialogue`

An answer of the policy is a sequence of tool calls (none when it is text). A call has a tool, an argument that is given, blank
or missing, and the outcome that awaits it: the reply of the user simulator, the cases found, or a failure. The outcome is part
of the call so that both loops are given the same.

`AgentLoop` follows `ToolAgentLoop`: `Generate`, `StartCalls` (the calls begin in order, each up to its first await: this is
where the ClarQ tools count), then one action for each call that comes back (`Clarified`, `Searched`, `CallFails`) in any order,
`Respond`, and `Judge` for the reward of `ClarQAgentLoop.run`. Lengths are abstracted: the budget may end a conversation at any
answer or response. `EvalRunner` follows `EvaluationRunner.run`: one action for each way a turn can end, `JudgeSuccess`, and
`Fails` for every service that is down.

`Dialogue` gives both the same answer as long as they are in the same turn (`Both`); when one has ended the other goes on alone.
They share no state, so the evaluation's own failures are only tried between the training's answers. `alike` remembers
whether all answers so far mean the same to both (`Plain`): no malformed call, which the training skips and the evaluation
rejects; nothing to execute but the first call; an argument that is given; a service that answers. `Parity` compares then.

### `ReplayBuffer`

`out` and `ended` are the transfer queue, `rows` and `known` the replay buffer. `List` and `Add` are the poll thread: it lists
the whole queue and then adds a partition at a time, so what it adds may be old. `SessionEnds` is a session that puts its
output, has none or raises; `PromptEnds` is the end of `_run_prompt`, whose `gather` raises at the first session that does
(`Raised`). The trainer's `Generate`, `Sample`, `Clear` and `Remove` are the steps of `fit` and `_validate` that touch them.
`SampleEmpty` is a batch without outputs, which ends the training: in a step by the assertion in `get_seqlen_balanced_partitions`
(`seqlen_balancing.py:239`), in the validation before the first step by the one on its metrics. A later validation asks the transfer
queue for the fields of no keys; whether that raises is the library's affair, and the model allows both. A session has one output, validation one batch (`val_batch_size` unset), ReMax baselines are left out. Tags of prompts are never
removed from the buffer, as in the code.

## 3. Runs

| run | instance | shows |
|---|---|---|
| `queue` | capacity 2, two consumers, three slots, five puts, one clear | order, accounting, no lost wake-up, service and release at shutdown |
| `stream` | batch 1, trigger 1, threshold 100%, two slots, five samples, sample 2 may raise | the counter, the freshness bound, the pause protocol; tasks that outlive the processor never push the end signal out |
| `batches` | batch 2, trigger 2, threshold 25%, two slots, six samples, sample 1 may raise | the end signal is last, nothing is lost but a partial batch, refinement of `TrainingStream`, the run ends, after a failure too |
| `overshoot` (violation) | as `stream`, one slot, no failure | more than `rollout_num` samples between two syncs |
| `starved` (violation) | batch 2, threshold 50%, four samples | the trainer waits for good |
| `routing` | two standalone and one hybrid server, three conversations of three turns, cache of two | load counts, sticky sessions |
| `sync` | one standalone and one hybrid replica, one conversation, four versions, validation every two | one version per call, stamps that cover, never older weights, every turn answered |
| `asleep` (violation) | the same with one version | a request left at an engine that sleeps |
| `checkpoint` | three versions of two steps, two passes over three samples, two checkpoints kept, two crashes | the tracked version is complete, no sample twice, refinement of `Snapshot`, the job finishes or runs out of data by no more than it lost |
| `keep_one` (violation) | one checkpoint kept | the tracked actor is removed before the new save is complete |
| `dialogue` | three turns, answers of up to two calls, two at a time, one search allowed | the search limit, parity of training and evaluation, every conversation ends |
| `replay` | two steps of one prompt with two sessions, validation before and at the second | complete batches of the right step, the training ends, and fails only for a step that brought nothing |

Bounds. `TotalRolloutSteps`, `MaxPuts`, `MaxClears`, `MaxValidates`, `MaxTurns`, `MaxVersion`, `MaxCrashes`, `MaxCalls` and
`LastStep` bound a behaviour, everything else is a configuration value or the size of a set.

* Five or six samples with a limit of two or five make the queue fill, the processor pause, be resumed by the reset and by the
  monitor, and leave a partial batch; `PendingMax = 2` (128 in the source) makes the feeder block.
* Three conversations on a cache of two entries make the LRU evict, and three turns tell the order of use from insertion.
* In `sync` one conversation is enough: conversations meet only at the load balancer, whose choice is left open. Four
  versions give two validations, so a conversation can enter, leave and re-enter the hybrid replica between syncs.
* In `checkpoint` two kept versions of three make the rotation remove one, the second crash hits a job that was itself
  restarted, and a save is due every two versions or at any version (the instance expires). `MaxInFlight` bounds the feeder. Six steps
  and six samples in two passes: a restart from a save in the first pass, with a sample under way, runs out of data before the last
  version; one from a later save, or from none, does not.
* In `dialogue` the second call of an answer and the second search meet both limits; the third turn is the one not executed.
* In `replay` the second step is validated before its batch is cleared, and the poll may carry the first step's keys into it. With one
  prompt a session that raises can leave the batch empty, with two sessions it need not.

The passing runs visit between 26,000 and 460,000 states. Deadlock is checked where the system has an end of its own
(`FullyAsync` has an explicit `Terminated` step) or none; it is off in the runs whose environment may stop calling and in those
whose job, conversation or training simply ends.

Fairness. In `MessageQueueActor` only the actor's own coroutines are fair, the callers are not. In `FullyAsync` a coroutine
that can run is resumed by the event loop, though others may run first and take away its turn again and again (strong fairness of
processor, generation main, monitor and trainer). That nobody overtakes at the lock is not assumed: the line is in the model. A
generation ends, by a put or by raising. Nothing forces a sample to raise and the monitor's sleep has no length. The load balancer's properties are safety only. In `WeightSync` every RPC of the trainer returns, an engine that is
awake and not paused generates, and a client wakes from its sleep; nobody is obliged to train or to begin a turn. In `Checkpoint` the
job makes progress and whoever runs it starts it again. In `Dialogue` a loop that can go on does: its services answer or
fail. In `ReplayBuffer` trainer, workers and poll thread run on their own, and every session ends.

What the liveness properties leave out is in their text: `TurnReturns` excepts a turn that is caught at a replica that goes to
sleep (`asleep`). `Finishes` excepts a crash between the truncation and the write of the tracker, after which no restart succeeds
(`fully_async_trainer.py:695`), and a job whose iterator is exhausted (`fully_async_rollouter.py:766-773`): the samples under way at a
crash are not read again, and if the passes over the data have no others, the job ends with no more steps missing than those.
`Trained` excepts a step without outputs, each of whose prompts failed or put none. `RunEnds` is claimed of the instance of
`batches`, where the budget left after a reset always admits a batch; with other limits `starved` is the counterexample.

### Disagreements between code and documentation

* `overshoot`: the `README.md` of the policy bounds the samples between two updates by `rollout_num`. `reset_staleness` evaluates
  `len(self.active_tasks)`, awaits, then assigns; the processor's increment in between is overwritten although its sample is
  in neither term of the sum. One sample more than the limit is generated. The excess is never more than one
  (`OutstandingBound`, proved).
* `starved`: finished tasks that nobody reaped are counted as stale at a reset. With batch 2 and a limit of 3 the budget left is
  smaller than the batch; the processor pauses, the queue is empty and the trainer waits. Nothing but a sync, which needs a
  batch, would lower the counter.
* `asleep`: phase 3 of `_trainer_side_validate` aborts the hybrid replicas and takes them from the pool in a later call. A request that
  acquires one in between waits at the paused engine and is resumed, without weights, after the engine was put to sleep. The
  client's docstring promises that interruptions are invisible to the agent loop.
* `keep_one`: with `max_ckpt_to_keep=1` the previous actor is removed when the new one is written, before critic, dataloader and
  tracker. A crash in between leaves the tracker naming a version that cannot be loaded, which the comment in
  `ensure_checkpoint_capacity` excludes.

Seen while reading and not modelled: `main_ppo_sync.py:889` and `:1717` call `_compute_reward_colocate` without its `metrics`
argument; a call that is not JSON is skipped in the training (`tool_parser.py`) and an error in the evaluation; the evaluation's
metrics count recorded events, including calls that were not executed.

## 4. Proofs

All theorems hold for every value of the constants that the named assumptions admit (`FullyAsyncAssumption`,
`MaxQueueSize` positive, `ActorAssumption`, `LoadBalancerAssumption`, `WeightSyncAssumption`, `CheckpointAssumption`, `ReplayAssumption`,
`AnswerAssumption`, `AgentAssumption`; TLC evaluates them in the runs). Every invariant and every action property that a
passing run checks, and both refinements, is a theorem.

* **`FullyAsync_proofs`.** `TypeCorrect` is inductive by itself. `PausedIsParked` adds nothing but typing: the only step that
  pauses moves the processor into its drain loop, and it leaves that loop only by a resume. `Freshness` and
  `CounterIsAlmostExact` need `FreshnessInv`. The counter alone is not inductive: a reset replaces it by the snapshot plus the
  queue's length. So the invariant says who holds the lock when (`Roles`), that nobody submits under the reset's lock and the
  snapshot stays an upper bound of the generating tasks (`SnapshotCovers`), and that the room the processor saw is still there
  when it takes a sample (`RoomBeforeGet`). The one sample it may be holding at the reset's assignment is the `+ 1` of both
  bounds, whether the reset was under way when it took the sample or came to the lock before it. With `Faulty` arbitrary the bounds hold through failures.
* **`MessageQueueActor_proofs`.** One inductive invariant carries the contents of the queue (a gapless run of the newest
  samples), the accounting, that a waiting getter's predicate is false, and that nobody has received anything as new as the
  queue's head. From the last part follows the action property `DeliveryOrder`.
* **`FullyAsyncStream_proofs`.** `OnceInv` says that a sample is in one place only (pending, held by the processor, in a task,
  queued, with the trainer) and in no queue or batch twice. `ActiveInv` bounds the active tasks by the concurrency limit, and `EndInv` counts what may still arrive behind the end signal: less than the queue has room for, also when the
  processor has failed and left its tasks running. From these follow `EndSignalIsLast` and `EndSignalSurvives`. `TrainerInv` ties
  `local_trigger_step`, the steps done and the version the replicas have; with it `StreamImplemented` goes through the
  actions: a training step is `Train`, the end of a sync `Publish`, the end of `fit` `Close`, everything else a stutter.
  `NoLoss` needs `Accounted`: what was fed is pending, held, in a task or was put (`FedCount`), and what was put is queued, dropped,
  or with the trainer (`PutCount`). It holds as long as no failure has ended the processor.
* **`LoadBalancer_proofs`.** Counts and turns move by one and together; a re-added server starts below. `LoadNotLeaked` and
  `StandaloneExact` are inductive with the typing of the pool, which always holds the standalone servers. `SessionsStick` is
  about the order of use. `SessionInv` says that the last server's entry is still there, with nothing used after it but what is in
  `since`, or that `since` is as large as the cache. It carries itself because a use keeps the order of the other entries
  (`TouchedEntries`), and an entry that is evicted has as many different ones behind it as the cache has entries
  (`KeptOrEvicted`). `Without`, the cache without an entry, is written with positions: `SelectSeq` is recursive and nothing can
  be proved of it.
* **`WeightSync_proofs`.** First the program is tabulated (`ProgramSteps`): which step has which targets. `Stage` then says what
  the steps before the present one have done to the replicas, `Stamping` that weights and `global_steps` of a server differ only
  while it is being loaded, and `Running` that nobody runs at a paused engine. With them `OneVersion` is inductive: a server is only loaded
  while it is paused or asleep. `StampsAlwaysCover` and `NeverGoesBackwards` need a second layer: at any moment all
  servers that can generate serve one version, `Serving` (`ServersCurrent`), all tokens are at most that version (`TokensServed`), and the
  smallest stamp of a conversation is a lower bound of them (`StampsBound`).
* **`Checkpoint_proofs`.** `Counted` is the arithmetic of a life of the job: samples in flight and trained add up to what was
  fed, of which an earlier life accounts for the rest; from it come the bounds of the type invariant and `NoneTwice`. `Ordered`
  (saved versions grow), `Contents` (what has been written of the version being saved) and `Files` (nothing kept is newer than
  the tracked version but the one being saved) give `TrackedStaysComplete`, which assumes `MaxKeep # 1`: with one kept it is
  false (`keep_one`). `SnapshotImplemented` shows step by step that `SaveTracker` is `Save`, a crash a stutter, a restart
  `Restart`.
* **`ReplayBuffer_proofs`.** The order of events makes the batch complete: `OutputsFirst` says that neither the buffer nor the
  listing has a prompt's end without its outputs, `OutputsStay` that an output once seen stays until its batch is cleared, and `Begun`
  and `Past` place a prompt before or after the trainer. Removed keys may come back, but only of batches that are past.

* **`Dialogue_proofs`.** `ParsedType` and `WellFormedParsed` say what the parser returns: calls of the answer, and the answer
  itself if nothing in it is malformed. Behind it is `RankExists`, that every rank up to the size of a set of positions is taken.
  `SearchesFit` is the search limit: the last search admitted was counted after all the others. With it `AgentInv` is inductive for
  the training's loop, and `EvalInv` for the evaluation's. `Parity` only speaks of the moments at which both are between two turns. Within a turn the
  evaluation is ahead by one call: `ParityInv` says by how much the counts differ when the training has read the
  answer (`CallsDue`) and when it waits for the tool (`AnswersDue`), and `OrderInv` that a loop only runs ahead of one that has ended.
  `TrainingImplemented` and `EvaluationImplemented` show that putting the loops side by side adds no step to either.

Model-checked only: the liveness properties (`RunEnds`, `Served`, `ShutdownReleases`, `TurnReturns`, `Finishes`, `ConversationEnds`,
`Trained`), since liveness under fairness is out of the prover's reach. The counterexamples of the four runs that expect a
violation are TLC's too.

## 5. Plan

The safety properties of the runs are proved. What could follow: that `FullyAsync` uses the queue as `MessageQueueActor` allows, which would
carry the latter's delivery order over to the pipeline; and from the abstract `TrainingStream` and `Snapshot` the bounds a
reader wants of them (batches times their size never exceed the samples, a restart never comes back to an older
snapshot than the last one saved).

## 6. Not modelled

The update step (advantages, losses, optimiser) is one action: floating-point tensor computation. Ray's failures (an actor that
dies alone, a lost call) are not handled by this code and not modelled; a crash takes the whole job down. Engines before vLLM 0.12,
the token budget of retried calls, several ranks of a checkpoint and the contents of the files besides the trained samples are left out. Batch
assembly, metrics, profiling and log output are left out.

The rate-limited reward manager works on real time and rates, and the ClarQ recipe does not use it. The one-step-off-policy and the
classic synchronous trainer are sequential drivers. Evaluation metrics, the resume of evaluation files, the offline
user-simulator scripts, dataset preparation, engines, models, kernels and vendored code keep no interacting state;
most of the repository's lines are of this kind. The components table in `PROJECT.json` gives the reason for each.
