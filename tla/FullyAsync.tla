----------------------------- MODULE FullyAsync -----------------------------
(***************************************************************************)
(* The streaming core of fully_async_policy: the Rollouter's coroutines    *)
(* (feeder, processor, one task per sample, generation main, monitor), the *)
(* message queue and the Trainer's loop.                                   *)
(*                                                                         *)
(* The Rollouter is one asyncio event loop: its coroutines change turns    *)
(* only at an await that suspends.  The processor is cut into several      *)
(* actions all the same; ProcSuspended keeps the other coroutines from     *)
(* running between two of them where the code does not suspend.            *)
(* self.lock is its holder and the line of those that wait for it; only    *)
(* two holders suspend inside it, the other critical sections are single   *)
(* steps.  A call to the queue actor is one step at the actor and another  *)
(* that uses the answer, wherever the answer may be stale by then.         *)
(***************************************************************************)
EXTENDS Naturals, Sequences, FiniteSets

CONSTANTS
  RequiredSamples,     \* ppo_mini_batch_size * require_batches
  TriggerSyncStep,     \* trigger_parameter_sync_step
  StalenessPercent,    \* 100 * staleness_threshold
  ReplicaCapacity,     \* 16 * number of rollout replicas
  TotalRolloutSteps,   \* total_rollout_steps
  PendingMax,          \* maxsize of pending_queue (128 in the source)
  TestFreq,            \* trainer.test_freq
  Faulty,              \* samples whose generation may raise
  None                 \* the end signal

Samples == 1 .. TotalRolloutSteps

ASSUME FullyAsyncAssumption ==
  /\ RequiredSamples \in Nat \ {0}
  /\ TriggerSyncStep \in Nat \ {0}
  /\ StalenessPercent \in Nat
  /\ ReplicaCapacity \in Nat \ {0}
  /\ TotalRolloutSteps \in Nat \ {0}
  /\ PendingMax \in Nat \ {0}
  /\ TestFreq \in Nat \ {0}
  /\ Faulty \subseteq Samples
  /\ None \notin Nat

\* set_max_required_samples: int(required * (threshold + 1) * trigger).
max_required_samples ==
  LET perSync == RequiredSamples * TriggerSyncStep
  IN  perSync + (perSync * StalenessPercent) \div 100

\* Mutant: the staleness slack is missing from the queue's capacity.
QueueWithoutSlack == RequiredSamples * TriggerSyncStep

max_queue_size == max_required_samples

max_concurrent_samples ==
  IF ReplicaCapacity < max_required_samples THEN ReplicaCapacity
                                            ELSE max_required_samples

VARIABLES
  \* message queue
  queue, mq_running, total_produced, total_consumed, dropped_samples,
  \* rollouter: shared state
  lock,                \* self.lock: Free, or its suspended holder
  waiters,             \* self.lock._waiters: coroutines, in order of arrival
  paused,              \* self.paused
  resume_event,        \* self._resume_event
  staleness_samples,   \* self.staleness_samples
  generating,          \* active tasks that have not put their sample yet
  returning,           \* active tasks whose put_sample is still to return
  finished,            \* tasks that are done but still in self.active_tasks
  failed,              \* the tasks among `finished' that raised
  \* rollouter: feeder
  feed_pc, global_steps, pending_queue,
  \* rollouter: processor, generation main and monitor
  proc_pc,
  held,                \* the sample taken from pending_queue, not submitted
  reaping,             \* the done set the drain loop's wait returned
  gen_pc, running, mon_pc,
  \* trainer
  train_pc,
  stopping,            \* the loop has ended, fit's last lines are running
  batch,               \* queue_samples of _get_samples_from_queue
  trained,             \* history: the samples of all completed steps, in order
  local_trigger_step, current_param_version,
  rollout_version,     \* version of the weights in the rollout replicas
  snapshot,            \* len(active_tasks) read by reset_staleness
  \* main
  main_pc

mqVars    == <<queue, mq_running, total_produced, total_consumed, dropped_samples>>
lockVars  == <<lock, waiters>>
taskVars  == <<generating, returning, finished, failed>>
feedVars  == <<feed_pc, global_steps, pending_queue>>
procVars  == <<proc_pc, held, reaping>>
pauseVars == <<paused, resume_event>>
trainVars == <<train_pc, stopping, batch, trained, local_trigger_step,
               current_param_version, rollout_version, snapshot>>

vars == <<mqVars, lockVars, pauseVars, staleness_samples, taskVars, feedVars, procVars,
          gen_pc, running, mon_pc, trainVars, main_pc>>

MQ == INSTANCE MessageQueue WITH MaxQueueSize <- max_queue_size

Free == "free"

\* self.active_tasks: safe_create_task adds a task and nothing but the
\* processor's own waits removes it, so finished tasks are members too.
active_tasks == generating \cup returning \cup finished

\* The two tests of _should_pause_generation: the first on the statistics as
\* the queue actor answered them, the second on the counter when they arrive.
QueueFull == Len(queue) >= max_queue_size

\* Mutant: one sample too many.
TooStaleLate == staleness_samples > max_required_samples

TooStale == staleness_samples >= max_required_samples

AtLimit == Cardinality(active_tasks) >= max_concurrent_samples

\* Mutant: the tasks that are left are not waited for.
NotDrained == TRUE

\* No task is left for the processor to wait for after the end signal.
Drained == active_tasks = {}

Init ==
  /\ MQ!MQInit
  /\ lock = Free /\ waiters = <<>> /\ paused = FALSE /\ resume_event = TRUE
  /\ staleness_samples = 0
  /\ generating = {} /\ returning = {} /\ finished = {} /\ failed = {}
  /\ feed_pc = "feed" /\ global_steps = 1 /\ pending_queue = <<>>
  /\ proc_pc = "check" /\ held = None /\ reaping = {}
  /\ gen_pc = "stream" /\ running = TRUE /\ mon_pc = "sleep"
  /\ train_pc = "collect" /\ stopping = FALSE /\ batch = <<>> /\ trained = <<>>
  /\ local_trigger_step = 1 /\ current_param_version = 0 /\ rollout_version = 0
  /\ snapshot = 0
  /\ main_pc = "running"

-----------------------------------------------------------------------------
\* The event loop

PendingRoom == Len(pending_queue) < PendingMax

FeederRuns == feed_pc \in {"feed", "end"} /\ PendingRoom

\* Who needs self.lock for its next step.
AtLock(c) ==
  \/ /\ c = "processor"
     /\ \/ proc_pc \in {"pause", "reap"}
        \/ proc_pc = "limit" /\ (~AtLimit /\ paused => resume_event)
        \/ proc_pc = "end" /\ ~Drained
  \/ c = "main" /\ gen_pc = "finish"
  \/ c = "reset" /\ train_pc = "reset"

InLine(c) == \E i \in 1 .. Len(waiters) : waiters[i] = c

\* asyncio.Lock.acquire returns at once when the lock is free and nobody waits
\* for it; release wakes the first in line and nobody overtakes it.
Turn(c) ==
  /\ lock = Free
  /\ \/ waiters = <<>> /\ UNCHANGED waiters
     \/ waiters # <<>> /\ Head(waiters) = c /\ waiters' = Tail(waiters)

\* A critical section without an await, and one that awaits with the lock.
Section(c) == Turn(c) /\ UNCHANGED lock

TakeLock(c) == Turn(c) /\ lock' = c

\* The processor only suspends in line for the lock, inside it, at an empty
\* pending_queue and at the waits that have a pc of their own: what it comes to
\* otherwise happens before any other coroutine runs.
ProcSuspended ==
  /\ AtLock("processor") => InLine("processor") \/ lock = "processor"
  /\ proc_pc = "end" => ~Drained
  /\ proc_pc = "get" => pending_queue = <<>>

\* acquire of a lock that is held, or that others wait for.
LineUp(c) ==
  /\ AtLock(c) /\ ~InLine(c) /\ lock # c
  /\ ~(lock = Free /\ waiters = <<>>)
  /\ c # "processor" => ProcSuspended
  /\ waiters' = Append(waiters, c)
  /\ UNCHANGED <<mqVars, lock, pauseVars, staleness_samples, taskVars, feedVars, procVars,
                 gen_pc, running, mon_pc, trainVars, main_pc>>

-----------------------------------------------------------------------------
\* Feeder: _feed_samples

FeedSample ==
  /\ feed_pc = "feed"
  /\ ProcSuspended
  /\ PendingRoom
  /\ pending_queue' = Append(pending_queue, global_steps)
  /\ IF global_steps >= TotalRolloutSteps
       THEN feed_pc' = "end" /\ UNCHANGED global_steps
       ELSE global_steps' = global_steps + 1 /\ UNCHANGED feed_pc
  /\ UNCHANGED <<mqVars, lockVars, pauseVars, staleness_samples, taskVars, procVars,
                 gen_pc, running, mon_pc, trainVars, main_pc>>

FeedEndSignal ==
  /\ feed_pc = "end"
  /\ ProcSuspended
  /\ PendingRoom
  /\ pending_queue' = Append(pending_queue, None)
  /\ feed_pc' = "done"
  /\ UNCHANGED <<mqVars, lockVars, pauseVars, staleness_samples, taskVars, global_steps,
                 procVars, gen_pc, running, mon_pc, trainVars, main_pc>>

-----------------------------------------------------------------------------
\* Processor: _processor_worker

\* Removing the done tasks of a wait from active_tasks and awaiting them: the
\* first one that raised takes the processor with it.
Reap(done, next_pc) ==
  /\ finished' = finished \ done
  /\ failed' = failed \ done
  /\ proc_pc' = IF done \cap failed = {} THEN next_pc ELSE "failed"
  /\ UNCHANGED <<generating, returning>>

\* Mutant: the flag is cleared, the event is not set.
ResumeFlagOnly == paused' = FALSE /\ UNCHANGED resume_event

\* The end of a pause, in reset_staleness and in the monitor.
Resume == paused' = FALSE /\ resume_event' = TRUE

\* `if self.paused or await self._should_pause_generation()': the actor's
\* answer, taken now, is used in ProcDecide.
ProcCheck ==
  /\ proc_pc = "check"
  /\ proc_pc' = IF paused THEN "pause" ELSE IF QueueFull THEN "full" ELSE "not_full"
  /\ UNCHANGED <<mqVars, lockVars, pauseVars, staleness_samples, taskVars, feedVars,
                 held, reaping, gen_pc, running, mon_pc, trainVars, main_pc>>

\* The feeder has filled the pending queue while the answer was on its way.
ProcDecide ==
  /\ proc_pc \in {"full", "not_full"}
  /\ ~FeederRuns
  /\ proc_pc' = IF proc_pc = "full" \/ TooStale THEN "pause" ELSE "get"
  /\ UNCHANGED <<mqVars, lockVars, pauseVars, staleness_samples, taskVars, feedVars,
                 held, reaping, gen_pc, running, mon_pc, trainVars, main_pc>>

ProcPause ==
  /\ proc_pc = "pause"
  /\ Section("processor")
  /\ paused' = TRUE
  /\ resume_event' = FALSE
  /\ proc_pc' = "drain"
  /\ UNCHANGED <<mqVars, staleness_samples, taskVars, feedVars, held, reaping,
                 gen_pc, running, mon_pc, trainVars, main_pc>>

\* The drain loop's wait returns: every task done by now, and whether the
\* resume signal is among them.  With no task left only the signal is awaited.
ProcWake ==
  /\ proc_pc = "drain"
  /\ finished # {} \/ resume_event
  /\ reaping' = finished
  /\ proc_pc' = IF finished # {} THEN "reap" ELSE "check"
  /\ UNCHANGED <<mqVars, lockVars, pauseVars, staleness_samples, taskVars, feedVars, held,
                 gen_pc, running, mon_pc, trainVars, main_pc>>

ProcReap ==
  /\ proc_pc = "reap"
  /\ Section("processor")
  /\ Reap(reaping, IF resume_event THEN "check" ELSE "drain")
  /\ reaping' = {}
  /\ UNCHANGED <<mqVars, pauseVars, staleness_samples, feedVars, held,
                 gen_pc, running, mon_pc, trainVars, main_pc>>

\* pending_queue.get(), then the unlocked increment, which counts the end
\* signal as well.
ProcGet ==
  /\ proc_pc = "get"
  /\ pending_queue # <<>>
  /\ pending_queue' = Tail(pending_queue)
  /\ staleness_samples' = staleness_samples + 1
  /\ held' = Head(pending_queue)
  /\ proc_pc' = IF Head(pending_queue) = None THEN "end" ELSE "limit"
  /\ UNCHANGED <<mqVars, lockVars, pauseVars, taskVars, feed_pc, global_steps, reaping,
                 gen_pc, running, mon_pc, trainVars, main_pc>>

\* At the concurrency limit, and at the end signal while tasks are left, the
\* processor waits for a task with the lock in its hands.
ProcLock ==
  /\ \/ proc_pc = "limit" /\ AtLimit
     \/ proc_pc = "end" /\ ~Drained
  /\ TakeLock("processor")
  /\ UNCHANGED <<mqVars, pauseVars, staleness_samples, taskVars, feedVars, procVars,
                 gen_pc, running, mon_pc, trainVars, main_pc>>

ProcUnlock ==
  /\ proc_pc \in {"limit", "end"}
  /\ lock = "processor"
  /\ finished # {}
  /\ Reap(finished, proc_pc)
  /\ lock' = Free /\ UNCHANGED waiters
  /\ UNCHANGED <<mqVars, pauseVars, staleness_samples, feedVars, held, reaping,
                 gen_pc, running, mon_pc, trainVars, main_pc>>

ProcSubmit ==
  /\ proc_pc = "limit"
  /\ ~AtLimit
  /\ paused => resume_event
  /\ Section("processor")
  /\ generating' = generating \cup {held}
  /\ held' = None
  /\ proc_pc' = "check"
  /\ UNCHANGED <<mqVars, pauseVars, staleness_samples, returning, finished, failed,
                 feedVars, reaping, gen_pc, running, mon_pc, trainVars, main_pc>>

ProcEnd ==
  /\ proc_pc = "end"
  /\ Drained
  /\ lock # "processor"
  /\ proc_pc' = "done"
  /\ UNCHANGED <<mqVars, lockVars, pauseVars, staleness_samples, taskVars, feedVars, held,
                 reaping, gen_pc, running, mon_pc, trainVars, main_pc>>

ProcStep ==
  \/ ProcCheck \/ ProcDecide \/ ProcPause \/ ProcWake \/ ProcReap
  \/ ProcGet \/ ProcLock \/ ProcUnlock \/ ProcSubmit \/ ProcEnd
  \/ LineUp("processor")

-----------------------------------------------------------------------------
\* Sample tasks: _process_single_sample_streaming

TaskPut(t) ==
  /\ t \in generating
  /\ generating' = generating \ {t}
  /\ returning' = returning \cup {t}
  /\ MQ!PutSample(t)
  /\ UNCHANGED <<lockVars, pauseVars, staleness_samples, finished, failed, feedVars, procVars,
                 gen_pc, running, mon_pc, trainVars, main_pc>>

TaskReturn(t) ==
  /\ t \in returning
  /\ ProcSuspended
  /\ returning' = returning \ {t}
  /\ finished' = finished \cup {t}
  /\ UNCHANGED <<mqVars, lockVars, pauseVars, staleness_samples, generating, failed, feedVars,
                 procVars, gen_pc, running, mon_pc, trainVars, main_pc>>

TaskRaise(t) ==
  /\ t \in generating \cap Faulty
  /\ ProcSuspended
  /\ generating' = generating \ {t}
  /\ finished' = finished \cup {t}
  /\ failed' = failed \cup {t}
  /\ UNCHANGED <<mqVars, lockVars, pauseVars, staleness_samples, returning, feedVars, procVars,
                 gen_pc, running, mon_pc, trainVars, main_pc>>

-----------------------------------------------------------------------------
\* Generation main: the finally block of _streaming_generation_main

\* Mutant: an exception of the processor skips the finally block.
ProcessorReturned == proc_pc = "done"

ProcessorOver == proc_pc \in {"done", "failed"}

\* An unfinished feeder is cancelled first.
FinishSignal ==
  /\ gen_pc = "stream"
  /\ ProcessorOver
  /\ feed_pc' = "done"
  /\ MQ!PutSample(None)
  /\ gen_pc' = "finish"
  /\ UNCHANGED <<lockVars, pauseVars, staleness_samples, taskVars, global_steps, pending_queue,
                 procVars, running, mon_pc, trainVars, main_pc>>

FinishRunning ==
  /\ gen_pc = "finish"
  /\ ProcSuspended
  /\ Section("main")
  /\ running' = FALSE
  /\ gen_pc' = "done"
  /\ UNCHANGED <<mqVars, pauseVars, staleness_samples, taskVars, feedVars, procVars,
                 mon_pc, trainVars, main_pc>>

FinishStep == FinishSignal \/ FinishRunning \/ LineUp("main")

-----------------------------------------------------------------------------
\* Monitor: _async_monitor_loop.  The sleep may end at any time.

\* The top of the loop: self.running is read under the lock, at once or in line.
Iterate(line) ==
  IF lock = Free /\ line = <<>>
    THEN waiters' = line /\ mon_pc' = (IF running THEN "sleep" ELSE "done")
    ELSE waiters' = Append(line, "monitor") /\ mon_pc' = "top"

\* After the sleep: `self.paused and not await self._should_pause_generation()'.
MonitorCheck ==
  /\ mon_pc = "sleep"
  /\ IF paused /\ ~QueueFull
       THEN mon_pc' = "not_full" /\ UNCHANGED waiters
       ELSE Iterate(waiters)
  /\ UNCHANGED pauseVars

MonitorDecide ==
  /\ mon_pc = "not_full"
  /\ IF TooStale
       THEN Iterate(waiters) /\ UNCHANGED pauseVars
       ELSE IF lock = Free /\ waiters = <<>>
              THEN Resume /\ Iterate(waiters)
              ELSE /\ waiters' = Append(waiters, "monitor")
                   /\ mon_pc' = "resume"
                   /\ UNCHANGED pauseVars

\* Its turn in the line.
MonitorServed ==
  /\ mon_pc \in {"top", "resume"}
  /\ lock = Free /\ waiters # <<>> /\ Head(waiters) = "monitor"
  /\ IF mon_pc = "resume"
       THEN Resume /\ Iterate(Tail(waiters))
       ELSE /\ mon_pc' = IF running THEN "sleep" ELSE "done"
            /\ waiters' = Tail(waiters)
            /\ UNCHANGED pauseVars

MonitorStep ==
  /\ ProcSuspended
  /\ MonitorCheck \/ MonitorDecide \/ MonitorServed
  /\ UNCHANGED <<mqVars, lock, staleness_samples, taskVars, feedVars, procVars,
                 gen_pc, running, trainVars, main_pc>>

-----------------------------------------------------------------------------
\* Trainer: fit, fit_step

BatchComplete(samples) == Len(samples) >= RequiredSamples

\* _get_samples_from_queue: the end signal discards a partial batch and stops
\* the training loop (TrainingStopException).
TrainerGet ==
  /\ train_pc = "collect"
  /\ MQ!GetSample
  /\ IF Head(queue) = None
       THEN /\ batch' = <<>>
            /\ train_pc' = "stop"
       ELSE /\ batch' = Append(batch, Head(queue))
            /\ train_pc' = IF BatchComplete(batch') THEN "train" ELSE "collect"
  /\ UNCHANGED <<lockVars, pauseVars, staleness_samples, taskVars, feedVars, procVars, gen_pc,
                 running, mon_pc, stopping, trained, local_trigger_step,
                 current_param_version, rollout_version, snapshot, main_pc>>

\* Mutant: off by one.
MidTriggerLate == local_trigger_step <= TriggerSyncStep

MidTrigger == local_trigger_step < TriggerSyncStep

\* The update of the actor, then _fit_update_local_step.
TrainerStep ==
  /\ train_pc = "train"
  /\ trained' = trained \o batch
  /\ batch' = <<>>
  /\ train_pc' = "update_weights"
  /\ IF MidTrigger
       THEN /\ local_trigger_step' = local_trigger_step + 1
            /\ UNCHANGED current_param_version
       ELSE /\ current_param_version' = current_param_version + 1
            /\ local_trigger_step' = 1
  /\ UNCHANGED <<mqVars, lockVars, pauseVars, staleness_samples, taskVars, feedVars, procVars,
                 gen_pc, running, mon_pc, stopping, rollout_version, snapshot, main_pc>>

\* The end of fit.
TrainerStop ==
  /\ train_pc = "stop"
  /\ stopping' = TRUE
  /\ train_pc' = IF current_param_version % TestFreq # 0 \/ local_trigger_step > 1
                   THEN "update_weights" ELSE "done"
  /\ UNCHANGED <<mqVars, lockVars, pauseVars, staleness_samples, taskVars, feedVars, procVars,
                 gen_pc, running, mon_pc, batch, trained, local_trigger_step,
                 current_param_version, rollout_version, snapshot, main_pc>>

AfterUpdate == IF stopping THEN "done" ELSE "collect"

\* Mutant: the sync belongs to the step before the wrap-around.
SyncBeforeWrap == local_trigger_step = TriggerSyncStep

SyncDue == local_trigger_step = 1

\* _fit_update_weights: nothing in mid-trigger, else
\* checkpoint_manager.update_weights and then the reset.
TrainerSync ==
  /\ train_pc = "update_weights"
  /\ IF SyncDue
       THEN train_pc' = "reset" /\ rollout_version' = current_param_version
       ELSE train_pc' = AfterUpdate /\ UNCHANGED rollout_version
  /\ UNCHANGED <<mqVars, lockVars, pauseVars, staleness_samples, taskVars, feedVars, procVars,
                 gen_pc, running, mon_pc, stopping, batch, trained, local_trigger_step,
                 current_param_version, snapshot, main_pc>>

\* rollouter.reset_staleness up to its await: len(active_tasks) is evaluated
\* before the queue size is asked for.
ResetBegin ==
  /\ train_pc = "reset"
  /\ ProcSuspended
  /\ TakeLock("reset")
  /\ Resume
  /\ snapshot' = Cardinality(active_tasks)
  /\ train_pc' = "reset_size"
  /\ UNCHANGED <<mqVars, staleness_samples, taskVars, feedVars, procVars, gen_pc, running,
                 mon_pc, stopping, batch, trained, local_trigger_step,
                 current_param_version, rollout_version, main_pc>>

\* Mutant: the tasks in flight are not counted.
ResetCountQueueOnly == Len(queue)

ResetCount == snapshot + Len(queue)

\* The queue size arrives: the assignment overwrites whatever the processor
\* added to the counter in between.
ResetFinish ==
  /\ train_pc = "reset_size"
  /\ ProcSuspended
  /\ staleness_samples' = ResetCount
  /\ lock' = Free /\ UNCHANGED waiters
  /\ snapshot' = 0
  /\ train_pc' = AfterUpdate
  /\ UNCHANGED <<mqVars, pauseVars, taskVars, feedVars, procVars, gen_pc, running, mon_pc,
                 stopping, batch, trained, local_trigger_step, current_param_version,
                 rollout_version, main_pc>>

TrainerActs ==
  \/ TrainerGet \/ TrainerStep \/ TrainerStop \/ TrainerSync \/ ResetBegin \/ ResetFinish
  \/ LineUp("reset")

-----------------------------------------------------------------------------
\* Main: _run_training_loop, once both fits have returned

MainFinish ==
  /\ main_pc = "running"
  /\ train_pc = "done"
  /\ gen_pc = "done"
  /\ mon_pc = "done"
  /\ MQ!ClearQueue
  /\ main_pc' = "done"
  /\ UNCHANGED <<lockVars, pauseVars, staleness_samples, taskVars, feedVars, procVars, gen_pc,
                 running, mon_pc, trainVars>>

\* Nothing is left to run.
Terminated ==
  /\ main_pc = "done"
  /\ generating \cup returning = {}
  /\ UNCHANGED vars

Next ==
  \/ FeedSample \/ FeedEndSignal
  \/ ProcStep
  \/ \E t \in Samples : TaskPut(t) \/ TaskReturn(t) \/ TaskRaise(t)
  \/ FinishStep
  \/ MonitorStep
  \/ TrainerActs
  \/ MainFinish
  \/ Terminated

\* Every coroutine that can run is resumed, though others may run first again
\* and again (strong fairness).  A generation ends, by a put or by raising;
\* nothing forces a sample to raise.
Fairness ==
  /\ WF_vars(FeedSample \/ FeedEndSignal)
  /\ SF_vars(ProcStep)
  /\ WF_vars(\E t \in Samples : TaskPut(t))
  /\ WF_vars(\E t \in Samples : TaskReturn(t))
  /\ SF_vars(FinishStep)
  /\ SF_vars(MonitorStep)
  /\ SF_vars(TrainerActs)
  /\ WF_vars(MainFinish)

Spec == Init /\ [][Next]_vars /\ Fairness

-----------------------------------------------------------------------------
\* Properties

TypeOK ==
  /\ queue \in Seq(Samples \cup {None})
  /\ mq_running \in BOOLEAN
  /\ {total_produced, total_consumed, dropped_samples} \subseteq Nat
  /\ lock \in {Free, "processor", "reset"}
  /\ waiters \in Seq({"processor", "reset", "monitor", "main"})
  /\ paused \in BOOLEAN /\ resume_event \in BOOLEAN
  /\ staleness_samples \in Nat
  /\ generating \subseteq Samples /\ returning \subseteq Samples
  /\ finished \subseteq Samples /\ failed \subseteq finished
  /\ feed_pc \in {"feed", "end", "done"}
  /\ global_steps \in Samples
  /\ pending_queue \in Seq(Samples \cup {None})
  /\ proc_pc \in {"check", "full", "not_full", "pause", "drain", "reap", "get",
                  "limit", "end", "done", "failed"}
  /\ held \in Samples \cup {None}
  /\ proc_pc = "limit" => held # None
  /\ reaping \subseteq IF proc_pc = "reap" THEN finished ELSE {}
  /\ gen_pc \in {"stream", "finish", "done"}
  /\ running \in BOOLEAN
  /\ mon_pc \in {"top", "sleep", "not_full", "resume", "done"}
  /\ train_pc \in {"collect", "train", "update_weights", "reset", "reset_size",
                   "stop", "done"}
  /\ stopping \in BOOLEAN
  /\ batch \in Seq(Samples)
  /\ trained \in Seq(Samples)
  /\ local_trigger_step \in 1 .. TriggerSyncStep
  /\ current_param_version \in Nat /\ rollout_version \in Nat
  /\ snapshot \in Nat
  /\ main_pc \in {"running", "done"}

\* 1 while the processor has a sample between pending_queue and its task.
Holding == IF held = None THEN 0 ELSE 1

\* Samples taken from pending_queue whose batch the trainer has yet to collect.
Outstanding == Cardinality(generating) + Holding + Len(queue)

\* Freshness control (reset_staleness, _should_pause_generation): while the
\* stream is open the samples in flight and queued never exceed the limit by
\* more than the one sample the processor has taken and not submitted when a
\* reset overwrites the counter: taken while the reset awaits the queue size, or
\* before, with the processor behind the reset in the line of the lock.
OutstandingBound ==
  gen_pc = "stream" => Outstanding <= max_required_samples + 1

\* The counter the pause decision is taken on: whatever resets and unlocked
\* increments interleave, it misses at most one outstanding sample.
CounterUndercountsByOne ==
  gen_pc = "stream" => Outstanding <= staleness_samples + 1

\* paused and _resume_event never disagree, and as long as they say paused the
\* processor is parked in its drain loop (or dead): the second `if
\* self.paused' of _processor_worker never has anything to wait for.
ParkedWhilePaused ==
  /\ resume_event = ~paused
  /\ paused => proc_pc \in {"drain", "reap", "failed"}

\* Who holds the lock and the sample, and that the generation main follows the
\* processor.
Roles ==
  /\ lock = "reset" <=> train_pc = "reset_size"
  /\ lock = "processor" => proc_pc \in {"limit", "end"}
  /\ held # None => proc_pc \in {"limit", "failed"}
  /\ gen_pc # "stream" => ProcessorOver

\* Nobody submits while a reset holds the lock: its snapshot stays an upper
\* bound of the tasks that generate.
SnapshotCovers == lock = "reset" => Cardinality(generating) <= snapshot

\* The processor goes for a sample only when there is room for it, and nobody
\* takes the room before it has the sample.
RoomBeforeGet ==
  proc_pc = "get" => Cardinality(generating) + Len(queue) <= max_required_samples

\* Why the freshness bounds hold: an inductive invariant.
FreshnessInv ==
  Roles /\ SnapshotCovers /\ RoomBeforeGet /\ OutstandingBound /\ CounterUndercountsByOne

\* The end signal closes the stream: after a normal end no task is left, and
\* no sample is queued behind the signal.
NothingAfterEndSignal ==
  (gen_pc # "stream" /\ proc_pc = "done")
    => /\ active_tasks = {}
       /\ \A i \in 1 .. Len(queue) : queue[i] = None => i = Len(queue)

\* The end signal is never the sample a full queue drops, not even when tasks
\* that outlive a failed processor keep putting behind it.
EndSignalNotDropped ==
  [][(dropped_samples' # dropped_samples) => Head(queue) # None]_vars

\* After a run without a failure the trainer has stopped and every sample was
\* trained on, dropped by the full queue, or part of the last, partial batch.
NoSampleLost ==
  (train_pc = "done" /\ proc_pc = "done")
    => LET missing == TotalRolloutSteps - (Len(trained) + dropped_samples)
       IN  Len(trained) + dropped_samples <= TotalRolloutSteps /\ missing < RequiredSamples

\* Every run ends: the trainer is never starved, a failed generation included,
\* and the rollouter, its monitor and main finish too.
RunEnds == <>(main_pc = "done")

\* README: at most (1 + staleness_threshold) * trigger * required samples,
\* those left over from the last rollout included, are generated between two
\* parameter updates.  Read where the trainer has collected none of them yet.
RolloutNumBound ==
  (gen_pc = "stream" /\ train_pc = "collect" /\ batch = <<>> /\ local_trigger_step = 1)
    => Cardinality(generating) + Len(queue) <= max_required_samples

\* README: rollout continues to generate and trainer continues to consume.
TrainerContinues == (train_pc = "collect") ~> (train_pc # "collect" \/ queue # <<>>)

\* The pipeline implements TrainingStream: no sample is trained on twice, every
\* step takes a full batch, versions are published on time.
TS == INSTANCE TrainingStream WITH
  Samples <- Samples,
  BatchSize <- RequiredSamples,
  Trigger <- TriggerSyncStep,
  todo <- Samples \ {trained[i] : i \in 1 .. Len(trained)},
  steps <- Len(trained) \div RequiredSamples,
  version <- rollout_version,
  open <- ~stopping

ImplementsTrainingStream == TS!Spec

=============================================================================
